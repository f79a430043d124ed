----------------------------- MODULE NoiseProofs -----------------------------
(***************************************************************************)
(* Proofs about a Noise session, in two parts.  Its keys: NoiseKeys keeps  *)
(* its invariants for every packet budget, replay window and number of     *)
(* generations.  Its control stream: the stop-and-wait protocol implements *)
(* ControlStream for any number of writers, any messages and any queue     *)
(* capacities, over a network that loses, repeats and reorders.            *)
(***************************************************************************)
EXTENDS NoiseKeys, ReliableControl, TLAPS

-----------------------------------------------------------------------------
(* The keys.                                                               *)

(* What holds of one sending state on its own: everything it has sent is   *)
(* at or below its nonce, and no nonce was used for two packets.           *)
NoncesBelow(s) ==
    \A pkt \in s.sent :
        pkt.epoch < s.epoch \/ (pkt.epoch = s.epoch /\ pkt.n <= s.counter)

NoncesUnique(s) ==
    \A a, b \in s.sent : a.epoch = b.epoch /\ a.n = b.n => a = b

SenderOK(s) == s \in TxStates /\ NoncesBelow(s) /\ NoncesUnique(s)

(* The effect any sending operator has on a sending state: it stays in its *)
(* generation, or leaves a confirmed one for the next, unconfirmed; the    *)
(* only confirmations it sends are for generation e.                       *)
SenderStep(s, t, e) ==
    /\ SenderOK(t)
    /\ \/ t.epoch = s.epoch /\ t.confirmed = s.confirmed
       \/ t.epoch = s.epoch + 1 /\ s.confirmed /\ ~t.confirmed
    /\ \A pkt \in t.sent : pkt \in s.sent \/ pkt.kind # "keyACK" \/ pkt.body = e

(* sendLocked takes the next nonce of the current generation. *)
LEMMA SendLockedStep ==
    ASSUME NEW s, SenderOK(s), NEW kind \in Kinds, NEW body \in Epochs
    PROVE  /\ SenderStep(s, SendLocked(s, kind, body), body)
           /\ SendLocked(s, kind, body).epoch = s.epoch
           /\ SendLocked(s, kind, body).confirmed = s.confirmed
           /\ \A pkt \in SendLocked(s, kind, body).sent :
                  pkt \in s.sent \/ pkt.kind = kind
<1> DEFINE new == [kind |-> kind, epoch |-> s.epoch, n |-> s.counter + 1, body |-> body]
           t == SendLocked(s, kind, body)
<1>0. /\ s \in TxStates /\ s.epoch \in Epochs /\ s.counter \in 0 .. MaxCounter - 1
      /\ s.sent \subseteq Packets /\ MaxCounter \in Nat
  BY KeyAssumption DEF SenderOK, TxStates
<1>1. CASE s.failed \/ s.counter + 1 >= MaxCounter
  <2>1. t = [s EXCEPT !.failed = TRUE]
    BY <1>1 DEF SendLocked
  <2>2. t \in TxStates /\ t.sent = s.sent /\ t.epoch = s.epoch
        /\ t.counter = s.counter /\ t.confirmed = s.confirmed
    BY <2>1, <1>0 DEF TxStates
  <2> QED
    BY <2>2 DEF SenderOK, SenderStep, NoncesBelow, NoncesUnique
<1>2. CASE ~(s.failed \/ s.counter + 1 >= MaxCounter)
  <2>1. t = [s EXCEPT !.counter = s.counter + 1, !.sent = s.sent \cup {new}]
    BY <1>2 DEF SendLocked
  <2>2. new \in Packets
    BY <1>0, <1>2 DEF Packets, Counters, Epochs
  <2> HIDE DEF t, new
  <2>a. s.counter + 1 \in 0 .. MaxCounter - 1 /\ s.sent \cup {new} \in SUBSET Packets
    BY <1>0, <1>2, <2>2
  <2>b. t \in TxStates
    BY <2>1, <2>a, <1>0 DEF TxStates
  <2>c. t.sent = s.sent \cup {new} /\ t.epoch = s.epoch
        /\ t.counter = s.counter + 1 /\ t.confirmed = s.confirmed
    BY <2>1, <1>0 DEF TxStates
  <2>d. new.epoch = s.epoch /\ new.n = s.counter + 1 /\ new.kind = kind
        /\ new.body = body
    BY DEF new
  <2>3. t \in TxStates /\ t.sent = s.sent \cup {new} /\ t.epoch = s.epoch
        /\ t.counter = s.counter + 1 /\ t.confirmed = s.confirmed
    BY <2>b, <2>c
  <2>4. NoncesBelow(t)
    BY <2>3, <2>d, <1>0 DEF NoncesBelow, SenderOK, Packets, Epochs, Counters
  <2>5. \A pkt \in s.sent : ~(pkt.epoch = new.epoch /\ pkt.n = new.n)
    BY <2>d, <1>0 DEF SenderOK, NoncesBelow, Packets, Epochs, Counters
  <2>6. NoncesUnique(t)
    BY <2>3, <2>5 DEF NoncesUnique, SenderOK
  <2> QED
    BY <2>3, <2>4, <2>6, <2>d DEF SenderOK, SenderStep, t
<1> QED BY <1>1, <1>2

(* A due key update is one more packet of the current generation. *)
LEMMA SendUpdateStep ==
    ASSUME NEW s, SenderOK(s), NEW age \in Ages
    PROVE  /\ SenderOK(SendUpdate(s, age))
           /\ SendUpdate(s, age).epoch = s.epoch
           /\ SendUpdate(s, age).confirmed = s.confirmed
           /\ \A pkt \in SendUpdate(s, age).sent :
                  pkt \in s.sent \/ pkt.kind = "keyUpdate"
<1> DEFINE r == SendLocked(s, "keyUpdate", s.epoch)
           t == [r EXCEPT !.updateSent = ~r.failed]
<1>1. CASE ~s.confirmed /\ (~s.updateSent \/ age # "fresh")
  <2>0. s.epoch \in Epochs /\ "keyUpdate" \in Kinds
    BY DEF SenderOK, TxStates, Kinds
  <2>1. /\ SenderOK(r) /\ r.epoch = s.epoch /\ r.confirmed = s.confirmed
        /\ \A pkt \in r.sent : pkt \in s.sent \/ pkt.kind = "keyUpdate"
    BY <2>0, SendLockedStep DEF SenderStep
  <2> HIDE DEF r
  <2>2. t \in TxStates /\ t.sent = r.sent /\ t.epoch = r.epoch
        /\ t.counter = r.counter /\ t.confirmed = r.confirmed
    BY <2>1 DEF SenderOK, TxStates
  <2>3. SenderOK(t)
    BY <2>1, <2>2 DEF SenderOK, NoncesBelow, NoncesUnique
  <2>4. SendUpdate(s, age) = t
    BY <1>1 DEF SendUpdate, r
  <2> QED BY <2>1, <2>2, <2>3, <2>4
<1>2. CASE ~(~s.confirmed /\ (~s.updateSent \/ age # "fresh"))
  BY <1>2 DEF SendUpdate
<1> QED BY <1>1, <1>2

(* Key maintenance leaves a generation only when it is confirmed. *)
LEMMA PrepareKeysStep ==
    ASSUME NEW s, SenderOK(s), NEW age \in Ages, NEW e
    PROVE  SenderStep(s, PrepareKeys(s, age), e)
<1> DEFINE f == [s EXCEPT !.failed = TRUE]
           k == Rekey(s)
<1>0. s \in TxStates /\ s.epoch \in Epochs /\ s.confirmed \in BOOLEAN
      /\ s.sent \subseteq Packets /\ MaxKeyEpoch \in Nat /\ MaxCounter \in Nat
      /\ MaxCounter > 2
  BY KeyAssumption DEF SenderOK, TxStates
<1>1. SenderStep(s, s, e)
  BY DEF SenderStep
<1>2. SenderStep(s, f, e)
  <2>1. f \in TxStates /\ f.sent = s.sent /\ f.epoch = s.epoch
        /\ f.counter = s.counter /\ f.confirmed = s.confirmed
    BY <1>0 DEF TxStates
  <2> QED BY <2>1 DEF SenderOK, SenderStep, NoncesBelow, NoncesUnique
<1>3. SenderStep(s, SendUpdate(s, age), e)
  BY SendUpdateStep DEF SenderStep
<1>4. CASE RekeyDue(s, age) /\ s.epoch < MaxKeyEpoch
  <2>a. s.epoch + 1 \in Epochs /\ 0 \in 0 .. MaxCounter - 1
    BY <1>0, <1>4 DEF Epochs
  <2>b. k \in TxStates
    BY <1>0, <2>a DEF TxStates, Rekey
  <2>c. k.sent = s.sent /\ k.epoch = s.epoch + 1 /\ k.counter = 0
        /\ k.confirmed = FALSE
    BY <1>0 DEF TxStates, Rekey
  <2>1. k \in TxStates /\ k.sent = s.sent /\ k.epoch = s.epoch + 1
        /\ k.counter = 0 /\ k.confirmed = FALSE
    BY <2>b, <2>c
  <2>2. SenderOK(k)
    BY <1>0, <2>1 DEF SenderOK, NoncesBelow, NoncesUnique, Packets, Epochs
  <2> HIDE DEF k
  <2>3. /\ SenderOK(SendUpdate(k, age))
        /\ SendUpdate(k, age).epoch = k.epoch
        /\ SendUpdate(k, age).confirmed = k.confirmed
        /\ \A pkt \in SendUpdate(k, age).sent :
              pkt \in k.sent \/ pkt.kind = "keyUpdate"
    BY <2>2, SendUpdateStep
  <2>4. SenderStep(s, SendUpdate(k, age), e)
    BY <2>1, <2>3, <1>4 DEF SenderStep, RekeyDue
  <2> QED
    BY <2>4, <1>1, <1>2, <1>4, <1>0 DEF PrepareKeys, Epochs, k
<1>5. CASE ~(RekeyDue(s, age) /\ s.epoch < MaxKeyEpoch)
  BY <1>0, <1>1, <1>2, <1>3, <1>5 DEF PrepareKeys, Epochs
<1> QED BY <1>4, <1>5

(* Conn.send: maintenance, then the packet. *)
LEMMA SendStep ==
    ASSUME NEW s, SenderOK(s), NEW age \in Ages, NEW kind \in Kinds,
           NEW body \in Epochs
    PROVE  SenderStep(s, Send(s, age, kind, body), body)
<1> DEFINE m == PrepareKeys(s, age)
<1>1. SenderStep(s, m, body)
  BY PrepareKeysStep
<1> HIDE DEF m
<1>2. SenderOK(m)
  BY <1>1 DEF SenderStep
<1>3. /\ SenderStep(m, SendLocked(m, kind, body), body)
      /\ SendLocked(m, kind, body).epoch = m.epoch
      /\ SendLocked(m, kind, body).confirmed = m.confirmed
  BY <1>2, SendLockedStep
<1>4. Send(s, age, kind, body) = SendLocked(m, kind, body)
  BY DEF Send, m
<1> QED BY <1>1, <1>3, <1>4 DEF SenderStep

-----------------------------------------------------------------------------
(* The sender is at most one generation ahead of a receiver at epoch g.    *)
LinkOK(s, g) == s.epoch - g \in {0, 1} /\ (s.confirmed => g = s.epoch)

(* Every confirmation sent is of a generation the receiver had reached.    *)
AcksOK(s, g) == \A pkt \in s.sent : pkt.kind = "keyACK" => pkt.body <= g

(* Every datagram that was opened is covered by a replay window, or its    *)
(* generation is gone for good.                                            *)
Covered(r, acc) ==
    \A e \in Epochs, n \in Counters : <<e, n>> \in acc =>
        /\ e <= r.epoch
        /\ e = r.epoch => Seen(r.replay, n)
        /\ r.hasPrevious /\ e = r.epoch - 1 => Seen(r.previous, n)

LEMMA LinkStep ==
    ASSUME NEW s, SenderOK(s), NEW t, NEW e, SenderStep(s, t, e),
           NEW g \in Epochs, LinkOK(s, g)
    PROVE  LinkOK(t, g)
BY KeyAssumption DEF SenderStep, SenderOK, TxStates, LinkOK, Epochs

(* Whatever packet is handled, the sending state moves as by a send, or    *)
(* has its current generation rightly confirmed.                           *)
LEMMA HandleStep ==
    ASSUME NEW s, SenderOK(s), NEW g \in Epochs, LinkOK(s, g),
           NEW age \in Ages, NEW pkt \in Packets, NEW e \in Epochs,
           NEW advanced \in BOOLEAN,
           pkt.kind = "keyACK" => pkt.body <= g
    PROVE  LET t == Handle(s, age, pkt, e, advanced)
           IN  /\ SenderOK(t) /\ LinkOK(t, g)
               /\ \A q \in t.sent : q \in s.sent \/ q.kind # "keyACK" \/ q.body = e
<1> DEFINE Good(t) ==
             /\ SenderOK(t) /\ LinkOK(t, g)
             /\ \A q \in t.sent : q \in s.sent \/ q.kind # "keyACK" \/ q.body = e
           c(t) == Send(t, age, "keyACK", e)
           t1 == IF advanced THEN c(s) ELSE s
<1>1. ASSUME NEW t, Good(t) PROVE Good(c(t))
  <2>1. SenderStep(t, c(t), e)
    BY <1>1, SendStep DEF Kinds
  <2> HIDE DEF c
  <2>2. LinkOK(c(t), g)
    BY <1>1, <2>1, LinkStep
  <2> QED BY <1>1, <2>1, <2>2 DEF SenderStep
<1>2. Good(s)
  OBVIOUS
<1>3. Good(t1)
  BY <1>1, <1>2
<1>4. ASSUME NEW t, Good(t) PROVE Good([t EXCEPT !.failed = TRUE])
  <2> DEFINE f == [t EXCEPT !.failed = TRUE]
  <2>1. f \in TxStates /\ f.sent = t.sent /\ f.epoch = t.epoch
        /\ f.counter = t.counter /\ f.confirmed = t.confirmed
    BY <1>4 DEF SenderOK, TxStates
  <2> HIDE DEF f
  <2>2. SenderOK(f) /\ LinkOK(f, g)
    BY <1>4, <2>1 DEF SenderOK, NoncesBelow, NoncesUnique, LinkOK
  <2> QED BY <1>4, <2>1, <2>2 DEF f
<1>5. ASSUME NEW t, Good(t), pkt.kind = "keyACK"
      PROVE  Good([t EXCEPT !.confirmed = t.confirmed \/ pkt.body = t.epoch])
  <2> DEFINE f == [t EXCEPT !.confirmed = t.confirmed \/ pkt.body = t.epoch]
  <2>1. f \in TxStates
    BY <1>5 DEF SenderOK, TxStates
  <2>2. f.sent = t.sent /\ f.epoch = t.epoch /\ f.counter = t.counter
    BY <1>5 DEF SenderOK, TxStates
  <2>3. f.confirmed = (t.confirmed \/ pkt.body = t.epoch)
    BY <1>5 DEF SenderOK, TxStates
  <2> HIDE DEF f
  <2>4. SenderOK(f)
    BY <1>5, <2>1, <2>2 DEF SenderOK, NoncesBelow, NoncesUnique
  <2>5. t.epoch \in Nat /\ g \in Nat /\ pkt.body \in Nat /\ pkt.body <= g
    BY <1>5, KeyAssumption DEF SenderOK, TxStates, Packets, Epochs
  <2>6. f.confirmed => g = t.epoch
    <3>1. t.epoch >= g /\ (t.confirmed => g = t.epoch)
      BY <1>5, <2>5 DEF LinkOK
    <3>2. pkt.body = t.epoch => g = t.epoch
      BY <3>1, <2>5
    <3>3. f.confirmed => t.confirmed \/ pkt.body = t.epoch
      BY <2>3
    <3> QED BY <3>1, <3>2, <3>3
  <2>7. LinkOK(f, g)
    BY <1>5, <2>2, <2>6 DEF LinkOK
  <2> QED BY <1>5, <2>2, <2>4, <2>7 DEF f
<1> HIDE DEF Good, c
<1>6. Good(Handle(s, age, pkt, e, advanced))
  <2> DEFINE h == Handle(s, age, pkt, e, advanced)
  <2>0. pkt.kind \in Kinds
    BY DEF Packets
  <2>1. CASE pkt.kind = "keyUpdate" /\ pkt.body # e
    <3>1. h = [t1 EXCEPT !.failed = TRUE]
      BY <2>1 DEF Handle, c
    <3> QED BY <3>1, <1>3, <1>4
  <2>2. CASE pkt.kind = "keyUpdate" /\ pkt.body = e
    <3>1. h = IF advanced THEN t1 ELSE c(t1)
      BY <2>2 DEF Handle, c
    <3> QED BY <3>1, <1>3, <1>1
  <2>3. CASE pkt.kind = "keyACK"
    <3>1. h = [t1 EXCEPT !.confirmed = t1.confirmed \/ pkt.body = t1.epoch]
      BY <2>3 DEF Handle, c
    <3> QED BY <3>1, <2>3, <1>3, <1>5
  <2>4. CASE pkt.kind = "closing"
    <3>1. h = [t1 EXCEPT !.failed = TRUE]
      BY <2>4 DEF Handle, c
    <3> QED BY <3>1, <1>3, <1>4
  <2>5. CASE pkt.kind = "data"
    <3>1. h = t1
      BY <2>5 DEF Handle, c
    <3> QED BY <3>1, <1>3
  <2> QED BY <2>0, <2>1, <2>2, <2>3, <2>4, <2>5 DEF Kinds
<1> QED BY <1>6 DEF Good

-----------------------------------------------------------------------------
(* A fresh counter fits the window; the window then covers it, and still   *)
(* covers everything it covered before.                                    *)
LEMMA AddWindow ==
    ASSUME NEW w \in Windows, NEW n \in Counters, ~Seen(w, n)
    PROVE  /\ Add(w, n) \in Windows
           /\ Seen(Add(w, n), n)
           /\ \A m \in Counters : Seen(w, m) => Seen(Add(w, n), m)
<1>0. /\ w.highest \in 0 .. MaxCounter - 1 /\ w.bits \in SUBSET (0 .. Window - 1)
      /\ MaxCounter \in Nat /\ Window \in Nat /\ Window > 0
      /\ n \in 1 .. MaxCounter - 1
  BY KeyAssumption DEF Windows, Counters
<1>1. CASE n > w.highest
  <2> DEFINE b == Shift(w.bits, n - w.highest) \cup {0}
  <2>1. Add(w, n) = [highest |-> n, bits |-> b]
    BY <1>1 DEF Add
  <2>2. b \in SUBSET (0 .. Window - 1) /\ n \in 0 .. MaxCounter - 1
    BY <1>0 DEF Shift
  <2>3. Add(w, n) \in Windows
    BY <2>1, <2>2 DEF Windows
  <2>4. Seen(Add(w, n), n)
    BY <2>1, <1>0 DEF Seen
  <2>5. ASSUME NEW m \in Counters, Seen(w, m) PROVE Seen(Add(w, n), m)
    <3>1. m \in 1 .. MaxCounter - 1
      BY DEF Counters
    <3>2. m <= w.highest /\ (w.highest - m >= Window \/ w.highest - m \in w.bits)
      BY <2>5, <3>1, <1>0 DEF Seen
    <3>3. CASE n - m >= Window
      BY <3>1, <3>2, <3>3, <2>1, <1>0, <1>1 DEF Seen
    <3>4. CASE n - m < Window
      <4>1. w.highest - m \in w.bits
        BY <3>1, <3>2, <3>4, <1>0, <1>1
      <4>2. (n - m) - (n - w.highest) = w.highest - m /\ n - m \in 0 .. Window - 1
        BY <3>1, <3>2, <3>4, <1>0, <1>1
      <4>3. n - m \in b
        BY <4>1, <4>2 DEF Shift
      <4> QED BY <4>3, <3>1, <3>2, <2>1, <1>0, <1>1 DEF Seen
    <3> QED BY <3>3, <3>4, <3>1, <1>0
  <2> QED BY <2>3, <2>4, <2>5
<1>2. CASE ~(n > w.highest)
  <2> DEFINE b == w.bits \cup {w.highest - n}
  <2>1. w.highest - n \in 0 .. Window - 1
    BY <1>0, <1>2 DEF Seen
  <2>2. Add(w, n) = [w EXCEPT !.bits = b]
    BY <1>2 DEF Add
  <2>3. Add(w, n) \in Windows
    BY <2>1, <2>2, <1>0 DEF Windows
  <2>4. Add(w, n).highest = w.highest /\ Add(w, n).bits = b
    BY <2>2 DEF Windows
  <2>5. Seen(Add(w, n), n)
    BY <2>4, <1>0, <1>2 DEF Seen
  <2>6. \A m \in Counters : Seen(w, m) => Seen(Add(w, n), m)
    BY <2>4 DEF Seen
  <2> QED BY <2>3, <2>5, <2>6
<1> QED BY <1>1, <1>2

(* Opening a packet advances the receiver by at most one generation, never *)
(* past the packet's own, and keeps the replay windows complete.           *)
LEMMA OpenedStep ==
    ASSUME NEW r \in RxStates, NEW acc, Covered(r, acc), NEW pkt \in Packets,
           NEW e, e = OpensAs(r, pkt), e # -1
    PROVE  /\ e = pkt.epoch /\ e \in Epochs
           /\ Opened(r, pkt, e) \in RxStates
           /\ \/ Opened(r, pkt, e).epoch = r.epoch /\ e <= r.epoch
              \/ Opened(r, pkt, e).epoch = r.epoch + 1 /\ e = r.epoch + 1
           /\ Covered(Opened(r, pkt, e), acc \cup {<<e, pkt.n>>})
<1> DEFINE q == Opened(r, pkt, e)
<1>0. /\ pkt.n \in Counters /\ pkt.epoch \in Epochs /\ r.epoch \in Epochs
      /\ r.replay \in Windows /\ r.previous \in Windows
      /\ MaxKeyEpoch \in Nat /\ MaxCounter \in Nat /\ MaxCounter > 2
  BY KeyAssumption DEF Packets, RxStates
<1>1. /\ e = pkt.epoch
      /\ \/ e = r.epoch /\ ~Seen(r.replay, pkt.n)
         \/ e = r.epoch - 1 /\ r.hasPrevious /\ ~Seen(r.previous, pkt.n)
         \/ e = r.epoch + 1 /\ r.epoch < MaxKeyEpoch
  BY <1>0 DEF OpensAs, Epochs
<1>2. CASE e = r.epoch
  <2>1. q = [r EXCEPT !.replay = Add(r.replay, pkt.n)]
    BY <1>2 DEF Opened
  <2>2. ~Seen(r.replay, pkt.n)
    BY <1>1, <1>2, <1>0 DEF Epochs
  <2>3. q \in RxStates /\ q.epoch = r.epoch /\ q.replay = Add(r.replay, pkt.n)
        /\ q.hasPrevious = r.hasPrevious /\ q.previous = r.previous
    BY <2>1, <2>2, <1>0, AddWindow DEF RxStates
  <2> HIDE DEF q
  <2>4. Covered(q, acc \cup {<<e, pkt.n>>})
    <3> SUFFICES ASSUME NEW d \in Epochs, NEW n \in Counters,
                        <<d, n>> \in acc \cup {<<e, pkt.n>>}
                 PROVE  /\ d <= q.epoch
                        /\ d = q.epoch => Seen(q.replay, n)
                        /\ q.hasPrevious /\ d = q.epoch - 1 => Seen(q.previous, n)
      BY DEF Covered
    <3>1. CASE <<d, n>> \in acc
      BY <3>1, <2>2, <2>3, <1>0, AddWindow DEF Covered
    <3>2. CASE d = e /\ n = pkt.n
      BY <3>2, <2>2, <2>3, <1>0, <1>2, AddWindow DEF Epochs
    <3> QED BY <3>1, <3>2
  <2> QED BY <1>0, <1>1, <1>2, <2>3, <2>4 DEF q, Epochs
<1>3. CASE e = r.epoch - 1
  <2>1. q = [r EXCEPT !.previous = Add(r.previous, pkt.n)]
    BY <1>3, <1>0 DEF Opened, Epochs
  <2>2. r.hasPrevious /\ ~Seen(r.previous, pkt.n)
    BY <1>1, <1>3, <1>0 DEF Epochs
  <2>a. Add(r.previous, pkt.n) \in Windows
    BY <2>2, <1>0, AddWindow
  <2>b. q \in RxStates
    BY <2>1, <2>a DEF RxStates
  <2>c. q.epoch = r.epoch /\ q.replay = r.replay
        /\ q.hasPrevious = r.hasPrevious /\ q.previous = Add(r.previous, pkt.n)
    BY <2>1 DEF RxStates
  <2>3. q \in RxStates /\ q.epoch = r.epoch /\ q.replay = r.replay
        /\ q.hasPrevious = r.hasPrevious /\ q.previous = Add(r.previous, pkt.n)
    BY <2>b, <2>c
  <2> HIDE DEF q
  <2>4. Covered(q, acc \cup {<<e, pkt.n>>})
    <3> SUFFICES ASSUME NEW d \in Epochs, NEW n \in Counters,
                        <<d, n>> \in acc \cup {<<e, pkt.n>>}
                 PROVE  /\ d <= q.epoch
                        /\ d = q.epoch => Seen(q.replay, n)
                        /\ q.hasPrevious /\ d = q.epoch - 1 => Seen(q.previous, n)
      BY DEF Covered
    <3>1. CASE <<d, n>> \in acc
      BY <3>1, <2>2, <2>3, <1>0, AddWindow DEF Covered
    <3>2. CASE d = e /\ n = pkt.n
      BY <3>2, <2>2, <2>3, <1>0, <1>3, AddWindow DEF Epochs
    <3> QED BY <3>1, <3>2
  <2> QED BY <1>0, <1>1, <1>3, <2>3, <2>4 DEF q, Epochs
<1>4. CASE e = r.epoch + 1
  <2>1. q = [epoch |-> r.epoch + 1, replay |-> Add(EmptyWindow, pkt.n),
             hasPrevious |-> TRUE, previous |-> r.replay]
    BY <1>4, <1>0 DEF Opened, Epochs
  <2>2. r.epoch < MaxKeyEpoch /\ r.epoch + 1 \in Epochs
    BY <1>1, <1>4, <1>0 DEF Epochs
  <2>3. EmptyWindow \in Windows /\ ~Seen(EmptyWindow, pkt.n)
    BY <1>0 DEF EmptyWindow, Windows, Seen, Counters
  <2>4. Add(EmptyWindow, pkt.n) \in Windows /\ Seen(Add(EmptyWindow, pkt.n), pkt.n)
    BY <2>3, <1>0, AddWindow
  <2>5. q \in RxStates
    BY <2>1, <2>2, <2>4, <1>0 DEF RxStates
  <2>6. q.epoch = r.epoch + 1 /\ q.replay = Add(EmptyWindow, pkt.n)
        /\ q.hasPrevious = TRUE /\ q.previous = r.replay
    BY <2>1
  <2> HIDE DEF q
  <2>7. Covered(q, acc \cup {<<e, pkt.n>>})
    <3> SUFFICES ASSUME NEW d \in Epochs, NEW n \in Counters,
                        <<d, n>> \in acc \cup {<<e, pkt.n>>}
                 PROVE  /\ d <= q.epoch
                        /\ d = q.epoch => Seen(q.replay, n)
                        /\ q.hasPrevious /\ d = q.epoch - 1 => Seen(q.previous, n)
      BY DEF Covered
    <3>1. CASE <<d, n>> \in acc
      BY <3>1, <2>6, <1>0 DEF Covered, Epochs
    <3>2. CASE d = e /\ n = pkt.n
      BY <3>2, <2>4, <2>6, <1>0, <1>4 DEF Epochs
    <3> QED BY <3>1, <3>2
  <2> QED BY <1>0, <1>1, <1>4, <2>2, <2>5, <2>6, <2>7 DEF q, Epochs
<1> QED BY <1>1, <1>2, <1>3, <1>4

-----------------------------------------------------------------------------
(* The inductive invariant: each sender, each receiver, and for each       *)
(* direction the link between them.                                        *)
PeerOK(p) ==
    /\ SenderOK(tx[p])
    /\ rx[p] \in RxStates
    /\ accepted[p] \in SUBSET (Epochs \X Counters)
    /\ Covered(rx[p], accepted[p])
    /\ AcksOK(tx[p], rx[p].epoch)
    /\ LinkOK(tx[p], rx[Other(p)].epoch)

Shape ==
    /\ tx = [p \in Peers |-> tx[p]]
    /\ rx = [p \in Peers |-> rx[p]]
    /\ accepted = [p \in Peers |-> accepted[p]]

IInv == Shape /\ \A p \in Peers : PeerOK(p)

(* A step of peer p that only sends keeps the invariant. *)
LEMMA SendingStep ==
    ASSUME IInv, NEW p \in Peers, NEW t, NEW e \in Epochs, e <= rx[p].epoch,
           SenderStep(tx[p], t, e),
           tx' = [tx EXCEPT ![p] = t], UNCHANGED <<rx, accepted>>
    PROVE  IInv'
<1>1. Shape'
  BY DEF IInv, Shape
<1>2. tx'[p] = t /\ \A o \in Peers \ {p} : tx'[o] = tx[o]
  BY DEF IInv, Shape
<1>3. ASSUME NEW o \in Peers PROVE PeerOK(o)'
  <2>0. PeerOK(o) /\ Other(o) \in Peers /\ PeerOK(Other(o))
    BY DEF IInv, Peers, Other
  <2>1. CASE o # p
    BY <2>0, <2>1, <1>2 DEF PeerOK
  <2>2. CASE o = p
    <3>1. LinkOK(t, rx[Other(p)].epoch)
      BY <2>0, <2>2, LinkStep DEF PeerOK, RxStates
    <3>2. AcksOK(t, rx[p].epoch)
      BY <2>0, <2>2 DEF PeerOK, AcksOK, SenderStep
    <3> QED BY <2>0, <2>2, <1>2, <3>1, <3>2 DEF PeerOK, SenderStep
  <2> QED BY <2>1, <2>2
<1> QED BY <1>1, <1>3 DEF IInv

(* Peer p receives a packet. *)
LEMMA ReceiveStep ==
    ASSUME IInv, NEW p \in Peers, NEW pkt \in tx[Other(p)].sent,
           NEW age \in Ages, NEW graceOver \in BOOLEAN,
           Receive(p, pkt, age, graceOver)
    PROVE  IInv'
<1> DEFINE o == Other(p)
           r == ExpirePrevious(rx[p], graceOver)
           e == OpensAs(r, pkt)
<1>0. /\ o \in Peers /\ o # p /\ Other(o) = p /\ PeerOK(p) /\ PeerOK(o)
      /\ \A x \in Peers : x = p \/ x = o
  BY DEF IInv, Peers, Other
<1>1. pkt \in Packets
  BY <1>0 DEF PeerOK, SenderOK, TxStates
<1>2. r \in RxStates /\ r.epoch = rx[p].epoch /\ Covered(r, accepted[p])
  <2>1. rx[p] \in RxStates /\ Covered(rx[p], accepted[p])
    BY <1>0 DEF PeerOK
  <2>2. CASE graceOver
    <3>1. r = [rx[p] EXCEPT !.hasPrevious = FALSE, !.previous = EmptyWindow]
      BY <2>2 DEF ExpirePrevious
    <3>2. EmptyWindow \in Windows
      BY KeyAssumption DEF EmptyWindow, Windows
    <3>3. r \in RxStates
      BY <3>1, <3>2, <2>1 DEF RxStates
    <3>4. r.epoch = rx[p].epoch /\ r.replay = rx[p].replay /\ r.hasPrevious = FALSE
      BY <3>1, <2>1 DEF RxStates
    <3> HIDE DEF r
    <3> QED BY <3>3, <3>4, <2>1 DEF Covered
  <2>3. CASE ~graceOver
    BY <2>1, <2>3 DEF ExpirePrevious
  <2> QED BY <2>2, <2>3
<1>3. Shape'
  BY DEF Receive, IInv, Shape
<1> HIDE DEF r
<1>4. CASE e = -1
  <2>1. tx' = tx /\ accepted' = accepted /\ rx' = [rx EXCEPT ![p] = r]
    BY <1>4 DEF Receive, r
  <2>2. rx'[p] = r /\ rx'[o] = rx[o]
    BY <2>1, <1>0 DEF IInv, Shape
  <2>3. PeerOK(p)' /\ PeerOK(o)'
    BY <2>1, <2>2, <1>0, <1>2 DEF PeerOK
  <2> QED BY <2>3, <1>0, <1>3 DEF IInv
<1>5. CASE e # -1
  <2> DEFINE q == Opened(r, pkt, e)
             t == Handle(tx[p], age, pkt, e, e = r.epoch + 1)
             acc == accepted[p] \cup {<<e, pkt.n>>}
  <2>1. /\ rx' = [rx EXCEPT ![p] = q] /\ tx' = [tx EXCEPT ![p] = t]
        /\ accepted' = [accepted EXCEPT ![p] = acc]
    BY <1>5 DEF Receive, r
  <2>2. /\ e = pkt.epoch /\ e \in Epochs /\ q \in RxStates
        /\ \/ q.epoch = r.epoch /\ e <= r.epoch
           \/ q.epoch = r.epoch + 1 /\ e = r.epoch + 1
        /\ Covered(q, acc)
    BY <1>1, <1>2, <1>5, OpenedStep
  <2> HIDE DEF e, q
  <2>3. pkt.kind = "keyACK" => pkt.body <= rx[o].epoch
    BY <1>0 DEF PeerOK, AcksOK
  <2>4. /\ SenderOK(t) /\ LinkOK(t, rx[o].epoch)
        /\ \A x \in t.sent : x \in tx[p].sent \/ x.kind # "keyACK" \/ x.body = e
    <3>1. SenderOK(tx[p]) /\ LinkOK(tx[p], rx[o].epoch) /\ rx[o].epoch \in Epochs
      BY <1>0 DEF PeerOK, RxStates
    <3> DEFINE advanced == e = r.epoch + 1
    <3>2. advanced \in BOOLEAN
      OBVIOUS
    <3> HIDE DEF advanced
    <3>3. LET h == Handle(tx[p], age, pkt, e, advanced)
          IN  /\ SenderOK(h) /\ LinkOK(h, rx[o].epoch)
              /\ \A x \in h.sent : x \in tx[p].sent \/ x.kind # "keyACK" \/ x.body = e
      BY <3>1, <3>2, <1>1, <2>2, <2>3, HandleStep
    <3> QED BY <3>3 DEF advanced
  <2> HIDE DEF t
  <2>5. /\ rx'[p] = q /\ rx'[o] = rx[o] /\ tx'[p] = t /\ tx'[o] = tx[o]
        /\ accepted'[p] = acc /\ accepted'[o] = accepted[o]
    BY <2>1, <1>0 DEF IInv, Shape
  <2>6. /\ r.epoch \in Nat /\ q.epoch \in Nat /\ tx[o].epoch \in Nat /\ e \in Nat
        /\ q.epoch >= r.epoch /\ e <= q.epoch
    BY <1>0, <1>2, <2>2, KeyAssumption DEF PeerOK, SenderOK, TxStates, RxStates, Epochs
  <2>7. AcksOK(t, q.epoch)
    <3> SUFFICES ASSUME NEW x \in t.sent, x.kind = "keyACK"
                 PROVE  x.body <= q.epoch
      BY DEF AcksOK
    <3>1. x.body \in Nat
      BY <2>4, KeyAssumption DEF SenderOK, TxStates, Packets, Epochs
    <3>2. CASE x \in tx[p].sent
      <4>1. x.body <= r.epoch
        BY <3>2, <1>0, <1>2 DEF PeerOK, AcksOK
      <4> QED BY <4>1, <3>1, <2>6
    <3>3. CASE x.body = e
      BY <3>3, <2>6
    <3> QED BY <3>2, <3>3, <2>4
  <2>8. LinkOK(tx[o], q.epoch)
    <3>1. LinkOK(tx[o], r.epoch)
      BY <1>0, <1>2 DEF PeerOK
    <3>2. pkt.epoch <= tx[o].epoch
      BY <1>0, <2>2, <2>6 DEF PeerOK, SenderOK, NoncesBelow
    <3>3. CASE q.epoch = r.epoch
      BY <3>1, <3>3
    <3>4. CASE q.epoch = r.epoch + 1 /\ e = r.epoch + 1
      <4>1. tx[o].epoch = q.epoch
        BY <3>1, <3>2, <3>4, <2>2, <2>6 DEF LinkOK
      <4> QED BY <4>1, <2>6 DEF LinkOK
    <3> QED BY <3>3, <3>4, <2>2
  <2>9. acc \in SUBSET (Epochs \X Counters)
    BY <1>0, <1>1, <2>2 DEF PeerOK, Packets
  <2>10. PeerOK(p)'
    BY <2>2, <2>4, <2>5, <2>7, <2>9, <1>0 DEF PeerOK
  <2>11. PeerOK(o)'
    BY <2>5, <2>8, <1>0 DEF PeerOK
  <2> QED BY <2>10, <2>11, <1>0, <1>3 DEF IInv
<1> QED BY <1>4, <1>5

LEMMA InitIInv == KeyInit => IInv
<1> SUFFICES ASSUME KeyInit PROVE IInv
  OBVIOUS
<1>0. /\ 0 \in Epochs /\ 0 \in 0 .. MaxCounter - 1 /\ EmptyWindow \in Windows
  BY KeyAssumption DEF Epochs, EmptyWindow, Windows
<1>1. Shape
  BY DEF KeyInit, Shape
<1>2. ASSUME NEW p \in Peers PROVE PeerOK(p)
  <2>0. Other(p) \in Peers
    BY DEF Peers, Other
  <2>1. /\ tx[p] \in TxStates /\ tx[p].sent = {} /\ tx[p].epoch = 0
        /\ rx[p] \in RxStates /\ rx[p].epoch = 0 /\ rx[Other(p)].epoch = 0
        /\ accepted[p] = {}
    BY <1>0, <2>0 DEF KeyInit, TxStates, RxStates
  <2> QED
    BY <2>1 DEF PeerOK, SenderOK, NoncesBelow, NoncesUnique, Covered, AcksOK, LinkOK
<1> QED BY <1>1, <1>2 DEF IInv

(* One step of any peer keeps the invariant. *)
LEMMA NextIInv == IInv /\ [KeyNext]_keyVars => IInv'
<1> SUFFICES ASSUME IInv, [KeyNext]_keyVars PROVE IInv'
  OBVIOUS
<1>1. CASE UNCHANGED keyVars
  BY <1>1 DEF IInv, Shape, PeerOK, keyVars
<1>2. CASE KeyNext
  <2>0. PICK p \in Peers :
           \/ Break(p)
           \/ \E age \in Ages :
                 \/ SendData(p, age)
                 \/ RefreshKeys(p, age)
                 \/ Close(p, age)
                 \/ \E pkt \in tx[Other(p)].sent, graceOver \in BOOLEAN :
                       Receive(p, pkt, age, graceOver)
    BY <1>2 DEF KeyNext
  <2>1. /\ SenderOK(tx[p]) /\ 0 \in Epochs /\ 0 <= rx[p].epoch
        /\ "data" \in Kinds /\ "closing" \in Kinds
    BY KeyAssumption DEF IInv, PeerOK, RxStates, Epochs, Kinds
  <2>2. ASSUME NEW t, SenderStep(tx[p], t, 0)
        PROVE  SenderStep(tx[p], [t EXCEPT !.failed = TRUE], 0)
    <3> DEFINE f == [t EXCEPT !.failed = TRUE]
    <3>1. f \in TxStates /\ f.sent = t.sent /\ f.epoch = t.epoch
          /\ f.counter = t.counter /\ f.confirmed = t.confirmed
      BY <2>2 DEF SenderStep, SenderOK, TxStates
    <3> HIDE DEF f
    <3>2. SenderStep(tx[p], f, 0)
      BY <2>2, <3>1 DEF SenderStep, SenderOK, NoncesBelow, NoncesUnique
    <3> QED BY <3>2 DEF f
  <2>3. CASE Break(p)
    <3>1. tx' = [tx EXCEPT ![p] = [tx[p] EXCEPT !.failed = TRUE]]
      BY <2>3 DEF Break
    <3>2. SenderStep(tx[p], [tx[p] EXCEPT !.failed = TRUE], 0)
      BY <2>1, <2>2 DEF SenderStep
    <3> QED BY <2>1, <2>3, <3>1, <3>2, SendingStep DEF Break
  <2>4. ASSUME NEW age \in Ages, SendData(p, age) PROVE IInv'
    <3>1. SenderStep(tx[p], Send(tx[p], age, "data", 0), 0)
      BY <2>1, SendStep
    <3> QED BY <2>1, <2>4, <3>1, SendingStep DEF SendData
  <2>5. ASSUME NEW age \in Ages, RefreshKeys(p, age) PROVE IInv'
    <3>1. SenderStep(tx[p], PrepareKeys(tx[p], age), 0)
      BY <2>1, PrepareKeysStep
    <3> QED BY <2>1, <2>5, <3>1, SendingStep DEF RefreshKeys
  <2>6. ASSUME NEW age \in Ages, Close(p, age) PROVE IInv'
    <3>1. SenderStep(tx[p], Send(tx[p], age, "closing", 0), 0)
      BY <2>1, SendStep
    <3>2. SenderStep(tx[p], [Send(tx[p], age, "closing", 0) EXCEPT !.failed = TRUE], 0)
      BY <3>1, <2>2
    <3> QED BY <2>1, <2>6, <3>2, SendingStep DEF Close
  <2>7. ASSUME NEW age \in Ages, NEW pkt \in tx[Other(p)].sent,
               NEW graceOver \in BOOLEAN, Receive(p, pkt, age, graceOver)
        PROVE  IInv'
    BY <2>7, ReceiveStep
  <2> QED BY <2>0, <2>3, <2>4, <2>5, <2>6, <2>7
<1> QED BY <1>1, <1>2

(* The inductive invariant holds of every reachable state. *)
THEOREM SpecIInv == KeySpec => []IInv
<1>1. KeyInit => IInv
  BY InitIInv
<1>2. IInv /\ [KeyNext]_keyVars => IInv'
  BY NextIInv
<1> QED BY <1>1, <1>2, PTL DEF KeySpec

-----------------------------------------------------------------------------
(* Every field of both ends keeps its range, in particular the counter its *)
(* 24 bits and the replay bitmap its width (sendLocked, replayWindow.add). *)
THEOREM KeysTypeCorrect == KeySpec => []KeyTypeOK
<1>1. IInv => KeyTypeOK
  BY DEF IInv, Shape, PeerOK, SenderOK, KeyTypeOK
<1> QED BY <1>1, SpecIInv, PTL

(* sendLocked never uses one AEAD nonce for two packets. *)
THEOREM NoncesNeverReused == KeySpec => []NonceUnique
<1>1. IInv => NonceUnique
  BY DEF IInv, PeerOK, SenderOK, NoncesUnique, NonceUnique
<1> QED BY <1>1, SpecIInv, PTL

(* A sender runs at most one generation ahead of its receiver, and only    *)
(* believes a generation confirmed that the receiver has reached           *)
(* (prepareKeysLocked, confirmKey, decryptPacket).                         *)
THEOREM KeysInLockstep == KeySpec => []EpochLockstep
<1>1. IInv => EpochLockstep
  BY DEF IInv, PeerOK, LinkOK, EpochLockstep
<1> QED BY <1>1, SpecIInv, PTL

(* The receiver always holds the key of the sender's current generation,   *)
(* and neither the shared phase bit nor the retired window keeps a packet  *)
(* of it from being opened (decryptPacket).                                *)
THEOREM CurrentKeyAlwaysOpens == KeySpec => []CurrentKeyOpens
<1>1. IInv => CurrentKeyOpens
  <2> SUFFICES ASSUME IInv, NEW p \in Peers, NEW pkt \in tx[p].sent,
                      pkt.epoch = tx[p].epoch,
                      ~(/\ rx[Other(p)].epoch = pkt.epoch
                        /\ Seen(rx[Other(p)].replay, pkt.n))
               PROVE  OpensAs(rx[Other(p)], pkt) = pkt.epoch
    BY DEF CurrentKeyOpens
  <2> DEFINE g == rx[Other(p)].epoch
  <2>1. PeerOK(p) /\ PeerOK(Other(p))
    BY DEF IInv, Peers, Other
  <2>2. pkt \in Packets /\ pkt.epoch \in Epochs /\ g \in Epochs
        /\ MaxKeyEpoch \in Nat
    BY <2>1, KeyAssumption DEF PeerOK, SenderOK, TxStates, RxStates, Packets
  <2>3. pkt.epoch = g \/ pkt.epoch = g + 1
    BY <2>1, <2>2 DEF PeerOK, LinkOK, Epochs
  <2>4. CASE pkt.epoch = g
    BY <2>2, <2>4 DEF OpensAs
  <2>5. CASE pkt.epoch = g + 1
    <3>1. (g + 1) % 2 # g % 2
      BY <2>2 DEF Epochs
    <3>2. g < MaxKeyEpoch /\ g + 1 # g - 1
      BY <2>2, <2>5 DEF Epochs
    <3> QED BY <3>1, <3>2, <2>5 DEF OpensAs
  <2> QED BY <2>3, <2>4, <2>5
<1> QED BY <1>1, SpecIInv, PTL

(* No datagram is opened twice (replayWindow, decryptPacket). *)
THEOREM NeverReplayed == KeySpec => []NoReplay
<1>1. IInv => NoReplay
  <2> SUFFICES ASSUME IInv, NEW p \in Peers, NEW pkt \in tx[Other(p)].sent,
                      <<pkt.epoch, pkt.n>> \in accepted[p],
                      NEW graceOver \in BOOLEAN
               PROVE  OpensAs(ExpirePrevious(rx[p], graceOver), pkt) = -1
    BY DEF NoReplay
  <2> DEFINE r == ExpirePrevious(rx[p], graceOver)
  <2>1. PeerOK(p) /\ PeerOK(Other(p))
    BY DEF IInv, Peers, Other
  <2>2. pkt.epoch \in Epochs /\ pkt.n \in Counters /\ rx[p] \in RxStates
        /\ rx[p].epoch \in Nat /\ pkt.epoch \in Nat
    BY <2>1, KeyAssumption DEF PeerOK, SenderOK, TxStates, RxStates, Packets, Epochs
  <2>3. /\ pkt.epoch <= rx[p].epoch
        /\ pkt.epoch = rx[p].epoch => Seen(rx[p].replay, pkt.n)
        /\ rx[p].hasPrevious /\ pkt.epoch = rx[p].epoch - 1 =>
              Seen(rx[p].previous, pkt.n)
    BY <2>1, <2>2 DEF PeerOK, Covered
  <2>4. /\ r.epoch = rx[p].epoch /\ r.replay = rx[p].replay
        /\ r.hasPrevious => rx[p].hasPrevious /\ r.previous = rx[p].previous
    BY <2>2 DEF ExpirePrevious, RxStates
  <2> HIDE DEF r
  <2>5. OpensAs(r, pkt) = -1
    BY <2>2, <2>3, <2>4 DEF OpensAs
  <2> QED BY <2>5 DEF r
<1> QED BY <1>1, SpecIInv, PTL

-----------------------------------------------------------------------------
(* The control stream.                                                     *)

LEMMA AppendFacts ==
    ASSUME NEW S, NEW s \in Seq(S), NEW x \in S
    PROVE  /\ Append(s, x) \in Seq(S)
           /\ Len(s) \in Nat /\ Len(Append(s, x)) = Len(s) + 1
           /\ \A i \in 1 .. Len(s) : Append(s, x)[i] = s[i]
           /\ Append(s, x)[Len(s) + 1] = x
OBVIOUS

LEMMA TailFacts ==
    ASSUME NEW S, NEW s \in Seq(S), s # <<>>
    PROVE  /\ Tail(s) \in Seq(S) /\ Head(s) \in S /\ Head(s) = s[1]
           /\ Len(s) \in Nat /\ Len(s) >= 1 /\ Len(Tail(s)) = Len(s) - 1
           /\ \A i \in 1 .. Len(s) - 1 : Tail(s)[i] = s[i + 1]
OBVIOUS

(* A writer past the gate holds it, alone, with something left to send.    *)
GateInv ==
    \A w \in Writers :
        /\ pc[w] \in {"chunk", "await"} => gate = {w} /\ rest[w] # <<>>
        /\ pc[w] \notin {"chunk", "await"} => w \notin gate
        /\ pc[w] = "gate" => rest[w] # <<>>

(* At most the last chunk sent is unacknowledged, and only while its       *)
(* writer waits or after the session has failed.                           *)
SeqInv ==
    /\ Len(stream) <= MaxSeq
    /\ ~sFailed => writeSeq = Len(stream)
    /\ \A w \in Writers : pc[w] = "await" =>
          /\ Len(stream) = acked + 1 /\ writeSeq = Len(stream)
          /\ Head(rest[w]) = stream[Len(stream)]
    /\ ~sFailed /\ (\A w \in Writers : pc[w] # "await") => acked = Len(stream)
    /\ torn => sFailed

(* What is in flight or queued comes from the stream, in its place.        *)
WireInv ==
    /\ Retained <= Len(stream)
    /\ expected = IF Retained = MaxSeq THEN 0 ELSE Retained + 1
    /\ \A c \in wire : c.seq <= Len(stream) /\ c.data = stream[c.seq]
    /\ \A i \in 1 .. Len(recv) : recv[i] = stream[Len(delivered) + i]

(* An ACK anywhere is of a retained chunk.                                 *)
AckInv ==
    /\ acked <= Retained
    /\ \A a \in ackWire : a.seq <= Retained
    /\ \A i \in 1 .. Len(acks) : acks[i] <= Retained

Inv == TypeOK /\ GateInv /\ SeqInv /\ WireInv /\ AckInv

LEMMA InitInv == Init => Inv
<1> SUFFICES ASSUME Init PROVE Inv
  OBVIOUS
<1> USE ControlAssumption DEF Init
<1>1. TypeOK
  <2>1. <<>> \in Seq(Data) /\ <<>> \in Seq(1 .. MaxSeq) /\ Len(<<>>) = 0
    OBVIOUS
  <2>2. pc \in [Writers -> {"idle", "gate", "chunk", "await"}]
        /\ rest \in [Writers -> Seq(Data)]
    BY <2>1
  <2>3. 0 \in 0 .. MaxSeq /\ 1 \in 0 .. MaxSeq /\ 0 <= AckCap /\ 0 <= RecvCap
    OBVIOUS
  <2>4. Len(acks) <= AckCap /\ Len(recv) <= RecvCap
    BY <2>1, <2>3
  <2> QED BY <2>1, <2>2, <2>3, <2>4 DEF TypeOK
<1>2. GateInv
  BY DEF GateInv
<1>3. SeqInv
  BY DEF SeqInv
<1>4. Retained = 0
  BY DEF Retained
<1>5. WireInv
  BY <1>4 DEF WireInv
<1>6. AckInv
  BY <1>4 DEF AckInv
<1> QED BY <1>1, <1>2, <1>3, <1>5, <1>6 DEF Inv

(* A step that only moves a writer between idle and the gate. *)
LEMMA GateStep ==
    ASSUME Inv, NEW w \in Writers,
           (\E msg \in Messages : Begin(w, msg)) \/ Acquire(w) \/ LeaveGate(w)
    PROVE  Inv'
<1> USE ControlAssumption DEF Inv, receiver
<1>1. ASSUME NEW msg \in Messages, Begin(w, msg) PROVE Inv'
  <2> USE <1>1 DEF Begin
  <2>0. msg \in Seq(Data) /\ msg # <<>>
    OBVIOUS
  <2>1. TypeOK'
    BY <2>0 DEF TypeOK
  <2>2. GateInv'
    BY <2>0 DEF GateInv, TypeOK
  <2>3. SeqInv'
    BY DEF SeqInv, TypeOK
  <2>4. WireInv' /\ AckInv'
    BY DEF WireInv, AckInv, Retained
  <2> QED BY <2>1, <2>2, <2>3, <2>4
<1>2. ASSUME Acquire(w) PROVE Inv'
  <2> USE <1>2 DEF Acquire
  <2>1. TypeOK'
    BY DEF TypeOK
  <2>2. GateInv'
    BY DEF GateInv, TypeOK
  <2>3. SeqInv'
    BY DEF SeqInv, TypeOK
  <2>4. WireInv' /\ AckInv'
    BY DEF WireInv, AckInv, Retained
  <2> QED BY <2>1, <2>2, <2>3, <2>4
<1>3. ASSUME LeaveGate(w) PROVE Inv'
  <2> USE <1>3 DEF LeaveGate
  <2>1. TypeOK'
    BY DEF TypeOK
  <2>2. GateInv'
    BY DEF GateInv, TypeOK
  <2>3. SeqInv'
    BY DEF SeqInv, TypeOK
  <2>4. WireInv' /\ AckInv'
    BY DEF WireInv, AckInv, Retained
  <2> QED BY <2>1, <2>2, <2>3, <2>4
<1> QED BY <1>1, <1>2, <1>3

(* The next chunk gets its number and goes out: nobody else is waiting for *)
(* an ACK, so everything before it is acknowledged.                        *)
LEMMA StartChunkStep ==
    ASSUME Inv, NEW w \in Writers, StartChunk(w)
    PROVE  Inv' /\ acked = Len(stream) /\ Head(rest[w]) \in Data
<1> USE ControlAssumption DEF Inv, receiver
<1> DEFINE d == Head(rest[w])
<1>0. /\ pc[w] = "chunk" /\ gate = {w} /\ rest[w] \in Seq(Data) /\ rest[w] # <<>>
      /\ \A v \in Writers : v # w => pc[v] \notin {"chunk", "await"}
  BY DEF StartChunk, GateInv, TypeOK
<1>1. d \in Data
  BY <1>0, TailFacts
<1>2. acked = Len(stream) /\ writeSeq = Len(stream) /\ stream \in Seq(Data)
      /\ Len(stream) \in Nat
  <2>1. \A v \in Writers : pc[v] # "await"
    BY <1>0
  <2> QED BY <2>1 DEF SeqInv, StartChunk, TypeOK
<1>3. PICK k \in Copies :
        wire' = wire \cup {[seq |-> writeSeq + 1, data |-> d, copy |-> k]}
  BY DEF StartChunk, SendChunk
<1> DEFINE c == [seq |-> writeSeq + 1, data |-> d, copy |-> k]
<1>4. /\ stream' = Append(stream, d) /\ writeSeq' = writeSeq + 1
      /\ pc' = [pc EXCEPT ![w] = "await"] /\ writeSeq + 1 \in 1 .. MaxSeq
      /\ ~sFailed
      /\ UNCHANGED <<rest, gate, acks, sFailed, acked, torn, begun, expected, recv,
                     rFailed, delivered, ackWire>>
  BY <1>2 DEF StartChunk, TypeOK
<1>5. c \in Chunks /\ c.seq = writeSeq + 1 /\ c.data = d
  BY <1>1, <1>4 DEF Chunks
<1> HIDE DEF c
<1>6. /\ stream' \in Seq(Data) /\ Len(stream') = Len(stream) + 1
      /\ \A i \in 1 .. Len(stream) : stream'[i] = stream[i]
      /\ stream'[Len(stream) + 1] = d
  BY <1>1, <1>2, <1>4, AppendFacts
<1> HIDE DEF d
<1>7. TypeOK'
  BY <1>3, <1>4, <1>5, <1>6 DEF TypeOK, c
<1>8. GateInv'
  BY <1>0, <1>4 DEF GateInv, TypeOK
<1>9. SeqInv'
  BY <1>0, <1>2, <1>4, <1>6 DEF SeqInv, TypeOK, d
<1>10. Retained' = Retained /\ Retained \in Nat /\ Retained <= Len(stream)
  BY <1>4 DEF Retained, WireInv, TypeOK
<1>11. WireInv'
  <2>1. \A x \in wire' : x.seq <= Len(stream') /\ x.data = stream'[x.seq]
    <3> SUFFICES ASSUME NEW x \in wire'
                 PROVE  x.seq <= Len(stream') /\ x.data = stream'[x.seq]
      OBVIOUS
    <3>1. CASE x \in wire
      <4>1. x.seq \in 1 .. Len(stream) /\ x.data = stream[x.seq]
        BY <3>1, <1>2 DEF WireInv, TypeOK, Chunks
      <4> QED BY <4>1, <1>2, <1>6
    <3>2. CASE x = c
      BY <3>2, <1>2, <1>5, <1>6
    <3> QED BY <3>1, <3>2, <1>3 DEF c
  <2>2. \A i \in 1 .. Len(recv) : Len(delivered) + i \in 1 .. Len(stream)
    BY <1>10, <1>2 DEF Retained, TypeOK
  <2>3. \A i \in 1 .. Len(recv') : recv'[i] = stream'[Len(delivered') + i]
    BY <2>2, <1>4, <1>6 DEF WireInv
  <2>4. Retained' <= Len(stream')
    BY <1>2, <1>6, <1>10
  <2>5. expected' = IF Retained' = MaxSeq THEN 0 ELSE Retained' + 1
    BY <1>4, <1>10 DEF WireInv
  <2> QED BY <2>1, <2>3, <2>4, <2>5 DEF WireInv
<1>12. AckInv'
  BY <1>4, <1>10 DEF AckInv
<1> QED BY <1>1, <1>2, <1>7, <1>8, <1>9, <1>11, <1>12 DEF d

(* A Write that gives up fails the session with the gate. *)
LEMMA GiveUpStep ==
    ASSUME Inv, NEW w \in Writers, StartChunkFails(w) \/ AbandonChunk(w)
    PROVE  Inv'
<1> USE ControlAssumption DEF Inv
<1>1. /\ sFailed' = TRUE /\ torn' = TRUE /\ gate' = gate \ {w}
      /\ pc' = [pc EXCEPT ![w] = "idle"] /\ rest' = [rest EXCEPT ![w] = <<>>]
      /\ writeSeq' \in 0 .. MaxSeq
      /\ UNCHANGED <<acks, acked, begun, wire, ackWire, stream, expected, recv,
                     rFailed, delivered>>
      /\ pc[w] \in {"chunk", "await"}
  BY DEF StartChunkFails, AbandonChunk, GiveUp, receiver, TypeOK
<1>2. gate = {w} /\ \A v \in Writers : v # w => pc[v] \notin {"chunk", "await"}
  BY <1>1 DEF GateInv
<1>3. TypeOK'
  BY <1>1 DEF TypeOK
<1>4. GateInv'
  BY <1>1, <1>2 DEF GateInv, TypeOK
<1>5. SeqInv'
  BY <1>1, <1>2 DEF SeqInv, TypeOK
<1>6. WireInv' /\ AckInv'
  BY <1>1 DEF WireInv, AckInv, Retained
<1> QED BY <1>3, <1>4, <1>5, <1>6

(* A retry repeats what the stream holds in that place. *)
LEMMA RetransmitStep ==
    ASSUME Inv, NEW w \in Writers, Retransmit(w)
    PROVE  Inv'
<1> USE ControlAssumption DEF Inv
<1> DEFINE d == Head(rest[w])
<1>0. /\ rest[w] \in Seq(Data) /\ rest[w] # <<>> /\ pc[w] = "await"
      /\ UNCHANGED <<pc, rest, gate, writeSeq, acks, sFailed, acked, torn, begun,
                     expected, recv, rFailed, delivered, ackWire, stream>>
  BY DEF Retransmit, GateInv, TypeOK, sender, receiver
<1>1. /\ d \in Data /\ Len(stream) = acked + 1 /\ writeSeq = Len(stream)
      /\ d = stream[Len(stream)] /\ writeSeq \in 1 .. MaxSeq
  BY <1>0, TailFacts DEF SeqInv, TypeOK
<1>2. PICK k \in Copies :
        wire' = wire \cup {[seq |-> writeSeq, data |-> d, copy |-> k]}
  BY DEF Retransmit, SendChunk
<1>3. TypeOK'
  BY <1>0, <1>1, <1>2 DEF TypeOK, Chunks
<1>4. GateInv' /\ SeqInv' /\ AckInv'
  BY <1>0 DEF GateInv, SeqInv, AckInv, Retained
<1>5. WireInv'
  BY <1>0, <1>1, <1>2 DEF WireInv, Retained
<1> QED BY <1>3, <1>4, <1>5

(* Taking an ACK either drops it or confirms the one chunk outstanding,    *)
(* which the receiver has retained.                                        *)
LEMMA TakeAckStep ==
    ASSUME Inv, NEW w \in Writers, TakeAck(w)
    PROVE  /\ Inv'
           /\ \/ acked' = acked
              \/ acked' = acked + 1 /\ acked < Retained
<1> USE ControlAssumption DEF Inv
<1> DEFINE left == Tail(rest[w])
<1>0. /\ pc[w] = "await" /\ gate = {w} /\ rest[w] \in Seq(Data) /\ rest[w] # <<>>
      /\ \A v \in Writers : v # w => pc[v] \notin {"chunk", "await"}
      /\ Len(stream) = acked + 1 /\ writeSeq = Len(stream)
      /\ acks \in Seq(1 .. MaxSeq) /\ acks # <<>> /\ acks' = Tail(acks)
      /\ UNCHANGED <<writeSeq, sFailed, torn, begun, expected, recv, rFailed,
                     delivered, wire, ackWire, stream>>
  BY DEF TakeAck, GateInv, SeqInv, TypeOK, receiver
<1>1. left \in Seq(Data)
  BY <1>0, TailFacts
<1>2. /\ acks' \in Seq(1 .. MaxSeq) /\ Len(acks') <= AckCap
      /\ Retained' = Retained /\ Retained \in Nat
      /\ Head(acks) \in Nat /\ Head(acks) <= Retained
      /\ \A i \in 1 .. Len(acks') : acks'[i] <= Retained
  <2>1. /\ Tail(acks) \in Seq(1 .. MaxSeq) /\ Head(acks) = acks[1]
        /\ Len(acks) \in Nat /\ Len(acks) >= 1 /\ Len(Tail(acks)) = Len(acks) - 1
        /\ \A i \in 1 .. Len(acks) - 1 : Tail(acks)[i] = acks[i + 1]
        /\ Head(acks) \in 1 .. MaxSeq
    BY <1>0, TailFacts
  <2>2. Retained' = Retained /\ Retained \in Nat
    BY <1>0 DEF Retained, TypeOK
  <2>3. \A i \in 1 .. Len(acks) : acks[i] <= Retained
    BY DEF AckInv
  <2> QED BY <2>1, <2>2, <2>3, <1>0 DEF TypeOK
<1>3. CASE Head(acks) = writeSeq
  <2>1. /\ acked' = acked + 1 /\ rest' = [rest EXCEPT ![w] = left]
        /\ pc' = [pc EXCEPT ![w] = IF left = <<>> THEN "idle" ELSE "chunk"]
        /\ gate' = IF left = <<>> THEN gate \ {w} ELSE gate
    BY <1>3 DEF TakeAck
  <2> HIDE DEF left
  <2>2. acked \in Nat /\ acked < Retained
    BY <1>0, <1>2, <1>3 DEF TypeOK
  <2>3. TypeOK'
    <3>1. pc' \in [Writers -> {"idle", "gate", "chunk", "await"}]
      BY <2>1 DEF TypeOK
    <3>2. rest' \in [Writers -> Seq(Data)] /\ gate' \in SUBSET Writers
      BY <1>1, <2>1 DEF TypeOK
    <3>3. acked' \in Nat
      BY <2>1, <2>2
    <3> QED BY <1>0, <1>2, <3>1, <3>2, <3>3 DEF TypeOK
  <2>4. GateInv'
    BY <1>0, <2>1 DEF GateInv, TypeOK
  <2>5. SeqInv'
    <3>1. \A v \in Writers : pc'[v] # "await"
      BY <1>0, <2>1 DEF TypeOK
    <3> QED BY <3>1, <1>0, <2>1 DEF SeqInv
  <2>6. WireInv' /\ AckInv'
    BY <1>0, <1>2, <2>1, <2>2 DEF WireInv, AckInv, Retained
  <2> QED BY <2>1, <2>2, <2>3, <2>4, <2>5, <2>6
<1>4. CASE Head(acks) # writeSeq
  <2>1. UNCHANGED <<acked, rest, pc, gate>>
    BY <1>4 DEF TakeAck
  <2>2. TypeOK' /\ GateInv' /\ SeqInv' /\ WireInv' /\ AckInv'
    BY <1>0, <1>2, <2>1 DEF TypeOK, GateInv, SeqInv, WireInv, AckInv, Retained
  <2> QED BY <2>1, <2>2
<1> QED BY <1>3, <1>4

(* Retaining the expected chunk: it is the next one of the stream. *)
LEMMA RetainChunkStep ==
    ASSUME Inv, NEW c \in wire, RetainChunk(c)
    PROVE  Inv' /\ Retained < Len(stream) /\ Retained' = Retained + 1
<1> USE ControlAssumption DEF Inv
<1>0. /\ c.seq = expected /\ Len(recv) < RecvCap /\ recv' = Append(recv, c.data)
      /\ expected' = (expected + 1) % (MaxSeq + 1) /\ wire' = wire \ {c}
      /\ UNCHANGED <<pc, rest, gate, writeSeq, acks, sFailed, acked, torn, begun,
                     rFailed, delivered, stream>>
  BY DEF RetainChunk, Arrives, NextExpected, sender
<1>1. /\ c.seq \in 1 .. MaxSeq /\ c.data \in Data /\ c.seq <= Len(stream)
      /\ c.data = stream[c.seq]
  BY DEF TypeOK, Chunks, WireInv
<1>2. /\ Len(delivered) \in Nat /\ Len(recv) \in Nat /\ Len(stream) \in Nat
      /\ Len(stream) <= MaxSeq /\ MaxSeq \in Nat
      /\ Retained = Len(delivered) + Len(recv) /\ Retained <= Len(stream)
      /\ expected = IF Retained = MaxSeq THEN 0 ELSE Retained + 1
  BY DEF Retained, TypeOK, SeqInv, WireInv
<1>3. c.seq = Retained + 1 /\ Retained < Len(stream) /\ expected = Retained + 1
  BY <1>0, <1>1, <1>2
<1>4. /\ recv' \in Seq(Data) /\ Len(recv') = Len(recv) + 1
      /\ \A i \in 1 .. Len(recv) : recv'[i] = recv[i]
      /\ recv'[Len(recv) + 1] = c.data
  BY <1>0, <1>1, AppendFacts DEF TypeOK
<1>5. Retained' = Retained + 1
  BY <1>0, <1>2, <1>4 DEF Retained
<1>6. PICK k \in Copies : ackWire' = ackWire \cup {[seq |-> c.seq, copy |-> k]}
  BY DEF RetainChunk, SendAck
<1>7. expected' = (IF Retained + 1 = MaxSeq THEN 0 ELSE Retained + 2)
      /\ expected' \in 0 .. MaxSeq
  <2>1. CASE Retained + 1 = MaxSeq
    <3>1. expected + 1 = MaxSeq + 1
      BY <1>3, <2>1
    <3>2. (MaxSeq + 1) % (MaxSeq + 1) = 0
      BY <1>2
    <3>3. expected' = 0
      BY <3>1, <3>2, <1>0
    <3> QED BY <3>3, <2>1, <1>2
  <2>2. CASE Retained + 1 # MaxSeq
    <3>1. expected + 1 = Retained + 2 /\ Retained + 2 < MaxSeq + 1
      BY <1>2, <1>3, <2>2
    <3>2. (Retained + 2) % (MaxSeq + 1) = Retained + 2
      BY <3>1, <1>2
    <3>3. expected' = Retained + 2
      BY <3>1, <3>2, <1>0
    <3>4. Retained + 2 \in 0 .. MaxSeq
      BY <3>1, <1>2
    <3> QED BY <3>3, <3>4, <2>2
  <2> QED BY <2>1, <2>2
<1>8. TypeOK'
  <2>1. Len(recv') <= RecvCap
    BY <1>0, <1>2, <1>4
  <2>2. [seq |-> c.seq, copy |-> k] \in Acks
    BY <1>1 DEF Acks
  <2>3. ackWire' \in SUBSET Acks /\ wire' \in SUBSET Chunks
    BY <2>2, <1>0, <1>6 DEF TypeOK
  <2>4. UNCHANGED <<pc, rest, gate, writeSeq, acks, sFailed, acked, torn, begun,
                    rFailed, delivered, stream>>
    BY <1>0
  <2> QED BY <2>1, <2>3, <2>4, <1>4, <1>7 DEF TypeOK
<1>9. GateInv' /\ SeqInv'
  BY <1>0 DEF GateInv, SeqInv
<1>10. WireInv'
  <2>1. \A i \in 1 .. Len(recv') : recv'[i] = stream'[Len(delivered') + i]
    <3> SUFFICES ASSUME NEW i \in 1 .. Len(recv')
                 PROVE  recv'[i] = stream[Len(delivered) + i]
      BY <1>0
    <3>1. CASE i \in 1 .. Len(recv)
      BY <3>1, <1>4 DEF WireInv
    <3>2. CASE i = Len(recv) + 1
      BY <3>2, <1>1, <1>2, <1>3, <1>4
    <3> QED BY <3>1, <3>2, <1>2, <1>4
  <2>2. Retained' <= Len(stream') /\ \A x \in wire' : x \in wire
    BY <1>0, <1>2, <1>3, <1>5
  <2>3. expected' = IF Retained' = MaxSeq THEN 0 ELSE Retained' + 1
    BY <1>2, <1>5, <1>7
  <2> QED BY <2>1, <2>2, <2>3, <1>0 DEF WireInv
<1>11. AckInv'
  <2>1. \A a \in ackWire' : a.seq <= Retained'
    BY <1>2, <1>3, <1>5, <1>6 DEF AckInv, TypeOK, Acks
  <2>2. \A i \in 1 .. Len(acks') : acks'[i] <= Retained'
    <3>1. \A i \in 1 .. Len(acks) : acks[i] \in Nat /\ acks[i] <= Retained
      BY DEF AckInv, TypeOK
    <3> QED BY <3>1, <1>0, <1>2, <1>5
  <2> QED BY <2>1, <2>2, <1>0, <1>2, <1>5 DEF AckInv, TypeOK
<1> QED BY <1>3, <1>5, <1>8, <1>9, <1>10, <1>11

(* Re-acknowledging an older chunk is truthful; ignoring one is harmless.  *)
LEMMA OtherChunkStep ==
    ASSUME Inv, NEW c \in wire, ReAckChunk(c) \/ IgnoreChunk(c)
    PROVE  Inv' /\ Retained' = Retained
<1> USE ControlAssumption DEF Inv
<1>0. /\ wire' = wire \ {c} /\ c.seq \in 1 .. MaxSeq
      /\ UNCHANGED <<pc, rest, gate, writeSeq, acks, sFailed, acked, torn, begun,
                     rFailed, delivered, stream, recv, expected>>
  BY DEF ReAckChunk, IgnoreChunk, Arrives, sender, TypeOK, Chunks
<1>1. Retained' = Retained /\ Retained \in Nat
  BY <1>0 DEF Retained, TypeOK
<1>2. \/ ackWire' = ackWire
      \/ \E k \in Copies : /\ ackWire' = ackWire \cup {[seq |-> c.seq, copy |-> k]}
                           /\ c.seq <= Retained
  <2>1. c.seq < expected => c.seq <= Retained
    BY <1>0, <1>1, SMTT(30) DEF WireInv, TypeOK
  <2> QED BY <2>1 DEF ReAckChunk, IgnoreChunk, SendAck
<1>3. TypeOK' /\ GateInv' /\ SeqInv' /\ WireInv'
  BY <1>0, <1>1, <1>2 DEF TypeOK, GateInv, SeqInv, WireInv, Acks
<1>4. AckInv'
  BY <1>0, <1>1, <1>2 DEF AckInv
<1> QED BY <1>1, <1>3, <1>4

LEMMA ReceiveAckStep ==
    ASSUME Inv, NEW a \in ackWire, ReceiveAck(a)
    PROVE  Inv' /\ Retained' = Retained
<1> USE ControlAssumption DEF Inv
<1>0. /\ ackWire' = ackWire \ {a} /\ a.seq \in 1 .. MaxSeq /\ a.seq <= Retained
      /\ acks' = IF Len(acks) < AckCap THEN Append(acks, a.seq) ELSE acks
      /\ UNCHANGED <<pc, rest, gate, writeSeq, sFailed, acked, torn, begun, rFailed,
                     delivered, stream, recv, expected, wire>>
  BY DEF ReceiveAck, receiver, TypeOK, Acks, AckInv
<1>1. Retained' = Retained /\ Retained \in Nat
  BY <1>0 DEF Retained, TypeOK
<1>2. /\ acks' \in Seq(1 .. MaxSeq) /\ Len(acks') <= AckCap
      /\ \A i \in 1 .. Len(acks') : acks'[i] <= Retained
  <2>0. acks \in Seq(1 .. MaxSeq) /\ Len(acks) <= AckCap /\ Len(acks) \in Nat
        /\ \A i \in 1 .. Len(acks) : acks[i] <= Retained
    BY DEF AckInv, TypeOK
  <2>1. CASE Len(acks) < AckCap
    <3>1. /\ acks' \in Seq(1 .. MaxSeq) /\ Len(acks') = Len(acks) + 1
          /\ \A i \in 1 .. Len(acks) : acks'[i] = acks[i]
          /\ acks'[Len(acks) + 1] = a.seq
      BY <1>0, <2>0, <2>1, AppendFacts
    <3>2. Len(acks') <= AckCap
      BY <3>1, <2>0, <2>1
    <3>3. ASSUME NEW i \in 1 .. Len(acks') PROVE acks'[i] <= Retained
      <4>1. i \in 1 .. Len(acks) \/ i = Len(acks) + 1
        BY <3>1, <2>0
      <4> QED BY <4>1, <3>1, <2>0, <1>0
    <3> QED BY <3>1, <3>2, <3>3
  <2>2. CASE ~(Len(acks) < AckCap)
    BY <2>0, <2>2, <1>0
  <2> QED BY <2>1, <2>2
<1>3. TypeOK' /\ GateInv' /\ SeqInv' /\ WireInv' /\ AckInv'
  BY <1>0, <1>1, <1>2 DEF TypeOK, GateInv, SeqInv, WireInv, AckInv
<1> QED BY <1>1, <1>3

(* Reading moves one chunk from the queue to the application, in order. *)
LEMMA ReadStep ==
    ASSUME Inv, Read
    PROVE  /\ Inv' /\ Retained' = Retained /\ Len(delivered) < Retained
           /\ delivered' = Append(delivered, stream[Len(delivered) + 1])
<1> USE ControlAssumption DEF Inv
<1>0. /\ recv # <<>> /\ recv \in Seq(Data) /\ delivered \in Seq(Data)
      /\ delivered' = Append(delivered, Head(recv)) /\ recv' = Tail(recv)
      /\ UNCHANGED <<pc, rest, gate, writeSeq, acks, sFailed, acked, torn, begun,
                     rFailed, stream, expected, wire, ackWire>>
  BY DEF Read, sender, TypeOK
<1>1. /\ recv' \in Seq(Data) /\ Head(recv) \in Data /\ Head(recv) = recv[1]
      /\ Len(recv) \in Nat /\ Len(recv) >= 1 /\ Len(recv') = Len(recv) - 1
      /\ \A i \in 1 .. Len(recv) - 1 : recv'[i] = recv[i + 1]
  BY <1>0, TailFacts
<1>2. /\ delivered' \in Seq(Data) /\ Len(delivered) \in Nat
      /\ Len(delivered') = Len(delivered) + 1
  BY <1>0, <1>1, AppendFacts
<1>3. Retained' = Retained /\ Len(delivered) < Retained
  BY <1>1, <1>2 DEF Retained
<1>4. Head(recv) = stream[Len(delivered) + 1]
  BY <1>1 DEF WireInv
<1>5. Len(recv') <= RecvCap
  BY <1>1 DEF TypeOK
<1>6. TypeOK'
  BY <1>0, <1>1, <1>2, <1>5 DEF TypeOK
<1>7. GateInv' /\ SeqInv' /\ AckInv'
  BY <1>0, <1>3 DEF GateInv, SeqInv, AckInv
<1>8. WireInv'
  <2>1. ASSUME NEW i \in 1 .. Len(recv')
        PROVE  recv'[i] = stream[Len(delivered') + i]
    <3>1. i \in 1 .. Len(recv) - 1 /\ i + 1 \in 1 .. Len(recv)
      BY <1>1
    <3>2. recv'[i] = stream[Len(delivered) + (i + 1)]
      BY <3>1, <1>1 DEF WireInv
    <3>3. Len(delivered) + (i + 1) = Len(delivered') + i
      BY <3>1, <1>2
    <3> QED BY <3>2, <3>3
  <2> QED BY <2>1, <1>0, <1>3 DEF WireInv
<1> QED BY <1>0, <1>3, <1>4, <1>6, <1>7, <1>8

LEMMA EnvironmentStep ==
    ASSUME Inv, Lose \/ FailSender \/ FailReceiver
    PROVE  Inv' /\ Retained' = Retained
<1> USE DEF Inv
<1>0. /\ wire' \subseteq wire /\ ackWire' \subseteq ackWire
      /\ sFailed => sFailed'
      /\ sFailed' \in BOOLEAN /\ rFailed' \in BOOLEAN
      /\ UNCHANGED <<pc, rest, gate, writeSeq, acks, acked, torn, begun, delivered,
                     stream, expected, recv>>
  BY DEF Lose, FailSender, FailReceiver, sender, receiver, TypeOK
<1>1. Retained' = Retained
  BY <1>0 DEF Retained
<1>2. TypeOK'
  BY <1>0 DEF TypeOK
<1>3. GateInv' /\ SeqInv' /\ WireInv' /\ AckInv'
  BY <1>0, <1>1 DEF GateInv, SeqInv, WireInv, AckInv
<1> QED BY <1>1, <1>2, <1>3

(* Every step keeps the invariant, and is a step of ControlStream or       *)
(* leaves its variables alone.                                             *)
LEMMA NextInv ==
    ASSUME Inv, [Next]_vars
    PROVE  Inv' /\ [CS!CNext]_(CS!cvars)
<1> USE DEF CS!cvars
<1>1. CASE UNCHANGED vars
  BY <1>1 DEF vars, sender, receiver, Inv, TypeOK, GateInv, SeqInv, WireInv,
              AckInv, Retained
<1>2. ASSUME NEW w \in Writers, WriterStep(w)
      PROVE  Inv' /\ [CS!CNext]_(CS!cvars)
  <2>1. CASE (\E msg \in Messages : Begin(w, msg)) \/ Acquire(w) \/ LeaveGate(w)
    BY <2>1, GateStep DEF Begin, Acquire, LeaveGate, receiver, Retained
  <2>2. CASE StartChunk(w)
    <3>1. Inv' /\ acked = Len(stream) /\ Head(rest[w]) \in Data
      BY <2>2, StartChunkStep
    <3>2. CS!Commit(Head(rest[w]))
      BY <2>2, <3>1 DEF StartChunk, receiver, Retained, CS!Commit
    <3> QED BY <3>1, <3>2 DEF CS!CNext
  <2>3. CASE StartChunkFails(w) \/ AbandonChunk(w)
    BY <2>3, GiveUpStep DEF StartChunkFails, AbandonChunk, GiveUp, receiver, Retained
  <2>4. CASE Retransmit(w)
    BY <2>4, RetransmitStep DEF Retransmit, sender, receiver, Retained
  <2>5. CASE TakeAck(w)
    <3>1. Inv' /\ (acked' = acked \/ (acked' = acked + 1 /\ acked < Retained))
      BY <2>5, TakeAckStep
    <3>2. UNCHANGED <<stream, delivered>> /\ Retained' = Retained
      BY <2>5 DEF TakeAck, receiver, Retained
    <3>3. CS!Confirm \/ UNCHANGED CS!cvars
      BY <3>1, <3>2 DEF CS!Confirm
    <3> QED BY <3>1, <3>3 DEF CS!CNext
  <2> QED BY <1>2, <2>1, <2>2, <2>3, <2>4, <2>5 DEF WriterStep
<1>3. ASSUME NEW c \in wire, RetainChunk(c)
      PROVE  Inv' /\ [CS!CNext]_(CS!cvars)
  <2>1. Inv' /\ Retained < Len(stream) /\ Retained' = Retained + 1
    BY <1>3, RetainChunkStep
  <2>2. CS!Retain
    BY <1>3, <2>1 DEF RetainChunk, Arrives, sender, CS!Retain
  <2> QED BY <2>1, <2>2 DEF CS!CNext
<1>4. ASSUME NEW c \in wire, ReAckChunk(c) \/ IgnoreChunk(c)
      PROVE  Inv' /\ [CS!CNext]_(CS!cvars)
  BY <1>4, OtherChunkStep DEF ReAckChunk, IgnoreChunk, Arrives, sender
<1>5. ASSUME NEW a \in ackWire, ReceiveAck(a)
      PROVE  Inv' /\ [CS!CNext]_(CS!cvars)
  BY <1>5, ReceiveAckStep DEF ReceiveAck, receiver
<1>6. ASSUME Read PROVE Inv' /\ [CS!CNext]_(CS!cvars)
  <2>1. /\ Inv' /\ Retained' = Retained /\ Len(delivered) < Retained
        /\ delivered' = Append(delivered, stream[Len(delivered) + 1])
    BY <1>6, ReadStep
  <2>2. CS!Take
    BY <1>6, <2>1 DEF Read, sender, CS!Take
  <2> QED BY <2>1, <2>2 DEF CS!CNext
<1>7. ASSUME Lose \/ FailSender \/ FailReceiver
      PROVE  Inv' /\ [CS!CNext]_(CS!cvars)
  BY <1>7, EnvironmentStep DEF Lose, FailSender, FailReceiver, sender, receiver
<1> QED BY <1>1, <1>2, <1>3, <1>4, <1>5, <1>6, <1>7 DEF Next

(* Type correctness with the gate, sequence, wire and ACK invariants. *)
THEOREM SpecInv == Spec => []Inv
<1>1. Init => Inv
  BY InitInv
<1>2. Inv /\ [Next]_vars => Inv'
  BY NextInv
<1> QED BY <1>1, <1>2, PTL DEF Spec

(* Queues keep their capacity and sequence numbers their width: Write and  *)
(* receive never leave the types of Conn's fields.                         *)
THEOREM TypeCorrect == Spec => []TypeOK
<1>1. Inv => TypeOK
  BY DEF Inv
<1> QED BY <1>1, SpecInv, PTL

(* Write, writeChunk, receive and Read together are an exactly-once FIFO   *)
(* of chunks in which success is only reported for what was retained.      *)
THEOREM ControlStreamImplemented == Spec => ImplementsControlStream
<1>1. Init => CS!CInit
  BY DEF Init, CS!CInit, Retained
<1>2. Inv /\ [Next]_vars => [CS!CNext]_(CS!cvars)
  BY NextInv
<1> QED BY <1>1, <1>2, SpecInv, PTL DEF Spec, ImplementsControlStream, CS!CSpec

(* No chunk follows a message that a Write gave up on. *)
THEOREM TornIsLast == Spec => NothingAfterTorn
<1>1. Inv /\ [Next]_vars => [torn => stream' = stream]_vars
  <2> SUFFICES ASSUME Inv, Next, torn PROVE stream' = stream
    OBVIOUS
  <2>1. sFailed
    BY DEF Inv, SeqInv
  <2> QED
    BY <2>1 DEF Next, WriterStep, Begin, Acquire, LeaveGate, StartChunk,
      StartChunkFails, Retransmit, TakeAck, AbandonChunk, RetainChunk, ReAckChunk,
      IgnoreChunk, Arrives, ReceiveAck, Read, Lose, FailSender, FailReceiver
<1> QED BY <1>1, SpecInv, PTL DEF Spec, NothingAfterTorn
=============================================================================

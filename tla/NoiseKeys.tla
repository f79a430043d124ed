----------------------------- MODULE NoiseKeys -----------------------------
(***************************************************************************)
(* Key generations, packet counters and replay windows of one Noise/UDP    *)
(* session (internal/noiseudp/conn.go and rekey.go, whose Rust twin is     *)
(* client/src/noise/crypto.rs).  Both ends run the same code, so the model *)
(* is symmetric: every peer has a sending state tx, guarded by sendMu, and *)
(* a receiving state rx, owned by the UDP read loop.                       *)
(*                                                                         *)
(* The network is the worst one UDP offers: a packet that was sent may be  *)
(* delivered never, later, in any order and any number of times, so it is  *)
(* the set tx.sent of everything the peer ever put on the wire.  AEAD is   *)
(* external: opening a packet succeeds exactly under the generation that   *)
(* sealed it.                                                              *)
(***************************************************************************)
EXTENDS Integers, FiniteSets

CONSTANTS MaxCounter,   \* maxCounter, 2^24 in the code
          RekeyPackets, \* rekeyPackets, maxCounter / 2
          Window,       \* width of the replay bitmap, 64
          MaxKeyEpoch,  \* maxKeyEpoch, 2^40 - 2
          Talkers,      \* the peers whose application sends data on its own
          MaxSent       \* bound: packets put on the wire by both peers

ASSUME KeyAssumption ==
    /\ MaxCounter \in Nat /\ MaxCounter > 2
    /\ RekeyPackets \in 1 .. MaxCounter - 2
    /\ Window \in Nat \ {0}
    /\ MaxKeyEpoch \in Nat
    /\ Talkers \subseteq {"client", "server"}
    /\ MaxSent \in Nat

VARIABLES tx,       \* tx[p]: what p's sendMu guards, and what p has sent
          rx,       \* rx[p]: p's receive keys and replay windows
          accepted  \* accepted[p]: history of the <<epoch, n>> p has opened

keyVars == <<tx, rx, accepted>>

Peers == {"client", "server"}

Other(p) == IF p = "client" THEN "server" ELSE "client"

Epochs == 0 .. MaxKeyEpoch

Counters == 1 .. MaxCounter - 1

\* "data" stands for voice, control, ack, ping and pong, which differ only
\* above this layer.
Kinds == {"data", "keyUpdate", "keyACK", "closing"}

Packets == [kind : Kinds, epoch : Epochs, n : Counters, body : Epochs]

\* How long ago keySince (and, from "retry" on, updateSent) was: under 5s,
\* past rekeyRetry, past rekeyTimeout, past rekeyAfter.
Ages == {"fresh", "retry", "timeout", "aged"}

-----------------------------------------------------------------------------
(* Replay window. bits holds the offsets from highest that were seen.      *)

EmptyWindow == [highest |-> 0, bits |-> {}]

Windows == [highest : 0 .. MaxCounter - 1, bits : SUBSET (0 .. Window - 1)]

Seen(w, n) ==
    \/ n = 0
    \/ n >= MaxCounter
    \/ n <= w.highest /\ (w.highest - n >= Window \/ w.highest - n \in w.bits)

Shift(bits, d) == {o \in 0 .. Window - 1 : o - d \in bits}

Add(w, n) ==
    IF n > w.highest
    THEN [highest |-> n, bits |-> Shift(w.bits, n - w.highest) \cup {0}]
    ELSE [w EXCEPT !.bits = @ \cup {w.highest - n}]

-----------------------------------------------------------------------------
(* Sending.  Every operator maps a sending state to the next one; failed   *)
(* is c.err # nil, after which nothing is sent any more.                   *)

TxStates == [epoch : Epochs, counter : 0 .. MaxCounter - 1,
             confirmed : BOOLEAN, updateSent : BOOLEAN, failed : BOOLEAN,
             sent : SUBSET Packets]

\* Slip: the packet budget is tested with > instead of >=.
SendLockedOffByOne(s, kind, body) ==
    IF s.failed \/ s.counter + 1 > MaxCounter
    THEN [s EXCEPT !.failed = TRUE]
    ELSE [s EXCEPT !.counter = @ + 1,
                   !.sent = @ \cup {[kind |-> kind, epoch |-> s.epoch,
                                     n |-> s.counter + 1, body |-> body]}]

SendLocked(s, kind, body) ==
    IF s.failed \/ s.counter + 1 >= MaxCounter
    THEN [s EXCEPT !.failed = TRUE]
    ELSE [s EXCEPT !.counter = @ + 1,
                   !.sent = @ \cup {[kind |-> kind, epoch |-> s.epoch,
                                     n |-> s.counter + 1, body |-> body]}]

\* The two threshold tests of prepareKeysLocked.
ConfirmTimedOut(s, age) == ~s.confirmed /\ age \in {"timeout", "aged"}

\* Slip: the next rekey does not wait for the confirmation of the last.
RekeyDueUnconfirmed(s, age) == s.counter >= RekeyPackets \/ age = "aged"

RekeyDue(s, age) == s.confirmed /\ (s.counter >= RekeyPackets \/ age = "aged")

\* Slip: the counter restarts but the nonce's generation does not advance.
RekeySameEpoch(s) == [s EXCEPT !.counter = 0, !.confirmed = FALSE,
                               !.updateSent = FALSE]

Rekey(s) == [s EXCEPT !.epoch = @ + 1, !.counter = 0, !.confirmed = FALSE,
                      !.updateSent = FALSE]

SendUpdate(s, age) ==
    IF ~s.confirmed /\ (~s.updateSent \/ age # "fresh")
    THEN LET r == SendLocked(s, "keyUpdate", s.epoch)
         IN  [r EXCEPT !.updateSent = ~r.failed]
    ELSE s

PrepareKeys(s, age) ==
    IF s.failed THEN s
    ELSE IF ConfirmTimedOut(s, age) THEN [s EXCEPT !.failed = TRUE]
    ELSE IF ~RekeyDue(s, age) THEN SendUpdate(s, age)
    ELSE IF s.epoch >= MaxKeyEpoch THEN [s EXCEPT !.failed = TRUE]
    ELSE SendUpdate(Rekey(s), age)

\* Conn.send: key maintenance and the packet itself under one sendMu.
Send(s, age, kind, body) == SendLocked(PrepareKeys(s, age), kind, body)

-----------------------------------------------------------------------------
(* Receiving.  previous is the retired generation's window while its grace *)
(* lasts; the current key is always epoch, the precomputed one epoch + 1.  *)

RxStates == [epoch : Epochs, replay : Windows,
             hasPrevious : BOOLEAN, previous : Windows]

\* Slip: a counter the retired window has seen is dropped at once.
OpensAsOldWindowHides(r, pkt) ==
    IF pkt.epoch % 2 = r.epoch % 2
    THEN IF ~Seen(r.replay, pkt.n) /\ pkt.epoch = r.epoch THEN r.epoch ELSE -1
    ELSE IF r.hasPrevious /\ Seen(r.previous, pkt.n) THEN -1
    ELSE IF r.hasPrevious /\ pkt.epoch = r.epoch - 1 THEN r.epoch - 1
    ELSE IF r.epoch < MaxKeyEpoch /\ pkt.epoch = r.epoch + 1 THEN r.epoch + 1
    ELSE -1

\* The generation decryptPacket opens the packet under, or -1.
OpensAs(r, pkt) ==
    IF pkt.epoch % 2 = r.epoch % 2
    THEN IF ~Seen(r.replay, pkt.n) /\ pkt.epoch = r.epoch THEN r.epoch ELSE -1
    ELSE IF r.hasPrevious /\ ~Seen(r.previous, pkt.n) /\ pkt.epoch = r.epoch - 1
         THEN r.epoch - 1
    ELSE IF r.epoch < MaxKeyEpoch /\ pkt.epoch = r.epoch + 1 THEN r.epoch + 1
    ELSE -1

\* previousUntil has passed.
ExpirePrevious(r, graceOver) ==
    IF graceOver THEN [r EXCEPT !.hasPrevious = FALSE, !.previous = EmptyWindow]
    ELSE r

\* Slip: the retired generation keeps its key but not its replay window.
OpenedForgetsWindow(r, pkt, e) ==
    IF e = r.epoch THEN [r EXCEPT !.replay = Add(@, pkt.n)]
    ELSE IF e = r.epoch - 1 THEN [r EXCEPT !.previous = Add(@, pkt.n)]
    ELSE [epoch |-> r.epoch + 1, replay |-> Add(EmptyWindow, pkt.n),
          hasPrevious |-> TRUE, previous |-> EmptyWindow]

\* The receive state after pkt was opened under generation e.
Opened(r, pkt, e) ==
    IF e = r.epoch THEN [r EXCEPT !.replay = Add(@, pkt.n)]
    ELSE IF e = r.epoch - 1 THEN [r EXCEPT !.previous = Add(@, pkt.n)]
    ELSE [epoch |-> r.epoch + 1, replay |-> Add(EmptyWindow, pkt.n),
          hasPrevious |-> TRUE, previous |-> r.replay]

\* What the handler for an opened packet does to the peer's own sending
\* state: a first packet of a new generation and every key update are
\* confirmed, a confirmation of the current generation is noted.
Handle(s, age, pkt, e, advanced) ==
    LET confirm(t) == Send(t, age, "keyACK", e)
        t1 == IF advanced THEN confirm(s) ELSE s
    IN  CASE pkt.kind = "keyUpdate" /\ pkt.body # e -> [t1 EXCEPT !.failed = TRUE]
          [] pkt.kind = "keyUpdate" /\ pkt.body = e ->
                IF advanced THEN t1 ELSE confirm(t1)
          [] pkt.kind = "keyACK" ->
                [t1 EXCEPT !.confirmed = @ \/ pkt.body = t1.epoch]
          [] pkt.kind = "closing" -> [t1 EXCEPT !.failed = TRUE]
          [] pkt.kind = "data" -> t1

-----------------------------------------------------------------------------
KeyInit ==
    /\ tx = [p \in Peers |-> [epoch |-> 0, counter |-> 0, confirmed |-> TRUE,
                              updateSent |-> FALSE, failed |-> FALSE,
                              sent |-> {}]]
    /\ rx = [p \in Peers |-> [epoch |-> 0, replay |-> EmptyWindow,
                              hasPrevious |-> FALSE, previous |-> EmptyWindow]]
    /\ accepted = [p \in Peers |-> {}]

\* The application or the keepalive sends a datagram.
SendData(p, age) ==
    /\ p \in Talkers
    /\ ~tx[p].failed
    /\ tx' = [tx EXCEPT ![p] = Send(@, age, "data", 0)]
    /\ UNCHANGED <<rx, accepted>>

\* The five-second maintenance tick.
RefreshKeys(p, age) ==
    /\ ~tx[p].failed
    /\ tx' = [tx EXCEPT ![p] = PrepareKeys(@, age)]
    /\ UNCHANGED <<rx, accepted>>

\* CloseWithError: a best-effort closing packet, then the session fails.
Close(p, age) ==
    /\ ~tx[p].failed
    /\ tx' = [tx EXCEPT ![p] = [Send(@, age, "closing", 0) EXCEPT !.failed = TRUE]]
    /\ UNCHANGED <<rx, accepted>>

\* The socket refuses a packet, or nothing was received for 30 seconds.
Break(p) ==
    /\ ~tx[p].failed
    /\ tx' = [tx EXCEPT ![p].failed = TRUE]
    /\ UNCHANGED <<rx, accepted>>

\* Conn.receive of one delivered copy of pkt.
Receive(p, pkt, age, graceOver) ==
    LET r == ExpirePrevious(rx[p], graceOver)
        e == OpensAs(r, pkt)
    IN  /\ ~tx[p].failed
        /\ pkt \in tx[Other(p)].sent
        /\ IF e = -1
           THEN /\ rx' = [rx EXCEPT ![p] = r]
                /\ UNCHANGED <<tx, accepted>>
           ELSE /\ rx' = [rx EXCEPT ![p] = Opened(r, pkt, e)]
                /\ accepted' = [accepted EXCEPT ![p] = @ \cup {<<e, pkt.n>>}]
                /\ tx' = [tx EXCEPT ![p] =
                            Handle(@, age, pkt, e, e = r.epoch + 1)]

WithinBound ==
    Cardinality(tx["client"].sent) + Cardinality(tx["server"].sent) <= MaxSent

KeyNext ==
    /\ \E p \in Peers :
        \/ Break(p)
        \/ \E age \in Ages :
              \/ SendData(p, age)
              \/ RefreshKeys(p, age)
              \/ Close(p, age)
              \/ \E pkt \in tx[Other(p)].sent, graceOver \in BOOLEAN :
                    Receive(p, pkt, age, graceOver)
    /\ WithinBound'

KeySpec == KeyInit /\ [][KeyNext]_keyVars

-----------------------------------------------------------------------------
(* Properties.                                                             *)

\* Every variable has its type: counters stay below the packet budget that
\* sendLocked enforces, generations within maxKeyEpoch.
KeyTypeOK ==
    /\ tx \in [Peers -> TxStates]
    /\ rx \in [Peers -> RxStates]
    /\ accepted \in [Peers -> SUBSET (Epochs \X Counters)]

\* sendLocked never seals two different packets with one AEAD nonce, across
\* counter restarts, retried updates and rekeys (packetNonce, rekey.go).
NonceUnique ==
    \A p \in Peers : \A a, b \in tx[p].sent :
        a.epoch = b.epoch /\ a.n = b.n => a = b

\* "The receiver never needs to derive an unbounded key history": it is at
\* most one generation behind the sender, never ahead of it, and a sender
\* that believes its generation confirmed is right (prepareKeysLocked,
\* keyACK handling and decryptPacket together).
EpochLockstep ==
    \A p \in Peers :
        /\ tx[p].epoch - rx[Other(p)].epoch \in {0, 1}
        /\ tx[p].confirmed => rx[Other(p)].epoch = tx[p].epoch

\* Whatever is delivered before, a packet sealed under the sender's current
\* generation opens at the receiver, unless the current window has seen or
\* outrun its counter: old and next generation share a phase bit and the
\* retired window must not hide a packet of the next one (decryptPacket).
CurrentKeyOpens ==
    \A p \in Peers : \A pkt \in tx[p].sent :
        pkt.epoch = tx[p].epoch =>
            \/ rx[Other(p)].epoch = pkt.epoch /\ Seen(rx[Other(p)].replay, pkt.n)
            \/ OpensAs(rx[Other(p)], pkt) = pkt.epoch

\* A datagram that was opened once is never opened again, whether its
\* generation is current, retired with or without grace, or forgotten
\* (replayWindow, decryptPacket).
NoReplay ==
    \A p \in Peers : \A pkt \in tx[Other(p)].sent :
        <<pkt.epoch, pkt.n>> \in accepted[p] =>
            \A graceOver \in BOOLEAN :
                OpensAs(ExpirePrevious(rx[p], graceOver), pkt) = -1
=============================================================================

----------------------------- MODULE VoiceSender -----------------------------
(***************************************************************************)
(* The voice sender of one member: SendVoiceRing runs sendVoiceSource on   *)
(* the member's ring, under the stall guard (nativewire/voice_ring.go and  *)
(* nativewire/transport.go).  The worker pops a packet, drops it when it   *)
(* is stale, and sends it between begin and end; routers push and the      *)
(* session's teardown closes the ring at any time.                         *)
(***************************************************************************)
EXTENDS VoiceRing, VoiceSendGuard

vars == <<worker, open, ringVars, guardVars>>

Init == worker = "look" /\ open = TRUE /\ RingInit /\ GuardInit

-----------------------------------------------------------------------------
\* A router's or a teardown's step touches nothing but the ring.
Producers ==
    /\ \/ \E x \in Packets : Push(x)
       \/ PushClosed
       \/ Close /\ worker' = worker
    /\ UNCHANGED <<open, guardVars>>

\* pop returns a packet or goes to wait.
Popping == (PopTake \/ PopEmpty \/ PopWoken) /\ UNCHANGED <<open, guardVars>>

\* Slip: SendVoiceRing leaves its ring open when the guard ends the worker.
PassRingStaysOpen == (DiscardStale \/ Begin \/ EndHealthy \/ Refused \/ EndBroken) /\ UNCHANGED ringVars

\* sendVoiceSource goes on with the packet in hand.
Pass == (DiscardStale \/ Begin \/ EndHealthy) /\ UNCHANGED ringVars

\* sendVoiceSource returns: pop has no next packet, begin refuses, or the
\* send has failed.  stop runs first, then SendVoiceRing's Close.
NoNext == PopEnds /\ Stop /\ open' = open

Gone == Refused /\ Close

Broken == EndBroken /\ Close

Callbacks ==
    /\ \/ Tick \/ TimerFires \/ WatchFires
       \/ TimerExpires \/ WatchExpires \/ CloseConn
       \/ ConnectionEnds
    /\ UNCHANGED ringVars

Next == Producers \/ Popping \/ Pass \/ NoNext \/ Gone \/ Broken \/ Callbacks

Spec == Init /\ [][Next]_vars

\* The worker is a goroutine of its own that is never blocked while one of its
\* steps is possible, except inside SendDatagram: that may block for ever on a
\* healthy connection, but not on one whose context is done.  Time passes,
\* timers fire and their goroutines run.
FairSpec ==
    /\ Spec
    /\ WF_vars(Popping) /\ WF_vars(NoNext) /\ WF_vars(Gone)
    /\ WF_vars((DiscardStale \/ Begin) /\ UNCHANGED ringVars)
    /\ WF_vars(~open /\ Broken)
    /\ WF_vars(Tick /\ UNCHANGED ringVars) /\ WF_vars(TimerFires /\ UNCHANGED ringVars)
    /\ WF_vars(WatchFires /\ UNCHANGED ringVars)
    /\ WF_vars(TimerExpires /\ UNCHANGED ringVars)
    /\ WF_vars(WatchExpires /\ UNCHANGED ringVars)
    /\ WF_vars(CloseConn /\ UNCHANGED ringVars)

-----------------------------------------------------------------------------
(* Properties *)

\* Every variable of the worker, the ring and the guard has its type.
TypeOK == worker \in Stages /\ open \in BOOLEAN /\ RingTypeOK /\ GuardTypeOK

\* A queued packet brings the worker back from its wait; a send gives it back
\* even when its SendDatagram never returns on a connection nobody else
\* closes, for the guard of that very send gets it out; and a closed ring ends
\* it, wherever it is.
WorkerReacts ==
    /\ (worker = "wait" /\ size # 0) ~> (worker # "wait")
    /\ worker = "sending" ~> worker # "sending"
    /\ closed ~> (worker = "done")

\* A worker that has returned leaves no voice behind, and no router can add
\* any: the ring is closed and empty, whichever way the worker ended.
NothingLeftBehind == worker = "done" => closed /\ size = 0
=============================================================================

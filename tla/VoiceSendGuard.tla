--------------------------- MODULE VoiceSendGuard ---------------------------
(***************************************************************************)
(* internal/nativewire/transport.go: sendVoiceSource and the guard that    *)
(* closes a connection whose voice send stalls.  begin, end, stop and the  *)
(* decision of expire run under g.mu; the timer and the context start      *)
(* expire on goroutines of their own, and Stop or Reset does not take back *)
(* one that has started.                                                   *)
(*                                                                         *)
(* Time is relative: deadline and timer count the ticks that are left.     *)
(***************************************************************************)
EXTENDS Integers, VoiceWorker

CONSTANTS Timeout,      \* g.timeout in ticks, 250ms
          MaxCallbacks  \* bound: timer callbacks that have not got g.mu yet

ASSUME GuardAssumption == Timeout \in Nat \ {0} /\ MaxCallbacks \in Nat \ {0}

None == -1  \* no deadline, or a stopped timer

VARIABLES deadline,   \* g.deadline, in ticks from now
          timer,      \* g.timer, in ticks until it fires
          callbacks,  \* started expire(false) calls before g.mu.Lock
          watch,      \* the expire(true) call: "armed", "started", "over"
          tripped, stopped,
          closing,    \* expire calls between g.mu.Unlock and CloseWithError
          elapsed     \* history: ticks since the send in progress began

guard == <<deadline, timer, tripped, stopped>>
calls == <<callbacks, watch, closing>>
guardVars == <<guard, calls, elapsed>>

Ticks == 0 .. Timeout

GuardInit ==
    /\ deadline = None /\ timer = None
    /\ tripped = FALSE /\ stopped = FALSE
    /\ callbacks = 0 /\ watch = "armed" /\ closing = 0
    /\ elapsed = 0

-----------------------------------------------------------------------------
(* The worker *)

\* stop, deferred: an expire that runs later does nothing.
Stop ==
    /\ worker' = "done" /\ stopped' = TRUE
    /\ deadline' = None /\ timer' = None
    /\ watch' = IF watch = "armed" THEN "over" ELSE watch
    /\ UNCHANGED <<tripped, callbacks, closing, elapsed>>

\* Slip: the timer is not restarted for this send.
BeginNoReset ==
    /\ worker = "held"
    /\ ~stopped /\ ~tripped /\ open
    /\ worker' = "sending"
    /\ deadline' = Timeout /\ timer' = None
    /\ elapsed' = 0
    /\ UNCHANGED <<tripped, stopped, calls, open>>

\* A packet young enough to send arrives and begin allows it.
Begin ==
    /\ worker = "held"
    /\ ~stopped /\ ~tripped /\ open
    /\ worker' = "sending"
    /\ deadline' = Timeout /\ timer' = Timeout
    /\ elapsed' = 0
    /\ UNCHANGED <<tripped, stopped, calls, open>>

\* The packet waited for more than 100ms: the worker goes back for another.
DiscardStale ==
    /\ worker = "held"
    /\ worker' = "look"
    /\ UNCHANGED <<guardVars, open>>

\* begin refuses.
Refused ==
    /\ worker = "held"
    /\ tripped \/ ~open
    /\ Stop /\ open' = open

\* SendDatagram returns without an error and end lets the worker go on.
EndHealthy ==
    /\ worker = "sending" /\ ~tripped /\ open
    /\ worker' = "look"
    /\ deadline' = None /\ timer' = None
    /\ UNCHANGED <<tripped, stopped, calls, open, elapsed>>

\* SendDatagram fails, or end finds the guard tripped or the context done.
\* Only a failed send on a healthy connection closes it here.
EndBroken ==
    /\ worker = "sending"
    /\ Stop
    /\ open' = (open /\ tripped)

-----------------------------------------------------------------------------
(* Timers and callbacks *)

Tick ==
    /\ deadline > 0 \/ timer > 0 \/ (worker = "sending" /\ elapsed < Timeout)
    /\ deadline' = IF deadline > 0 THEN deadline - 1 ELSE deadline
    /\ timer' = IF timer > 0 THEN timer - 1 ELSE timer
    /\ elapsed' = IF worker = "sending" /\ elapsed < Timeout THEN elapsed + 1 ELSE elapsed
    /\ UNCHANGED <<worker, tripped, stopped, calls, open>>

TimerFires ==
    /\ timer = 0 /\ callbacks < MaxCallbacks
    /\ timer' = None /\ callbacks' = callbacks + 1
    /\ UNCHANGED <<worker, deadline, tripped, stopped, watch, closing, open, elapsed>>

\* context.AfterFunc starts its call once the context is done.
WatchFires ==
    /\ ~open /\ watch = "armed"
    /\ watch' = "started"
    /\ UNCHANGED <<worker, guard, callbacks, closing, open, elapsed>>

\* Slip: a callback trusts that the timer it was started by is still current.
ExpireTrustsTimer(cancelled) ==
    LET closeConn == ~stopped /\ ~tripped /\ deadline # None IN
    /\ tripped' = (tripped \/ closeConn)
    /\ closing' = IF closeConn THEN closing + 1 ELSE closing

\* expire under g.mu.
Expire(cancelled) ==
    LET closeConn == /\ ~stopped /\ ~tripped /\ deadline # None
                     /\ cancelled \/ deadline = 0 IN
    /\ tripped' = (tripped \/ closeConn)
    /\ closing' = IF closeConn THEN closing + 1 ELSE closing

TimerExpires ==
    /\ callbacks > 0
    /\ Expire(FALSE)
    /\ callbacks' = callbacks - 1
    /\ UNCHANGED <<worker, deadline, timer, stopped, watch, open, elapsed>>

WatchExpires ==
    /\ watch = "started"
    /\ Expire(TRUE)
    /\ watch' = "over"
    /\ UNCHANGED <<worker, deadline, timer, stopped, callbacks, open, elapsed>>

\* CloseWithError after g.mu.Unlock.
CloseConn ==
    /\ closing > 0
    /\ closing' = closing - 1
    /\ open' = FALSE
    /\ UNCHANGED <<worker, guard, callbacks, watch, elapsed>>

\* The peer leaves, the session ends, or the server stops.
ConnectionEnds ==
    /\ open
    /\ open' = FALSE
    /\ UNCHANGED <<worker, guard, calls, elapsed>>

-----------------------------------------------------------------------------
(* Properties *)

\* Every variable of the guard has its type; at most one callback decides to
\* close the connection.
GuardTypeOK ==
    /\ deadline \in Ticks \cup {None} /\ timer \in Ticks \cup {None}
    /\ callbacks \in 0 .. MaxCallbacks
    /\ watch \in {"armed", "started", "over"}
    /\ tripped \in BOOLEAN /\ stopped \in BOOLEAN
    /\ closing \in 0 .. 1
    /\ elapsed \in Ticks

\* "An old callback cannot close a healthy later send": the guard trips only
\* on a send that is still in progress and has itself used up its timeout, or
\* whose connection is already done.
OnlyStalledTrips ==
    [][~tripped /\ tripped' => worker = "sending" /\ (elapsed = Timeout \/ ~open)]_<<worker, open, guardVars>>
=============================================================================

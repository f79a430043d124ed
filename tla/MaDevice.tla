------------------------------- MODULE MaDevice -------------------------------
(***************************************************************************)
(* A miniaudio device on a backend without callbacks of its own (WASAPI,   *)
(* PulseAudio, ALSA): ma_worker_thread, and what ma_device_init, _start    *)
(* and _uninit do with its state and its three events.                     *)
(***************************************************************************)
EXTENDS Naturals

Devices == {"output", "input"}

VARIABLE dev  \* per device: state, thread, the events, workResult

\* An event holds at most one signal and gives it to one waiter.
Events == {"wakeup", "start", "stop"}

NoDevice == [state |-> "uninitialized", thread |-> "none", ok |-> TRUE,
             event |-> [e \in Events |-> FALSE]]

Thread(d, from, to) == dev[d].thread = from /\ dev' = [dev EXCEPT ![d].thread = to]

Goes(d, from, state, to, e) ==
    /\ dev[d].thread = from
    /\ dev' = [dev EXCEPT ![d].state = state, ![d].thread = to, ![d].event[e] = TRUE]

-----------------------------------------------------------------------------
(* ma_worker_thread *)

\* The thread reports to ma_device_init that it is ready.
Boot(d) == Goes(d, "boot", "stopped", "idle", "stop")

Wake(d) ==
    /\ dev[d].thread = "idle" /\ dev[d].event["wakeup"]
    /\ dev' = [dev EXCEPT ![d].thread = "woken", ![d].event["wakeup"] = FALSE, ![d].ok = TRUE]

Exit(d) == dev[d].state = "uninitialized" /\ Thread(d, "woken", "exited")

BackendStarts(d) ==
    /\ dev[d].state # "uninitialized"
    /\ Goes(d, "woken", "started", "loop", "start")

BackendFails(d) ==
    /\ dev[d].thread = "woken" /\ dev[d].state # "uninitialized"
    /\ dev' = [dev EXCEPT ![d].thread = "idle", ![d].ok = FALSE, ![d].event["start"] = TRUE]

\* The data loop looks at the state after every period.
LoopEnds(d) == dev[d].state # "started" /\ Thread(d, "loop", "stop")

\* The device was unplugged or the backend failed.
LoopBreaks(d) == Thread(d, "loop", "stop")

\* onDeviceStop; only a successful one is followed by the notification.
StopFails(d) == Thread(d, "stop", "check")

StopNotifies(d) == Thread(d, "stop", "check")

CheckEnds(d) == dev[d].state = "uninitialized" /\ Thread(d, "check", "exited")

CheckGoesOn(d) == dev[d].state # "uninitialized" /\ Thread(d, "check", "mark")

MarkStopped(d) == Goes(d, "mark", "stopped", "idle", "stop")

-----------------------------------------------------------------------------
(* The calls of the owner *)

Spawn(d) == dev' = [dev EXCEPT ![d].thread = "boot"]

\* ma_device_init returns once the thread is ready.
Ready(d) ==
    /\ dev[d].event["stop"]
    /\ dev' = [dev EXCEPT ![d].event["stop"] = FALSE, ![d].event["wakeup"] = TRUE,
                          ![d].state = "starting"]

\* ma_device_start returns the thread's result.
Started(d, good) ==
    /\ dev[d].event["start"] /\ dev[d].ok = good
    /\ dev' = [dev EXCEPT ![d].event["start"] = FALSE,
                          ![d].state = IF good THEN @ ELSE "stopped"]

\* Slip: the thread is not woken up.
UninitSilent(d) == dev' = [dev EXCEPT ![d].state = "uninitialized"]

Uninit(d) == dev' = [dev EXCEPT ![d].state = "uninitialized", ![d].event["wakeup"] = TRUE]

\* ma_thread_wait
Joined(d) == dev[d].thread = "exited"
=============================================================================

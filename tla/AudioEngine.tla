----------------------------- MODULE AudioEngine -----------------------------
(***************************************************************************)
(* client/src/audio/engine.rs: the core's tasks change a locked Gate and   *)
(* queue settings, one audio worker thread owns pipeline and device and    *)
(* takes the gate's lock between its slow steps.  The worker's steps are   *)
(* cut at those locks and at the opening of a device, which may block and  *)
(* may fail.  core.rs is modelled as far as it decides what the handle is  *)
(* told: one setting at a time, a route on every refresh.                  *)
(*                                                                         *)
(* A route is its generation (0: not connected, no channel) and epoch.  A  *)
(* captured frame carries the epoch the device had, and for the properties *)
(* the epoch the gate had.  Signal processing and playback are left out.   *)
(***************************************************************************)
EXTENDS Integers, Sequences

CONSTANTS Requests,      \* settings the user may ask for
          CommandSlots,  \* settings that may be queued: 8 in the code
          FramesPerTick, \* frames a tick takes at most: 8 in the code
          MaxSettings,   \* bound: operations before a setting is asked for
          MaxEvents      \* bound: requests, routes, keys, frames and faults together,
                         \*     besides the first connection

Configs == [enabled : BOOLEAN, muted : BOOLEAN, deafened : BOOLEAN, ptt : BOOLEAN, monitor : BOOLEAN]

ASSUME EngineAssumption ==
    /\ Requests \subseteq Configs /\ {MaxSettings, MaxEvents} \subseteq Nat
    /\ {CommandSlots, FramesPerTick} \subseteq Nat \ {0}

VARIABLES gate, operation, cancelled, \* Shared
          commands, token, reply,    \* the queue, the worker's unpark token, the answer
          core, ready, restore,      \* core.rs: the setting under way, ready_generation,
                                     \*     the setting a microphone test will restore
          leaving,                   \* stop_voice_and_disconnect has yet to close the device
          generation,                \* lifecycle: connections so far
          late,                      \* operations given up: Apply.cancelled, deadline
          worker, state,             \* the worker's place and locals; State
          pipeline, device, monitor, routeRevision, captureEpoch, transmitting,
          sent,                      \* history: the last packet handed to the session
          wanted,                    \* history: may the user expect to be heard
          events                     \* history: for the bound

shared == <<gate, operation, cancelled>>
callers == <<core, ready, restore, leaving, late, generation>>
owned == <<pipeline, device, monitor, routeRevision, captureEpoch, transmitting>>
history == <<wanted, events>>
vars == <<shared, commands, token, reply, callers, worker, state, owned, sent, history>>

Offline == [generation |-> 0, epoch |-> 0]

Silent == [enabled |-> FALSE, muted |-> TRUE, deafened |-> FALSE, ptt |-> FALSE, monitor |-> FALSE]

Live(c) == c.enabled /\ ~c.muted /\ ~c.monitor

NeedsDevice(c, m) == c.enabled /\ (m \/ ~c.muted \/ ~c.deafened)

None == [none |-> TRUE]   \* no pipeline, device, apply or restore

NoFrame == [n |-> 0, epoch |-> 0, recorded |-> 0]

NoReply == [op |-> 0, ok |-> FALSE]

Unset == -1   \* u64::MAX: differs from every revision

Idle == [at |-> "idle", request |-> Silent, generation |-> 0, before |-> 0,
         safe |-> FALSE, previous |-> Silent, restore |-> None, heard |-> FALSE]

\* The worker's place, nothing in hand: apply, where update_route returns to,
\* configure's retired and result, what was read of the gate, the frame, and
\* the frames of this tick.
At(place) == [at |-> place, apply |-> None, from |-> "loop", retired |-> FALSE, ok |-> TRUE,
              route |-> Offline, epoch |-> 0, revision |-> 0, pressed |-> FALSE,
              frame |-> NoFrame, packet |-> FALSE, taken |-> 0]

Init ==
    /\ gate = [epoch |-> 1, pressed |-> FALSE, enabled |-> FALSE, route |-> Offline,
               sender |-> FALSE, revision |-> 0]
    /\ operation = 0 /\ cancelled = FALSE
    /\ commands = <<>> /\ token = FALSE /\ reply = NoReply
    /\ core = Idle
    /\ ready = 0 /\ restore = None /\ leaving = FALSE /\ late = {}
    /\ worker = At("top")
    /\ state = [operation |-> 0, busy |-> FALSE, config |-> Silent]
    /\ pipeline = None /\ device = None /\ monitor = FALSE
    /\ routeRevision = Unset /\ captureEpoch = 0 /\ transmitting = FALSE
    /\ sent = NoFrame /\ wanted = FALSE
    /\ events = 0 /\ generation = 0

Event == events < MaxEvents /\ events' = events + 1

-----------------------------------------------------------------------------
(* Handle: route, ptt, configure, and Engine.stop *)

\* Handle.route; a change of scope or of the sender's presence closes the gate.
Routed(g, r, sender) ==
    LET changed == g.route # r \/ g.sender # sender IN
    [g EXCEPT !.route = r, !.sender = sender, !.revision = g.revision + 1,
              !.enabled = g.enabled /\ ~changed,
              !.epoch = IF changed THEN g.epoch + 1 ELSE g.epoch,
              !.pressed = g.pressed /\ ~changed]

\* App.refresh: the sender is handed over only for the generation that is ready.
Refreshed(g, r, readyNow, restoreNow) ==
    Routed(g, r, r.generation # 0 /\ readyNow = r.generation /\ restoreNow = None)

\* The connection's snapshot changed: moved, lost, connected, or other members.
Refresh(r) ==
    /\ core.at # "closed" /\ Event
    /\ gate' = Refreshed(gate, r, ready, restore) /\ token' = TRUE
    /\ wanted' = (wanted /\ r.generation = gate.route.generation)
    /\ UNCHANGED <<operation, cancelled, commands, reply, callers, worker, state, owned, sent>>

SameRoute == Refresh(gate.route)

Moved == gate.route # Offline /\ Refresh([gate.route EXCEPT !.epoch = @ + 1])

Lost == gate.route # Offline /\ Refresh(Offline)

\* stop_voice_and_disconnect: nothing is ready, a microphone test is forgotten,
\* the key is let go of and the route given up before the session ends ...
Disconnect ==
    LET g == IF gate.pressed THEN [gate EXCEPT !.pressed = FALSE, !.epoch = @ + 1] ELSE gate IN
    /\ core.at # "closed" /\ ~leaving /\ Event
    /\ ready' = 0 /\ restore' = None /\ leaving' = TRUE
    /\ gate' = Routed(g, Offline, FALSE) /\ token' = TRUE
    /\ wanted' = (wanted /\ gate.route.generation = 0)
    /\ UNCHANGED <<operation, cancelled, commands, reply, core, late, generation, worker, state,
                   owned, sent>>

\* ... and then, in its turn, closes the device.
Leave ==
    /\ core.at = "idle" /\ leaving /\ Event
    /\ leaving' = FALSE
    /\ core' = [Idle EXCEPT !.at = "configure", !.safe = TRUE,
                    !.request = [state.config EXCEPT !.enabled = FALSE, !.muted = TRUE],
                    !.generation = gate.route.generation]
    /\ UNCHANGED <<shared, commands, token, reply, ready, restore, late, generation, worker, state,
                   owned, sent, wanted>>

\* start_connected also forgets a microphone test.
Connected ==
    /\ gate.route = Offline /\ core.at # "closed" /\ ~leaving
    /\ IF generation = 0 THEN UNCHANGED events ELSE Event
    /\ generation' = generation + 1
    /\ gate' = Refreshed(gate, [generation |-> generation', epoch |-> 1], ready, restore)
    /\ token' = TRUE /\ wanted' = FALSE /\ restore' = None
    /\ UNCHANGED <<operation, cancelled, commands, reply, core, ready, leaving, late, worker, state, owned,
                   sent>>

\* Handle.ptt; an unchanged key only wakes the worker.
Ptt(pressed) ==
    /\ core.at # "closed" /\ gate.pressed # pressed /\ Event
    /\ gate' = [gate EXCEPT !.pressed = pressed, !.epoch = @ + 1]
    /\ token' = TRUE
    /\ UNCHANGED <<operation, cancelled, commands, reply, callers, worker, state, owned, sent, wanted>>

\* Engine.stop, after the core has let go of the key and the route and its
\* jobs are aborted.
Stop ==
    LET g == Routed([gate EXCEPT !.pressed = FALSE], Offline, FALSE) IN
    /\ core.at # "closed" /\ Event
    /\ core' = [Idle EXCEPT !.at = "closed"] /\ late' = 1 .. operation
    /\ cancelled' = TRUE /\ gate' = [g EXCEPT !.enabled = FALSE, !.epoch = @ + 1]
    /\ ready' = 0 /\ token' = TRUE
    /\ UNCHANGED <<operation, commands, reply, restore, leaving, generation, worker, state, owned,
                   sent, wanted>>

-----------------------------------------------------------------------------
(* core.rs configure, configure_locked and the microphone test *)

\* The sender is taken away before the server hears of the new setting.  During
\* a microphone test only another test, or its end, may be asked for.
Ask(c) ==
    /\ core.at = "idle" /\ operation < MaxSettings /\ Event
    /\ restore = None \/ c.monitor \/ c = restore
    /\ core' = [core EXCEPT !.at = IF gate.route = Offline THEN "configure" ELSE "asked",
                    !.request = c, !.generation = gate.route.generation, !.before = ready,
                    !.safe = FALSE, !.previous = state.config, !.restore = restore]
    /\ ready' = 0 /\ restore' = IF c.monitor /\ restore = None THEN state.config ELSE restore
    /\ gate' = Refreshed(gate, gate.route, 0, restore') /\ token' = TRUE
    /\ UNCHANGED <<operation, cancelled, commands, reply, leaving, late, generation, worker, state,
                   owned, sent, wanted>>

\* The core lets go of the setting and refreshes.
Settled(readyNow, restoreNow) ==
    /\ core' = Idle
    /\ ready' = readyNow /\ restore' = restoreNow
    /\ gate' = Refreshed(gate, gate.route, readyNow, restoreNow) /\ token' = TRUE

Here == core.generation = gate.route.generation

Unrestored == IF core.request.monitor THEN core.restore ELSE restore

\* The server took the voice state, refused it, or left it uncertain; then the
\* setting in force is applied muted.
ServerAnswers ==
    /\ core.at = "asked"
    /\ \/ Here /\ core' = [core EXCEPT !.at = "configure"]
          /\ UNCHANGED <<ready, restore, gate, token>>
       \/ Here /\ Settled(core.before, Unrestored)
       \/ Here /\ core' = [core EXCEPT !.at = "configure", !.safe = TRUE,
                               !.request = [core.previous EXCEPT !.muted = TRUE]]
          /\ restore' = Unrestored /\ UNCHANGED <<ready, gate, token>>
       \/ ~Here /\ core' = Idle
          /\ UNCHANGED <<ready, restore, gate, token>>
    /\ UNCHANGED <<operation, cancelled, commands, reply, leaving, late, generation, worker, state,
                   owned, sent, history>>

\* Handle.configure numbers the operation if the queue has room ...
Number ==
    /\ core.at = "configure"
    /\ IF Len(commands) < CommandSlots
       THEN operation' = operation + 1 /\ core' = [core EXCEPT !.at = "numbered"]
       ELSE core' = [core EXCEPT !.at = "failed"] /\ UNCHANGED operation
    /\ UNCHANGED <<gate, cancelled, commands, token, reply, ready, restore, leaving, late, generation,
                   worker, state, owned, sent, history>>

\* ... closes the gate, and queues the setting with the scope it is for.
Submit ==
    LET c == core.request IN
    /\ core.at = "numbered"
    /\ gate' = [gate EXCEPT !.enabled = FALSE, !.epoch = @ + 1,
                    !.pressed = @ /\ c.enabled /\ ~c.muted /\ c.ptt = state.config.ptt]
    /\ commands' = Append(commands, [op |-> operation, scope |-> gate.route, config |-> c])
    /\ token' = TRUE /\ core' = [core EXCEPT !.at = "waiting", !.heard = wanted]
    /\ wanted' = Live(c)
    /\ UNCHANGED <<operation, cancelled, reply, ready, restore, leaving, late, generation, worker, state,
                   owned, sent, events>>

\* The answer is in, or 15 s have passed; a success makes this generation ready.
Answered ==
    /\ core.at = "waiting" /\ reply.op = operation
    /\ reply' = NoReply
    /\ IF reply.ok /\ Here /\ ~core.safe
       THEN Settled(core.generation, IF core.request.monitor THEN restore ELSE None)
       ELSE core' = [core EXCEPT !.at = "failed"] /\ UNCHANGED <<ready, restore, gate, token>>
    /\ UNCHANGED <<operation, cancelled, commands, leaving, late, generation, worker, state, owned, sent,
                   history>>

TimesOut ==
    /\ core.at = "waiting" /\ Event
    /\ late' = late \cup {operation}
    /\ core' = [core EXCEPT !.at = "failed"]
    /\ UNCHANGED <<shared, commands, token, reply, ready, restore, leaving, generation, worker, state,
                   owned, sent, wanted>>

\* The server is told the previous state again; if it takes it, voice is ready.
\* A safe setting only refreshes; what belongs to an old generation is dropped.
RolledBack ==
    /\ core.at = "failed" /\ wanted' = (wanted \/ (Here /\ core.heard))
    /\ \/ Here /\ ~core.safe /\ Settled(core.generation, Unrestored)
       \/ Here /\ Settled(ready, Unrestored)
       \/ ~Here /\ core' = Idle
          /\ UNCHANGED <<ready, restore, gate, token>>
    /\ UNCHANGED <<operation, cancelled, commands, reply, leaving, late, generation, worker, state,
                   owned, sent, events>>

-----------------------------------------------------------------------------
(* Worker: apply and configure *)

\* Worker.current
Current(a) == ~cancelled /\ a.op \notin late /\ operation = a.op /\ gate.route = a.scope

Answer(a, ok) == reply' = IF a.op \in late THEN reply ELSE [op |-> a.op, ok |-> ok]

\* Worker.end: a last empty packet if speech was under way.
Ended == transmitting' = FALSE

\* Worker.fail
Fails ==
    /\ Ended /\ device' = None
    /\ state' = [state EXCEPT !.busy = FALSE]
    /\ gate' = [gate EXCEPT !.enabled = FALSE]
    /\ UNCHANGED <<operation, cancelled, commands, pipeline, monitor, routeRevision, captureEpoch>>

\* run takes the next setting; one that is no longer wanted is only answered.
TakeCommand ==
    LET a == Head(commands) IN
    /\ worker.at = "top" /\ commands # <<>>
    /\ commands' = Tail(commands)
    /\ IF Current(a)
       THEN /\ state' = [state EXCEPT !.operation = a.op, !.busy = TRUE]
            /\ worker' = [At("configure") EXCEPT !.apply = a]
            /\ UNCHANGED reply
       ELSE Answer(a, FALSE) /\ UNCHANGED <<state, worker>>
    /\ UNCHANGED <<shared, token, callers, owned, sent, history>>

Needed(c, r) == NeedsDevice(c, c.monitor) /\ (r # Offline \/ c.monitor)

Devices(c) == [c EXCEPT !.monitor = FALSE]   \* what same_devices compares

\* Worker.configure up to the opening of the device.  Other device IDs, which
\* the settings here leave out, make it open one whatever else is the same.
Configure ==
    LET c == worker.apply.config
        r == gate.route
        keep == /\ pipeline # None /\ Devices(pipeline.config) = Devices(c)
                /\ monitor = c.monitor /\ (device # None) = Needed(c, r)
    IN
    /\ worker.at = "configure"
    /\ \/ \* Pipeline::new or Pipeline.configure fails
          /\ Event
          /\ worker' = [worker EXCEPT !.at = "applied", !.ok = FALSE]
          /\ UNCHANGED owned
       \/ /\ Ended /\ device' = None
          /\ worker' = [worker EXCEPT !.at = "open", !.retired = TRUE, !.route = r]
          /\ UNCHANGED <<pipeline, monitor, routeRevision, captureEpoch, events>>
       \/ /\ keep
          /\ pipeline' = [pipeline EXCEPT !.config = c]
          /\ monitor' = c.monitor /\ routeRevision' = Unset
          /\ worker' = [worker EXCEPT !.at = "update", !.from = "configure"]
          /\ UNCHANGED <<device, captureEpoch, transmitting, events>>
    /\ UNCHANGED <<shared, commands, token, reply, callers, state, sent, wanted>>

Opened(epoch) == [epoch |-> epoch, frames |-> <<>>]

\* Slip: the old pipeline, and its setting, survives the new one.
OpenReturnsOldPipeline ==
    LET a == worker.apply IN
    /\ worker.at = "open" /\ Current(a)
    /\ device' = IF Needed(a.config, worker.route) THEN Opened(gate.epoch) ELSE None
    /\ pipeline' = IF pipeline = None THEN [config |-> a.config, route |-> worker.route] ELSE pipeline
    /\ monitor' = a.config.monitor /\ routeRevision' = Unset
    /\ worker' = [worker EXCEPT !.at = "update", !.from = "configure"]
    /\ UNCHANGED <<shared, commands, token, reply, callers, state, captureEpoch, transmitting, sent,
                   history>>

\* The device is open, or none is needed; the setting may be stale by now.  A
\* native call may swallow the unpark token.
OpenReturns ==
    LET a == worker.apply IN
    /\ worker.at = "open" /\ token' \in {token, FALSE}
    /\ IF Current(a)
       THEN /\ device' = IF Needed(a.config, worker.route) THEN Opened(gate.epoch) ELSE None
            /\ pipeline' = [config |-> a.config, route |-> worker.route]
            /\ monitor' = a.config.monitor /\ routeRevision' = Unset
            /\ worker' = [worker EXCEPT !.at = "update", !.from = "configure"]
       ELSE /\ worker' = [worker EXCEPT !.at = "applied", !.ok = FALSE]
            /\ UNCHANGED <<device, pipeline, monitor, routeRevision>>
    /\ UNCHANGED <<shared, commands, reply, callers, state, captureEpoch, transmitting, sent, history>>

OpenFails ==
    /\ worker.at = "open" /\ Needed(worker.apply.config, worker.route) /\ Event
    /\ worker' = [worker EXCEPT !.at = "applied", !.ok = FALSE]
    /\ UNCHANGED <<shared, commands, token, reply, callers, state, owned, sent, wanted>>

\* The rest of apply: the outcome counts only if the setting is still wanted.
Applied ==
    LET a == worker.apply
        done == worker' = At("top")
    IN
    /\ worker.at = "applied"
    /\ \/ /\ ~Current(a) \/ (~worker.ok /\ worker.retired)
          /\ Fails /\ Answer(a, FALSE) /\ done
       \/ /\ Current(a) /\ worker.ok
          /\ state' = [state EXCEPT !.busy = FALSE, !.config = Devices(a.config)]
          /\ Answer(a, TRUE) /\ done
          /\ UNCHANGED <<shared, commands, owned>>
       \/ /\ Current(a) /\ ~worker.ok /\ ~worker.retired
          /\ state' = [state EXCEPT !.busy = FALSE]
          /\ worker' = [worker EXCEPT !.at = "update", !.from = "repair"]
          /\ UNCHANGED <<shared, commands, reply, owned>>
    /\ UNCHANGED <<token, callers, sent, history>>

-----------------------------------------------------------------------------
(* Worker: update_route *)

\* A new generation starts muted; so does a change of scope under a test.
Entering(p, r) ==
    IF p.route.generation # r.generation \/ (p.route # r /\ monitor)
    THEN [p.config EXCEPT !.muted = TRUE] ELSE p.config

\* Where update_route is called; run does so when no setting is queued.
Updating ==
    \/ worker.at = "update"
    \/ worker.at = "top" /\ commands = <<>> /\ ~cancelled

\* The gate is read; a new revision moves the pipeline to the route read.
Update ==
    LET r == gate.route
        changed == pipeline.route # r
        config == Entering(pipeline, r)
        test == monitor /\ ~changed
        wants == NeedsDevice(config, test) /\ (r # Offline \/ test)
    IN
    /\ Updating
    /\ IF gate.revision = routeRevision \/ pipeline = None
       THEN /\ routeRevision' = gate.revision
            /\ worker' = [worker EXCEPT !.at = "enable", !.epoch = gate.epoch,
                              !.pressed = gate.pressed, !.revision = gate.revision]
            /\ UNCHANGED <<state, pipeline, device, monitor, captureEpoch, transmitting>>
       ELSE /\ pipeline' = [config |-> config, route |-> r]
            /\ state' = [state EXCEPT !.config.muted =
                             @ \/ pipeline.route.generation # r.generation \/ (changed /\ monitor)]
            /\ monitor' = test
            /\ device' = IF wants THEN device ELSE None
            /\ transmitting' = (transmitting /\ ~changed)
            /\ routeRevision' = IF wants /\ device = None THEN routeRevision ELSE gate.revision
            /\ worker' = [worker EXCEPT
                   !.at = IF wants /\ device = None THEN "reopen" ELSE "enable",
                   !.epoch = gate.epoch, !.pressed = gate.pressed, !.revision = gate.revision]
            /\ UNCHANGED captureEpoch
    /\ UNCHANGED <<shared, commands, token, reply, callers, sent, history>>

\* A slow open may have been overtaken by a newer scope: then it is dropped.
ReopenReturns ==
    /\ worker.at = "reopen" /\ token' \in {token, FALSE}
    /\ device' = IF cancelled \/ gate.route # pipeline.route THEN None ELSE Opened(worker.epoch)
    /\ routeRevision' = worker.revision
    /\ worker' = [worker EXCEPT !.at = "enable"]
    /\ UNCHANGED <<shared, commands, reply, callers, state, pipeline, monitor, captureEpoch,
                   transmitting, sent, history>>

ReopenFails ==
    /\ worker.at = "reopen" /\ Event
    /\ worker' = [worker EXCEPT !.at = "failing"]
    /\ UNCHANGED <<shared, commands, token, reply, callers, state, owned, sent, wanted>>

\* The encoder refuses the route's bitrate, before the pipeline moves there.
RouteFails ==
    LET entering == pipeline.route.generation # gate.route.generation IN
    /\ Updating /\ pipeline # None /\ gate.revision # routeRevision /\ Event
    /\ pipeline' = [pipeline EXCEPT !.config.muted = @ \/ entering]
    /\ state' = [state EXCEPT !.config.muted = @ \/ entering]
    /\ worker' = [worker EXCEPT !.at = "failing"]
    /\ UNCHANGED <<shared, commands, token, reply, callers, device, monitor, routeRevision,
                   captureEpoch, transmitting, sent, wanted>>

\* update_route failed: so does the apply, its repair, or this round of the loop.
UpdateFails ==
    /\ worker.at = "failing"
    /\ \/ /\ worker.from = "configure"
          /\ worker' = [worker EXCEPT !.at = "applied", !.ok = FALSE]
          /\ UNCHANGED <<shared, commands, reply, state, owned>>
       \/ /\ worker.from = "repair"
          /\ Fails /\ Answer(worker.apply, FALSE)
          /\ worker' = At("top")
       \/ /\ worker.from = "loop"
          /\ Fails /\ UNCHANGED reply
          /\ worker' = At("recheck")
    /\ UNCHANGED <<token, callers, sent, history>>

MayEnable ==
    /\ gate.revision = routeRevision /\ ~state.busy /\ ~cancelled
    /\ operation = state.operation

\* A new epoch reaches the device, and a key that is up ends the speech; the
\* last step of update_route opens or closes the gate.
Enable ==
    LET new == captureEpoch # worker.epoch IN
    /\ worker.at = "enable"
    /\ captureEpoch' = worker.epoch
    /\ device' = IF new /\ device # None THEN [device EXCEPT !.epoch = worker.epoch] ELSE device
    /\ transmitting' = (transmitting /\ ~(new /\ ~worker.pressed))
    /\ gate' = IF pipeline # None /\ MayEnable
               THEN [gate EXCEPT !.enabled = /\ device # None /\ ~monitor
                                             /\ pipeline.config.enabled /\ ~pipeline.config.muted]
               ELSE gate
    /\ \/ /\ worker.from = "configure"
          /\ worker' = [worker EXCEPT !.at = "applied", !.ok = TRUE] /\ UNCHANGED reply
       \/ /\ worker.from = "repair" /\ Answer(worker.apply, FALSE)
          /\ worker' = At("top")
       \/ /\ worker.from = "loop"
          /\ worker' = At("tick") /\ UNCHANGED reply
    /\ UNCHANGED <<operation, cancelled, commands, token, callers, state, pipeline, monitor,
                   routeRevision, sent, history>>

-----------------------------------------------------------------------------
(* Worker: tick_at and run *)

\* The device's input callback hands over a frame tagged with its epoch.
Captures ==
    /\ device # None /\ Event
    /\ device' = [device EXCEPT !.frames = Append(@, [n |-> events',
                      epoch |-> device.epoch, recorded |-> gate.epoch])]
    /\ UNCHANGED <<shared, commands, token, reply, callers, worker, state, pipeline, monitor,
                   routeRevision, captureEpoch, transmitting, sent, wanted>>

Frames == IF device = None THEN <<>> ELSE device.frames

\* The device is lost, or a step of the signal path reports an error.
TickFails ==
    /\ worker.at = "tick" /\ ~cancelled /\ device # None /\ Event
    /\ Fails /\ worker' = At("recheck")
    /\ UNCHANGED <<token, reply, callers, sent, wanted>>

Fresh(f) == f.epoch = captureEpoch /\ f.epoch = gate.epoch

\* A frame of another epoch, or too old, is dropped; the rest is processed and
\* encoded if the microphone is open and the key, where one is used, is down.
Capture ==
    LET f == Head(device.frames)
        c == pipeline.config
    IN
    /\ worker.at = "tick" /\ ~cancelled /\ Frames # <<>> /\ worker.taken < FramesPerTick
    /\ device' = [device EXCEPT !.frames = Tail(@)]
    /\ \/ worker' = [worker EXCEPT !.taken = @ + 1]
       \/ /\ Fresh(f)
          /\ worker' = [worker EXCEPT !.at = "encoded", !.frame = f, !.taken = @ + 1,
                 !.packet = c.enabled /\ ~c.muted /\ ~monitor /\ (c.ptt => gate.pressed)]
    /\ UNCHANGED <<shared, commands, token, reply, callers, state, pipeline, monitor, routeRevision,
                   captureEpoch, transmitting, sent, history>>

\* Slip: a gate that has been closed and opened again is taken for the same.
MaySendAnyEpoch == gate.enabled /\ gate.revision = routeRevision /\ ~cancelled

MaySend ==
    /\ gate.enabled /\ gate.epoch = worker.frame.epoch
    /\ gate.revision = routeRevision /\ ~cancelled

\* Under the lock: the packet is sent, or the speech ended, if nothing changed.
Send ==
    LET says == worker.packet /\ gate.sender IN
    /\ worker.at = "encoded"
    /\ IF MaySend /\ ~monitor
       THEN \/ /\ says /\ sent' = worker.frame /\ transmitting' = TRUE
            \/ /\ says /\ UNCHANGED <<sent, transmitting>>   \* send_scoped fails
            \/ /\ ~says /\ Ended /\ UNCHANGED sent
       ELSE UNCHANGED <<sent, transmitting>>
    /\ worker' = [At("tick") EXCEPT !.taken = worker.taken]
    /\ UNCHANGED <<shared, commands, token, reply, callers, state, pipeline, device, monitor,
                   routeRevision, captureEpoch, history>>

\* A tick is over when no frame is left, or enough are taken.
TickOver ==
    \/ worker.at = "recheck"
    \/ worker.at = "tick" /\ (cancelled \/ Frames = <<>> \/ worker.taken = FramesPerTick)

\* Slip: the token alone decides whether there is work.
RecheckTrustsToken ==
    /\ TickOver
    /\ worker' = At(IF cancelled THEN "done" ELSE IF device # None THEN "nap" ELSE "park")
    /\ UNCHANGED <<shared, commands, token, reply, callers, state, owned, sent, history>>

\* Persistent work is looked for before the worker waits for the token.
Recheck ==
    LET work == commands # <<>> \/ gate.revision # routeRevision \/ gate.epoch # captureEpoch IN
    /\ TickOver
    /\ worker' = At(IF cancelled THEN "done" ELSE IF work THEN "top"
                    ELSE IF device # None THEN "nap" ELSE "park")
    /\ UNCHANGED <<shared, commands, token, reply, callers, state, owned, sent, history>>

\* Without a device the worker sleeps until the token; with one, 20 ms at most.
Wakes ==
    /\ worker.at = "nap" \/ (worker.at = "park" /\ token)
    /\ token' = FALSE /\ worker' = [worker EXCEPT !.at = "top"]
    /\ UNCHANGED <<shared, commands, reply, callers, state, owned, sent, history>>

Finish ==
    /\ worker.at = "done" \/ (worker.at = "top" /\ commands = <<>> /\ cancelled)
    /\ worker' = At("ended")
    /\ Ended /\ device' = None /\ state' = [state EXCEPT !.busy = FALSE]
    /\ UNCHANGED <<shared, commands, token, reply, callers, pipeline, monitor, routeRevision,
                   captureEpoch, sent, history>>

-----------------------------------------------------------------------------
Core ==
    \/ SameRoute \/ Moved \/ Lost \/ Connected \/ Disconnect \/ Leave \/ Stop
    \/ \E pressed \in BOOLEAN : Ptt(pressed)
    \/ \E c \in Requests \cup ({restore} \ {None}) : Ask(c)
    \/ ServerAnswers \/ Number \/ Submit \/ Answered \/ TimesOut \/ RolledBack

Works ==
    \/ TakeCommand \/ Configure \/ OpenReturns \/ OpenFails \/ Applied
    \/ Update \/ RouteFails \/ ReopenReturns \/ ReopenFails \/ UpdateFails \/ Enable
    \/ TickFails \/ Capture \/ Send \/ Recheck \/ Wakes \/ Finish

Next == Core \/ Works \/ Captures

Spec == Init /\ [][Next]_vars

-----------------------------------------------------------------------------
(* Properties *)

\* Every variable has its type, and the queue of settings keeps its limit.
TypeOK ==
    /\ gate.pressed \in BOOLEAN /\ gate.enabled \in BOOLEAN /\ gate.sender \in BOOLEAN
    /\ Len(commands) <= CommandSlots /\ late \subseteq 1 .. operation
    /\ state.config \in Configs /\ state.operation \in 0 .. operation
    /\ pipeline = None \/ pipeline.config \in Configs
    /\ sent.n \in 0 .. MaxEvents /\ ready \in 0 .. generation

\* What is handed to the session was recorded since the last thing that closed
\* the gate (a setting, a key, a move, a disconnection): of this epoch, for
\* this route, and in push-to-talk with the key still down.  The frame passed
\* through the device's queue, the worker and the encoder meanwhile.
SendsOnlyPresent ==
    [][sent' # sent => /\ sent'.recorded = gate.epoch
                       /\ pipeline.route = gate.route
                       /\ pipeline.config.ptt => gate.pressed]_vars

\* Nothing is sent unless the last setting submitted in this generation opens
\* the microphone, or failed where one before it had opened it: no setting that
\* was overtaken, no reopened device and no new connection opens it by itself.
\* The last setting itself may open it after it has timed out (ShownAsSent).
HeardOnlyIfWanted == [][sent' # sent => wanted]_vars

\* "Recheck persistent work before the indefinite idle wait": the worker never
\* sleeps without a token while a setting, a route or an epoch waits for it,
\* although opening a device may swallow the token.
AsleepOnlyIfIdle ==
    worker.at = "park" /\ ~token =>
        /\ commands = <<>> /\ ~cancelled
        /\ gate.revision = routeRevision /\ gate.epoch = captureEpoch

\* docs/product.md: what completes late or was cancelled cannot open the
\* microphone; nothing is sent while the published state says muted.
ShownAsSent == [][sent' # sent => ~state.config.muted]_vars
=============================================================================

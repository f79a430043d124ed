----------------------------- MODULE AudioDevice -----------------------------
(***************************************************************************)
(* native/client-audio/device.c: the audio worker of the Rust client and   *)
(* the callbacks of two miniaudio devices share four rings, two discard    *)
(* boundaries and a capture epoch.  Each device calls back on its own      *)
(* thread; the worker opens, feeds, drains and closes.  A sample is its    *)
(* number in the stream written to a ring; a captured sample is the epoch  *)
(* the callback loaded for it.  Gains, mixing and clocks are left out.     *)
(***************************************************************************)
EXTENDS MaRing, MaDevice

CONSTANTS Periods,   \* frames a device may ask for or deliver at once
          MaxCalls,  \* bound: calls of the worker and callbacks
          MaxBoth    \* bound: the same while both devices are open

ASSUME DeviceAssumption ==
    Periods \subseteq Nat \ {0} /\ MaxCalls \in Nat /\ MaxBoth \in 0 .. MaxCalls

VARIABLES written,   \* worker: samples written to each output ring
          consumed,  \* output callback: samples taken from each output ring
          discard,   \* shared: discard up to here
          epoch, failed, closing,
          broke,     \* history: a device has stopped by itself
          pending,   \* input callback: the frame being filled
          worker,    \* worker: what it is doing, and with what
          cb,        \* per device: the callback in progress
          calls      \* history: for the bound

counters == <<written, consumed, discard>>
flags == <<epoch, failed, closing, broke>>
vars == <<rb, xfer, dev, counters, flags, pending, worker, cb, calls>>

Silence == 0

Idle == [at |-> "idle", on |-> "playback", devices |-> {}]

NoCallback == [at |-> "none", ring |-> "playback", frames |-> 0, left |-> 0, until |-> 0]

Init ==
    /\ RingInit /\ xfer = [t \in Threads |-> NoXfer]
    /\ dev = [d \in Devices |-> NoDevice]
    /\ written = [o \in Outputs |-> 0] /\ consumed = written /\ discard = written
    /\ epoch = 0 /\ failed = FALSE /\ closing = FALSE /\ broke = FALSE
    /\ pending = [epoch |-> 0, samples |-> <<>>]
    /\ worker = [Idle EXCEPT !.at = "new"]
    /\ cb = [d \in Devices |-> NoCallback] /\ calls = 0

Both == \A d \in Devices : dev[d].thread # "none"

Call == calls < (IF Both THEN MaxBoth ELSE MaxCalls) /\ calls' = calls + 1

-----------------------------------------------------------------------------
(* Opening: ra_device_open, open_device *)

\* The rings and the context are ready, or one of them fails.
Open(wanted) ==
    /\ worker.at = "new"
    /\ \/ worker' = [worker EXCEPT !.at = "open", !.devices = wanted]
       \/ worker' = [worker EXCEPT !.at = "close"]
    /\ UNCHANGED <<rb, xfer, dev, counters, flags, pending, cb, calls>>

\* The output is opened before the input.
Opens(d) ==
    /\ worker.at = "open" /\ d \in worker.devices /\ dev[d].thread = "none"
    /\ d = "input" => "output" \notin worker.devices \/ dev["output"].thread # "none"

OpenDevice(d) ==
    /\ Opens(d)
    /\ Spawn(d) /\ worker' = [worker EXCEPT !.at = "init", !.on = d]
    /\ UNCHANGED <<rb, xfer, counters, flags, pending, cb, calls>>

\* No such device, or ma_device_init fails.
OpenDeviceFails(d) ==
    /\ Opens(d)
    /\ worker' = [worker EXCEPT !.at = "close"]
    /\ UNCHANGED <<rb, xfer, dev, counters, flags, pending, cb, calls>>

DeviceReady(d) ==
    /\ worker.at = "init" /\ worker.on = d
    /\ Ready(d) /\ worker' = [worker EXCEPT !.at = "start"]
    /\ UNCHANGED <<rb, xfer, counters, flags, pending, cb, calls>>

DeviceStarted(d, good) ==
    /\ worker.at = "start" /\ worker.on = d
    /\ Started(d, good)
    /\ worker' = [worker EXCEPT !.at = IF good THEN "open" ELSE "close"]
    /\ UNCHANGED <<rb, xfer, counters, flags, pending, cb, calls>>

Opened ==
    /\ worker.at = "open" /\ \A d \in worker.devices : dev[d].thread # "none"
    /\ worker' = Idle
    /\ UNCHANGED <<rb, xfer, dev, counters, flags, pending, cb, calls>>

-----------------------------------------------------------------------------
(* The worker's calls *)

RingStep(t) ==
    /\ Acquire(t) \/ CommitRead(t) \/ CommitWrite(t)
    /\ UNCHANGED <<dev, counters, flags, pending, worker, cb, calls>>

Transfer(at, r, x) ==
    /\ worker.at = "idle" /\ Call
    /\ worker' = [Idle EXCEPT !.at = at, !.on = r]
    /\ xfer' = [xfer EXCEPT !["worker"] = x]
    /\ UNCHANGED <<rb, dev, counters, flags, pending, cb>>

Write(o) == Transfer("write", o, Writing(o, [i \in 1 .. Frame |-> written[o] + i]))

\* Slip: a frame counts as written although the ring took only a part of it.
WriteReturnsWhole ==
    /\ worker.at = "write" /\ Finished("worker")
    /\ written' = [written EXCEPT ![worker.on] = @ + Frame]
    /\ xfer' = [xfer EXCEPT !["worker"] = NoXfer] /\ worker' = Idle
    /\ UNCHANGED <<rb, dev, consumed, discard, flags, pending, cb, calls>>

\* ra_device_write counts what the ring took.
WriteReturns ==
    /\ worker.at = "write" /\ Finished("worker")
    /\ written' = [written EXCEPT ![worker.on] = @ + xfer["worker"].done]
    /\ xfer' = [xfer EXCEPT !["worker"] = NoXfer] /\ worker' = Idle
    /\ UNCHANGED <<rb, dev, consumed, discard, flags, pending, cb, calls>>

Reference == Transfer("read", "reference", Reading("reference", Frame))

Capture == Transfer("read", "capture", Reading("capture", 1))

ReadReturns ==
    /\ worker.at = "read" /\ Finished("worker")
    /\ xfer' = [xfer EXCEPT !["worker"] = NoXfer] /\ worker' = Idle
    /\ UNCHANGED <<rb, dev, counters, flags, pending, cb, calls>>

\* ra_device_discard publishes the boundary of playback, then of monitor.
Discard ==
    /\ \/ worker.at = "idle" /\ Call
          /\ discard' = [discard EXCEPT !["playback"] = written["playback"]]
          /\ worker' = [Idle EXCEPT !.at = "discard"]
       \/ worker.at = "discard" /\ calls' = calls
          /\ discard' = [discard EXCEPT !["monitor"] = written["monitor"]]
          /\ worker' = Idle
    /\ UNCHANGED <<rb, xfer, dev, written, consumed, flags, pending, cb>>

SetEpoch ==
    /\ worker.at = "idle" /\ Call
    /\ epoch' = epoch + 1
    /\ UNCHANGED <<rb, xfer, dev, counters, failed, closing, broke, pending, worker, cb>>

-----------------------------------------------------------------------------
(* The output callback *)

Output == cb["output"]

OutputStarts(frames) ==
    /\ Call /\ Thread("output", "loop", "callback")
    /\ cb' = [cb EXCEPT !["output"] = [at |-> "load", ring |-> "playback",
                  frames |-> frames, left |-> frames, until |-> 0]]
    /\ UNCHANGED <<rb, xfer, counters, flags, pending, worker>>

\* output_read loads the boundary once and drops what lies before it ...
LoadBoundary ==
    LET o == Output.ring IN
    /\ Output.at = "load"
    /\ cb' = [cb EXCEPT !["output"].at = "skip", !["output"].until = discard[o]]
    /\ xfer' = [xfer EXCEPT !["output"] =
           Reading(o, IF consumed[o] < discard[o] THEN discard[o] - consumed[o] ELSE 0)]
    /\ UNCHANGED <<rb, dev, counters, flags, pending, worker, calls>>

\* Slip: what was dropped is not counted as consumed.
SkippedUncounted ==
    /\ Output.at = "skip" /\ Finished("output")
    /\ cb' = [cb EXCEPT !["output"].at = "play"]
    /\ xfer' = [xfer EXCEPT !["output"] = Reading(Output.ring, Least(Frame, Output.left))]
    /\ UNCHANGED <<rb, dev, counters, flags, pending, worker, calls>>

\* ... and then plays: all frames of playback, at most RA_FRAME of monitor.
Skipped ==
    LET o == Output.ring IN
    /\ Output.at = "skip" /\ Finished("output")
    /\ consumed' = [consumed EXCEPT ![o] = @ + xfer["output"].done]
    /\ cb' = [cb EXCEPT !["output"].at = "play"]
    /\ xfer' = [xfer EXCEPT !["output"] =
           Reading(o, IF o = "playback" THEN Output.left ELSE Least(Frame, Output.left))]
    /\ UNCHANGED <<rb, dev, written, discard, flags, pending, worker, calls>>

Played(o) ==
    /\ Output.at = "play" /\ Output.ring = o /\ Finished("output")
    /\ consumed' = [consumed EXCEPT ![o] = @ + xfer["output"].done]
    /\ UNCHANGED <<rb, written, discard, flags, pending, worker, calls>>

\* The echo canceller's reference is what playback gave, filled with silence.
PlayedPlayback ==
    LET x == xfer["output"] IN
    /\ Played("playback")
    /\ xfer' = [xfer EXCEPT !["output"] = Writing("reference",
           [i \in 1 .. Output.frames |-> IF i <= x.done THEN x.data[i] ELSE Silence])]
    /\ cb' = [cb EXCEPT !["output"].at = "reference"]
    /\ dev' = dev

Referenced ==
    /\ Output.at = "reference" /\ Finished("output")
    /\ xfer' = [xfer EXCEPT !["output"] = NoXfer]
    /\ cb' = [cb EXCEPT !["output"].at = "load", !["output"].ring = "monitor"]
    /\ UNCHANGED <<rb, dev, counters, flags, pending, worker, calls>>

\* The monitor is mixed in piece by piece; then the callback returns.
PlayedMonitor ==
    LET left == Output.left - xfer["output"].want IN
    /\ Played("monitor")
    /\ xfer' = [xfer EXCEPT !["output"] = NoXfer]
    /\ IF left > 0
       THEN cb' = [cb EXCEPT !["output"].at = "load", !["output"].left = left] /\ dev' = dev
       ELSE cb' = [cb EXCEPT !["output"] = NoCallback] /\ Thread("output", "callback", "loop")

-----------------------------------------------------------------------------
(* The input callback *)

Input == cb["input"]

InputStarts(frames) ==
    /\ Call /\ Thread("input", "loop", "callback")
    /\ cb' = [cb EXCEPT !["input"] = [NoCallback EXCEPT !.at = "copy", !.left = frames]]
    /\ UNCHANGED <<rb, xfer, counters, flags, pending, worker>>

\* Slip: a new epoch is noted, but the samples of the old one stay.
FillKeepsSamples(n) == [epoch |-> epoch, samples |-> pending.samples \o [i \in 1 .. n |-> epoch]]

\* The epoch is loaded for every piece; a new one starts the frame again.
Fill(n) ==
    [epoch |-> epoch,
     samples |-> (IF pending.epoch = epoch THEN pending.samples ELSE <<>>)
                     \o [i \in 1 .. n |-> epoch]]

InputCopies ==
    LET have == IF pending.epoch = epoch THEN Len(pending.samples) ELSE 0
        n == Least(Frame - have, Input.left)
        full == have + n = Frame
    IN
    /\ Input.at = "copy" /\ Input.left > 0
    /\ pending' = Fill(n)
    /\ cb' = [cb EXCEPT !["input"].left = @ - n, !["input"].at = IF full THEN "push" ELSE "copy"]
    /\ xfer' = IF full THEN [xfer EXCEPT !["input"] = Writing("capture", <<pending'>>)] ELSE xfer
    /\ UNCHANGED <<rb, dev, counters, flags, worker, calls>>

\* The frame is in the ring, or there was no room and it is dropped.
InputPushed ==
    /\ Input.at = "push" /\ Finished("input")
    /\ pending' = [pending EXCEPT !.samples = <<>>]
    /\ cb' = [cb EXCEPT !["input"].at = "copy"]
    /\ xfer' = [xfer EXCEPT !["input"] = NoXfer]
    /\ UNCHANGED <<rb, dev, counters, flags, worker, calls>>

InputReturns ==
    /\ Input.at = "copy" /\ Input.left = 0
    /\ cb' = [cb EXCEPT !["input"] = NoCallback] /\ Thread("input", "callback", "loop")
    /\ UNCHANGED <<rb, xfer, counters, flags, pending, worker, calls>>

-----------------------------------------------------------------------------
(* The device threads outside their callbacks *)

\* notification_callback
Notified(d) ==
    /\ StopNotifies(d)
    /\ failed' = (failed \/ ~closing)
    /\ UNCHANGED <<epoch, closing, broke>>

Breaks(d) ==
    /\ LoopBreaks(d)
    /\ broke' = TRUE
    /\ UNCHANGED <<epoch, failed, closing>>

ThreadRuns(d) ==
    /\ \/ Boot(d) \/ Wake(d) \/ Exit(d) \/ BackendStarts(d) \/ BackendFails(d)
       \/ LoopEnds(d) \/ StopFails(d)
       \/ CheckEnds(d) \/ CheckGoesOn(d) \/ MarkStopped(d)
    /\ UNCHANGED flags

DeviceStep(d) ==
    /\ ThreadRuns(d) \/ Notified(d) \/ Breaks(d)
    /\ UNCHANGED <<rb, xfer, counters, pending, worker, cb, calls>>

-----------------------------------------------------------------------------
(* Closing: ra_device_close, also the way out of a failed open *)

CloseCalled ==
    /\ worker.at = "idle"
    /\ worker' = [Idle EXCEPT !.at = "close"]
    /\ UNCHANGED <<rb, xfer, dev, counters, flags, pending, cb, calls>>

\* Slip: a device that stops because it is closed is reported as lost.
CloseBeginsUnmarked ==
    /\ worker.at = "close"
    /\ worker' = [worker EXCEPT !.at = "uninit"]
    /\ UNCHANGED <<rb, xfer, dev, counters, flags, pending, cb, calls>>

CloseBegins ==
    /\ worker.at = "close"
    /\ closing' = TRUE /\ worker' = [worker EXCEPT !.at = "uninit"]
    /\ UNCHANGED <<rb, xfer, dev, counters, epoch, failed, broke, pending, cb, calls>>

Live(d) == dev[d].thread \notin {"none", "exited"}

\* The input goes first.
UninitDevice(d) ==
    /\ worker.at = "uninit" /\ Live(d) /\ (d = "output" => ~Live("input"))
    /\ Uninit(d) /\ worker' = [worker EXCEPT !.at = "join", !.on = d]
    /\ UNCHANGED <<rb, xfer, counters, flags, pending, cb, calls>>

JoinDevice(d) ==
    /\ worker.at = "join" /\ worker.on = d /\ Joined(d)
    /\ worker' = [worker EXCEPT !.at = "uninit"]
    /\ UNCHANGED <<rb, xfer, dev, counters, flags, pending, cb, calls>>

Free ==
    /\ worker.at = "uninit" /\ \A d \in Devices : ~Live(d)
    /\ worker' = [worker EXCEPT !.at = "freed"]
    /\ UNCHANGED <<rb, xfer, dev, counters, flags, pending, cb, calls>>

-----------------------------------------------------------------------------
Opening ==
    \/ \E wanted \in SUBSET Devices \ {{}} : Open(wanted)
    \/ \E d \in Devices : OpenDevice(d) \/ OpenDeviceFails(d) \/ DeviceReady(d)
    \/ \E d \in Devices, good \in BOOLEAN : DeviceStarted(d, good)
    \/ Opened

Working ==
    \/ \E o \in Outputs : Write(o)
    \/ WriteReturns \/ Reference \/ Capture \/ ReadReturns \/ Discard \/ SetEpoch

OutputRuns == LoadBoundary \/ Skipped \/ PlayedPlayback \/ Referenced \/ PlayedMonitor

InputRuns == InputCopies \/ InputPushed \/ InputReturns

Closing ==
    \/ CloseCalled \/ CloseBegins \/ Free
    \/ \E d \in Devices : UninitDevice(d) \/ JoinDevice(d)

Next ==
    \/ Opening \/ Working \/ Closing
    \/ \E f \in Periods : OutputStarts(f) \/ InputStarts(f)
    \/ OutputRuns \/ InputRuns
    \/ \E t \in Threads : RingStep(t)
    \/ \E d \in Devices : DeviceStep(d)

Spec == Init /\ [][Next]_vars

\* The worker gets on with what it has begun, callbacks return and device
\* threads run; a device need not break, and no call need be made.
FairSpec ==
    /\ Spec
    /\ WF_vars(WriteReturns \/ ReadReturns \/ (worker.at = "discard" /\ Discard))
    /\ WF_vars(Opening /\ worker.at # "new")
    /\ WF_vars(worker.at # "idle" /\ Closing)
    /\ WF_vars(OutputRuns) /\ WF_vars(InputRuns)
    /\ \A t \in Threads : WF_vars(RingStep(t))
    /\ \A d \in Devices : WF_vars((ThreadRuns(d) \/ Notified(d)) /\ DeviceStep(d))

-----------------------------------------------------------------------------
(* Properties *)

Samples == 0 .. Frame * MaxCalls

Cursors(r) == [off : 0 .. Size(r) - 1, loop : BOOLEAN]

\* Every variable has its type: offsets stay inside their buffers, and a
\* frame in the making never outgrows RA_FRAME.
TypeOK ==
    /\ \A r \in Rings : rb[r].read \in Cursors(r) /\ rb[r].write \in Cursors(r)
    /\ \A t \in Threads : xfer[t].done + xfer[t].n <= xfer[t].want
    /\ counters \in [Outputs -> Samples] \X [Outputs -> Samples] \X [Outputs -> Samples]
    /\ epoch \in 0 .. MaxCalls /\ failed \in BOOLEAN /\ closing \in BOOLEAN
    /\ Len(pending.samples) <= Frame /\ calls \in 0 .. MaxCalls

\* "Only the callback advances read cursors. A route change publishes the last
\* producer position to discard": what output_read plays lies behind the
\* boundary it loaded, and is the stream of that ring without a gap or a
\* repetition, through partial periods, partial writes and wrap-around.
OutputExact ==
    Output.at = "play" =>
        /\ consumed[Output.ring] >= Output.until
        /\ xfer["output"].data = [i \in 1 .. xfer["output"].done |-> consumed[Output.ring] + i]

\* A captured frame holds samples of one epoch only, the one it carries, even
\* when the worker sets a new epoch in the middle of a callback.
OneEpochFrames ==
    \A i \in DOMAIN rb["capture"].last :
        LET frame == rb["capture"].last[i] IN
        /\ Len(frame.samples) = Frame
        /\ \A k \in DOMAIN frame.samples : frame.samples[k] = frame.epoch

\* Only a device that stopped by itself is reported as lost: stopping it in
\* ra_device_close, also after half an open, reports nothing.
FailedMeansLost == failed => broke

\* ra_device_close returns, with callbacks and threads at any point, unless a
\* device that was stopping by itself overwrites the state ma_device_uninit
\* has just set.
CloseReturns ==
    closing ~> \/ worker.at = "freed"
               \/ \E d \in Devices : worker.at = "join" /\ worker.on = d /\ Live(d)
                                    /\ dev[d].state # "uninitialized"
=============================================================================

-------------------------- MODULE AudioDeviceProofs --------------------------
(***************************************************************************)
(* Proofs about the audio device and its rings for any frame size, ring    *)
(* capacity, callback periods and number of calls.                         *)
(***************************************************************************)
EXTENDS AudioDevice, SequenceTheorems, TLAPS

Modes == {"uninitialized", "stopped", "starting", "started"}

Stations == {"none", "boot", "idle", "woken", "loop", "callback", "stop", "check", "mark", "exited"}

DeviceStates ==
    [state : Modes, thread : Stations, ok : BOOLEAN, event : [Events -> BOOLEAN]]

Places == {"new", "open", "init", "start", "idle", "write", "read", "discard", "close", "uninit",
           "join", "freed"}

WorkerStates == [at : Places, on : Rings \cup Devices, devices : SUBSET Devices]

(* Until the devices are closed: a thread that runs its data loop has been *)
(* started, and one that is stopping has stopped by itself; a thread that  *)
(* was not asked to run is not woken up, and a device that could not be    *)
(* started waits for nothing.                                              *)
DeviceInv(d) ==
    ~closing =>
        /\ dev[d].thread \in {"loop", "callback"} => dev[d].state = "started"
        /\ dev[d].thread \in {"stop", "check", "mark"} => broke
        /\ dev[d].thread \in {"none", "boot", "woken"} => ~dev[d].event["wakeup"]
        /\ dev[d].thread \in {"none", "boot"} => dev[d].ok /\ ~dev[d].event["stop"]
        /\ ~dev[d].ok => dev[d].thread = "idle" /\ ~dev[d].event["wakeup"]
        /\ worker.at = "init" /\ worker.on = d =>
              dev[d].thread \in {"boot", "idle"} /\ dev[d].ok /\ ~dev[d].event["wakeup"]

ThreadType ==
    /\ dev \in [Devices -> DeviceStates] /\ worker \in WorkerStates
    /\ failed \in BOOLEAN /\ closing \in BOOLEAN /\ broke \in BOOLEAN

ThreadInv ==
    /\ ThreadType
    /\ worker.at \in {"uninit", "join", "freed"} => closing
    /\ \A d \in Devices : DeviceInv(d)
    /\ FailedMeansLost

-----------------------------------------------------------------------------
Frames == [epoch : Nat, samples : Seq(Nat)]

Values == Nat \cup Frames

RingStates(r) ==
    [read : Cursors(r), write : Cursors(r), last : Seq(Values), mem : [0 .. Size(r) - 1 -> Values]]

Transfers == [kind : {"none", "read", "write"}, ring : Rings, want : Nat, done : Nat, n : Nat,
              data : Seq(Values)]

Callbacks == [at : {"none", "load", "skip", "play", "reference", "copy", "push"}, ring : Outputs,
              frames : Nat, left : Nat, until : Nat]

(* One thread reads a ring and one writes it.                              *)
Reader(r) == IF r \in Outputs THEN "output" ELSE "worker"

Writer(r) == IF r \in Outputs THEN "worker" ELSE IF r = "reference" THEN "output" ELSE "input"

(* The reader does not pass the writer, nor the writer the reader a round  *)
(* ahead.                                                                  *)
Ordered(q) ==
    IF q.read.loop = q.write.loop THEN q.read.off <= q.write.off ELSE q.write.off <= q.read.off

(* A thread holds no more than was available when it acquired.             *)
HoldInv(t) ==
    LET x == xfer[t] IN
    /\ x.done + x.n <= x.want
    /\ x.kind = "none" => x = NoXfer
    /\ x.kind = "read" => t = Reader(x.ring) /\ Len(x.data) = x.done
    /\ x.kind = "write" => t = Writer(x.ring) /\ Len(x.data) = x.want
    /\ x.n > 0 => x.n <= Available(x)

(* A thread transfers what its place says, and a callback runs on the      *)
(* thread of its device.                                                   *)
WorkerPlace ==
    IF worker.at = "write"
    THEN xfer["worker"].kind = "write" /\ xfer["worker"].ring = worker.on /\ worker.on \in Outputs
    ELSE IF worker.at = "read" THEN xfer["worker"].kind = "read"
    ELSE xfer["worker"] = NoXfer

OutputPlace ==
    /\ Output.at \in {"none", "load", "skip", "play", "reference"}
    /\ IF Output.at \in {"skip", "play"}
       THEN xfer["output"].kind = "read" /\ xfer["output"].ring = Output.ring
       ELSE IF Output.at = "reference"
       THEN xfer["output"].kind = "write" /\ xfer["output"].ring = "reference"
       ELSE xfer["output"] = NoXfer

InputPlace ==
    /\ Input.at \in {"none", "copy", "push"}
    /\ IF Input.at = "push"
       THEN xfer["input"].kind = "write" /\ xfer["input"].ring = "capture"
       ELSE xfer["input"] = NoXfer

CallbackPlace == \A d \in Devices : cb[d].at # "none" => dev[d].thread = "callback"

PlaceInv == WorkerPlace /\ OutputPlace /\ InputPlace /\ CallbackPlace

BufferInv ==
    /\ rb = [r \in Rings |-> rb[r]] /\ \A r \in Rings : rb[r] \in RingStates(r) /\ Ordered(rb[r])
    /\ xfer \in [Threads -> Transfers] /\ \A t \in Threads : HoldInv(t)

CounterType ==
    /\ cb \in [Devices -> Callbacks] /\ pending \in Frames /\ epoch \in Nat
    /\ written \in [Outputs -> Nat] /\ consumed \in [Outputs -> Nat] /\ discard \in [Outputs -> Nat]
    /\ Len(pending.samples) <= Frame
    /\ Input.at # "push" => Len(pending.samples) < Frame

RingInv == BufferInv /\ PlaceInv /\ CounterType

-----------------------------------------------------------------------------
(* The i-th item a ring holds, the oldest being the first.                 *)
Item(r, i) == rb[r].mem[(rb[r].read.off + i - 1) % Size(r)]

OfOneEpoch(f) ==
    /\ f \in Frames /\ \A k \in 1 .. Len(f.samples) : f.samples[k] = f.epoch

Whole(f) == OfOneEpoch(f) /\ Len(f.samples) = Frame

(* Every captured frame, from the one being filled to the one read last,   *)
(* is of one epoch.                                                        *)
CaptureInv ==
    /\ OfOneEpoch(pending)
    /\ xfer["input"].kind = "write" => \A k \in 1 .. Len(xfer["input"].data) : Whole(xfer["input"].data[k])
    /\ \A i \in 1 .. Distance("capture") : Whole(Item("capture", i))
    /\ \A i \in 1 .. Len(rb["capture"].last) : Whole(rb["capture"].last[i])

(* Samples taken from an output ring and put into it, with the pieces of   *)
(* the transfers under way.                                                *)
Taken(o) ==
    consumed[o] + (IF xfer["output"].kind = "read" /\ xfer["output"].ring = o THEN xfer["output"].done ELSE 0)

Put(o) ==
    written[o] + (IF xfer["worker"].kind = "write" /\ xfer["worker"].ring = o THEN xfer["worker"].done ELSE 0)

(* An output ring holds the stream from the sample after the last taken to *)
(* the last put; what a transfer carries continues the same stream, and    *)
(* a callback takes at least up to the boundary it loaded.                 *)
StreamOf(o) ==
    /\ Taken(o) + Distance(o) = Put(o)
    /\ \A i \in 1 .. Distance(o) : Item(o, i) = Taken(o) + i
    /\ discard[o] <= written[o]

WrittenInv ==
    xfer["worker"].kind = "write" =>
        \A i \in 1 .. Len(xfer["worker"].data) : xfer["worker"].data[i] = written[xfer["worker"].ring] + i

ReadInv ==
    xfer["output"].kind = "read" =>
        \A i \in 1 .. xfer["output"].done : xfer["output"].data[i] = consumed[xfer["output"].ring] + i

BoundaryInv ==
    /\ Output.at = "skip" => /\ Output.until <= written[Output.ring]
                             /\ Output.until <= consumed[Output.ring] + xfer["output"].want
    /\ Output.at = "play" => Output.until <= consumed[Output.ring]

StreamInv == (\A o \in Outputs : StreamOf(o)) /\ WrittenInv /\ ReadInv /\ BoundaryInv

-----------------------------------------------------------------------------
(* The device threads *)

LEMMA InitThreads == Init => ThreadInv
<1> SUFFICES ASSUME Init PROVE ThreadInv
  OBVIOUS
<1>1. /\ dev = [d \in Devices |-> NoDevice] /\ ~failed /\ ~closing /\ ~broke
      /\ worker.at = "new" /\ worker = [Idle EXCEPT !.at = "new"]
  BY DEF Init, Idle
<1>2. NoDevice \in DeviceStates
  BY DEF DeviceStates, Modes, Stations, NoDevice
<1>3. worker \in WorkerStates
  BY <1>1 DEF WorkerStates, Places, Idle, Rings, Outputs
<1>4. ThreadType
  BY <1>1, <1>2, <1>3 DEF ThreadType, Init
<1>5. ASSUME NEW d \in Devices PROVE DeviceInv(d)
  BY <1>1 DEF DeviceInv, NoDevice, Events
<1> QED
  BY <1>1, <1>4, <1>5 DEF ThreadInv, FailedMeansLost

(* A step of one device thread, or of its owner, that leaves the others    *)
(* alone.                                                                  *)
LEMMA DeviceMoves ==
    ASSUME ThreadInv, NEW d \in Devices, NEW v \in DeviceStates, dev' = [dev EXCEPT ![d] = v],
           worker' \in WorkerStates, worker'.at \in {"uninit", "join", "freed"} => closing',
           worker'.at = "init" => worker'.on = d \/ worker' = worker,
           failed' \in BOOLEAN, closing' = closing, broke' \in BOOLEAN, broke => broke',
           DeviceInv(d)', failed' => broke'
    PROVE  ThreadInv'
<1>1. ThreadType'
  BY DEF ThreadInv, ThreadType
<1>2. ASSUME NEW e \in Devices PROVE DeviceInv(e)'
  <2>1. CASE e = d
    BY <2>1
  <2>2. CASE e # d
    <3>1. dev'[e] = dev[e] /\ DeviceInv(e)
      BY <2>2 DEF ThreadInv, ThreadType
    <3>2. worker'.at = "init" /\ worker'.on = e => worker.at = "init" /\ worker.on = e
      BY <2>2
    <3> QED
      BY <3>1, <3>2 DEF DeviceInv
  <2> QED
    BY <2>1, <2>2
<1> QED
  BY <1>1, <1>2 DEF ThreadInv, FailedMeansLost

(* A step of the worker that leaves the devices alone.                     *)
LEMMA WorkerMoves ==
    ASSUME ThreadInv, dev' = dev, worker' \in WorkerStates,
           worker'.at \in {"uninit", "join", "freed"} => closing',
           worker'.at = "init" => worker' = worker,
           failed' = failed, closing' \in BOOLEAN, closing => closing', broke' = broke
    PROVE  ThreadInv'
<1>1. ThreadType'
  BY DEF ThreadInv, ThreadType
<1>2. ASSUME NEW e \in Devices PROVE DeviceInv(e)'
  BY DEF ThreadInv, ThreadType, DeviceInv
<1> QED
  BY <1>1, <1>2 DEF ThreadInv, FailedMeansLost

(* A device thread that only goes from one place to another.               *)
LEMMA ThreadGoes ==
    ASSUME ThreadInv, NEW d \in Devices, NEW from \in Stations, NEW to \in Stations,
           Thread(d, from, to)
    PROVE  /\ dev'[d] = [dev[d] EXCEPT !.thread = to] /\ dev'[d] \in DeviceStates
           /\ dev' = [dev EXCEPT ![d] = dev'[d]]
           /\ dev[d].thread = from /\ dev'[d].thread = to /\ dev'[d].state = dev[d].state
           /\ dev'[d].ok = dev[d].ok /\ dev'[d].event = dev[d].event
BY DEF ThreadInv, ThreadType, Thread, DeviceStates

(* A device after one of its events was set or reset.                      *)
Device(state, thread, ok, event) == [state |-> state, thread |-> thread, ok |-> ok, event |-> event]

LEMMA Signalled ==
    ASSUME NEW v \in DeviceStates, NEW e \in Events, NEW b \in BOOLEAN,
           NEW state \in Modes, NEW thread \in Stations, NEW ok \in BOOLEAN
    PROVE  Device(state, thread, ok, [v.event EXCEPT ![e] = b]) \in DeviceStates
<1>1. v.event \in [Events -> BOOLEAN]
  BY DEF DeviceStates
<1>2. [v.event EXCEPT ![e] = b] \in [Events -> BOOLEAN]
  BY <1>1, Zenon
<1> QED
  BY <1>2 DEF DeviceStates, Device

LEMMA ThreadRunsInv ==
    ASSUME ThreadInv, NEW d \in Devices, ThreadRuns(d), worker' = worker
    PROVE  ThreadInv'
<1>e. /\ "wakeup" \in Events /\ "start" \in Events /\ "stop" \in Events
      /\ TRUE \in BOOLEAN /\ FALSE \in BOOLEAN
  BY DEF Events
<1>0. /\ dev \in [Devices -> DeviceStates] /\ dev[d] \in DeviceStates /\ DeviceInv(d)
      /\ UNCHANGED <<failed, closing, broke>> /\ worker' \in WorkerStates
      /\ worker'.at \in {"uninit", "join", "freed"} => closing'
      /\ failed' \in BOOLEAN /\ broke' \in BOOLEAN
      /\ failed' => broke'
  BY DEF ThreadRuns, flags, ThreadInv, ThreadType, FailedMeansLost
<1>a. dev[d].ok \in BOOLEAN /\ dev[d].state \in Modes
  BY <1>0 DEF DeviceStates
<1>b. "stopped" \in Modes /\ "started" \in Modes
  BY DEF Modes
<1>c. /\ "idle" \in Stations /\ "woken" \in Stations /\ "loop" \in Stations /\ "stop" \in Stations
      /\ "check" \in Stations /\ "mark" \in Stations /\ "exited" \in Stations
  BY DEF Stations
<1> SUFFICES \E v \in DeviceStates : dev' = [dev EXCEPT ![d] = v] /\ DeviceInv(d)'
  BY <1>0, DeviceMoves
<1>1. CASE Boot(d)
  <2>1. /\ dev'[d] = Device("stopped", "idle", dev[d].ok,
                            [dev[d].event EXCEPT !["stop"] = TRUE])
        /\ dev' = [dev EXCEPT ![d] = dev'[d]] /\ dev[d].thread = "boot"
    BY <1>0, <1>1 DEF Boot, Device, DeviceStates, Goes
  <2>2. dev'[d] \in DeviceStates
    <3>1. Device("stopped", "idle", dev[d].ok,
                 [dev[d].event EXCEPT !["stop"] = TRUE]) \in DeviceStates
      BY <1>0, <1>a, <1>b, <1>c, <1>e, Signalled, Zenon
    <3> QED
      BY <2>1, <3>1, Zenon
  <2>3. /\ dev'[d].thread = "idle" /\ dev'[d].ok = dev[d].ok
        /\ dev'[d].event["wakeup"] = dev[d].event["wakeup"]
    BY <1>0, <1>e, <2>1 DEF DeviceStates, Device
  <2> QED
    BY <1>0, <2>1, <2>2, <2>3 DEF DeviceInv
<1>2. CASE Wake(d)
  <2>1. /\ dev'[d] = Device(dev[d].state, "woken", TRUE,
                            [dev[d].event EXCEPT !["wakeup"] = FALSE])
        /\ dev' = [dev EXCEPT ![d] = dev'[d]]
        /\ dev[d].thread = "idle" /\ dev[d].event["wakeup"]
    BY <1>0, <1>2 DEF Wake, Device, DeviceStates
  <2>2. dev'[d] \in DeviceStates
    <3>1. Device(dev[d].state, "woken", TRUE,
                 [dev[d].event EXCEPT !["wakeup"] = FALSE]) \in DeviceStates
      BY <1>0, <1>a, <1>b, <1>c, <1>e, Signalled, Zenon
    <3> QED
      BY <2>1, <3>1, Zenon
  <2>3. dev'[d].thread = "woken" /\ dev'[d].ok /\ ~dev'[d].event["wakeup"]
    BY <1>0, <1>e, <2>1 DEF DeviceStates, Device
  <2> QED
    BY <1>0, <2>1, <2>2, <2>3 DEF DeviceInv
<1>3. CASE BackendStarts(d)
  <2>1. /\ dev'[d] = Device("started", "loop", dev[d].ok,
                            [dev[d].event EXCEPT !["start"] = TRUE])
        /\ dev' = [dev EXCEPT ![d] = dev'[d]] /\ dev[d].thread = "woken"
    BY <1>0, <1>3 DEF BackendStarts, Device, DeviceStates, Goes
  <2>2. dev'[d] \in DeviceStates
    <3>1. Device("started", "loop", dev[d].ok,
                 [dev[d].event EXCEPT !["start"] = TRUE]) \in DeviceStates
      BY <1>0, <1>a, <1>b, <1>c, <1>e, Signalled, Zenon
    <3> QED
      BY <2>1, <3>1, Zenon
  <2>3. dev'[d].thread = "loop" /\ dev'[d].ok = dev[d].ok /\ dev'[d].state = "started"
    BY <1>0, <1>e, <2>1 DEF DeviceStates, Device
  <2> QED
    BY <1>0, <2>1, <2>2, <2>3 DEF DeviceInv
<1>4. CASE BackendFails(d)
  <2>1. /\ dev'[d] = Device(dev[d].state, "idle", FALSE,
                            [dev[d].event EXCEPT !["start"] = TRUE])
        /\ dev' = [dev EXCEPT ![d] = dev'[d]] /\ dev[d].thread = "woken"
    BY <1>0, <1>4 DEF BackendFails, Device, DeviceStates
  <2>2. dev'[d] \in DeviceStates
    <3>1. Device(dev[d].state, "idle", FALSE,
                 [dev[d].event EXCEPT !["start"] = TRUE]) \in DeviceStates
      BY <1>0, <1>a, <1>b, <1>c, <1>e, Signalled, Zenon
    <3> QED
      BY <2>1, <3>1, Zenon
  <2>3. dev'[d].thread = "idle" /\ dev'[d].event["wakeup"] = dev[d].event["wakeup"]
    BY <1>0, <1>e, <2>1 DEF DeviceStates, Device
  <2> QED
    BY <1>0, <2>1, <2>2, <2>3 DEF DeviceInv
<1>5. CASE MarkStopped(d)
  <2>1. /\ dev'[d] = Device("stopped", "idle", dev[d].ok,
                            [dev[d].event EXCEPT !["stop"] = TRUE])
        /\ dev' = [dev EXCEPT ![d] = dev'[d]] /\ dev[d].thread = "mark"
    BY <1>0, <1>5 DEF MarkStopped, Device, DeviceStates, Goes
  <2>2. dev'[d] \in DeviceStates
    <3>1. Device("stopped", "idle", dev[d].ok,
                 [dev[d].event EXCEPT !["stop"] = TRUE]) \in DeviceStates
      BY <1>0, <1>a, <1>b, <1>c, <1>e, Signalled, Zenon
    <3> QED
      BY <2>1, <3>1, Zenon
  <2>3. dev'[d].thread = "idle" /\ dev'[d].ok = dev[d].ok
    BY <1>0, <1>e, <2>1 DEF DeviceStates, Device
  <2> QED
    BY <1>0, <2>1, <2>2, <2>3 DEF DeviceInv
<1>6. CASE Exit(d)
  <2>1. Thread(d, "woken", "exited")
    BY <1>6 DEF Exit
  <2>2. dev'[d] \in DeviceStates /\ dev' = [dev EXCEPT ![d] = dev'[d]]
    BY <1>0, <1>c, <2>1, ThreadGoes
  <2>3. dev[d].thread = "woken" /\ dev'[d].thread = "exited"
    BY <1>0, <2>1 DEF Thread, DeviceStates
  <2>4. dev'[d].ok = dev[d].ok
    BY <1>0, <2>1 DEF Thread, DeviceStates
  <2>5. DeviceInv(d)'
    BY <1>0, <2>3, <2>4 DEF DeviceInv
  <2> QED
    BY <2>2, <2>5
<1>7. CASE LoopEnds(d)
  <2>1. Thread(d, "loop", "stop") /\ dev[d].state # "started"
    BY <1>7 DEF LoopEnds
  <2>2. dev'[d] \in DeviceStates /\ dev' = [dev EXCEPT ![d] = dev'[d]] /\ DeviceInv(d)'
    BY <1>0, <1>c, <2>1, ThreadGoes DEF DeviceInv
  <2> QED
    BY <2>2
<1>8. CASE StopFails(d)
  <2>1. Thread(d, "stop", "check")
    BY <1>8 DEF StopFails
  <2>2. dev'[d] \in DeviceStates /\ dev' = [dev EXCEPT ![d] = dev'[d]] /\ DeviceInv(d)'
    BY <1>0, <1>c, <2>1, ThreadGoes DEF DeviceInv
  <2> QED
    BY <2>2
<1>9. CASE CheckEnds(d) \/ CheckGoesOn(d)
  <2>1. Thread(d, "check", "exited") \/ Thread(d, "check", "mark")
    BY <1>9 DEF CheckEnds, CheckGoesOn
  <2>2. CASE Thread(d, "check", "exited")
    <3>1. dev'[d] \in DeviceStates /\ dev' = [dev EXCEPT ![d] = dev'[d]] /\ DeviceInv(d)'
      BY <1>0, <1>c, <2>2, ThreadGoes DEF DeviceInv
    <3> QED
      BY <3>1
  <2>3. CASE Thread(d, "check", "mark")
    <3>1. dev'[d] \in DeviceStates /\ dev' = [dev EXCEPT ![d] = dev'[d]] /\ DeviceInv(d)'
      BY <1>0, <1>c, <2>3, ThreadGoes DEF DeviceInv
    <3> QED
      BY <3>1
  <2> QED
    BY <2>1, <2>2, <2>3
<1> QED
  BY <1>1, <1>2, <1>3, <1>4, <1>5, <1>6, <1>7, <1>8, <1>9 DEF ThreadRuns

LEMMA DeviceStepInv ==
    ASSUME ThreadInv, NEW d \in Devices, DeviceStep(d)
    PROVE  ThreadInv'
<1>0. worker' = worker /\ worker' \in WorkerStates /\ DeviceInv(d)
  BY DEF DeviceStep, ThreadInv, ThreadType
<1>1. CASE ThreadRuns(d)
  BY <1>0, <1>1, ThreadRunsInv
<1>2. CASE Notified(d)
  <2>1. /\ failed' = (failed \/ ~closing) /\ closing' = closing /\ broke' = broke
        /\ Thread(d, "stop", "check")
    BY <1>2 DEF Notified, StopNotifies
  <2>2. /\ dev'[d] \in DeviceStates /\ dev' = [dev EXCEPT ![d] = dev'[d]]
        /\ dev[d].thread = "stop" /\ DeviceInv(d)'
    BY <1>0, <2>1, ThreadGoes DEF DeviceInv, Stations
  <2>3. failed' => broke'
    BY <1>0, <2>1, <2>2 DEF ThreadInv, FailedMeansLost, DeviceInv
  <2>4. failed' \in BOOLEAN /\ broke' \in BOOLEAN
        /\ (worker'.at \in {"uninit", "join", "freed"} => closing')
    BY <1>0, <2>1 DEF ThreadInv, ThreadType
  <2> QED
    BY <1>0, <2>1, <2>2, <2>3, <2>4, DeviceMoves
<1>3. CASE Breaks(d)
  <2>1. /\ failed' = failed /\ closing' = closing /\ broke' = TRUE
        /\ Thread(d, "loop", "stop")
    BY <1>3 DEF Breaks, LoopBreaks
  <2>2. dev'[d] \in DeviceStates /\ dev' = [dev EXCEPT ![d] = dev'[d]] /\ DeviceInv(d)'
    BY <1>0, <2>1, ThreadGoes DEF DeviceInv, Stations
  <2>3. failed' \in BOOLEAN /\ (worker'.at \in {"uninit", "join", "freed"} => closing')
    BY <1>0, <2>1 DEF ThreadInv, ThreadType
  <2> QED
    BY <1>0, <2>1, <2>2, <2>3, DeviceMoves
<1> QED
  BY <1>1, <1>2, <1>3 DEF DeviceStep

LEMMA StopHeard ==
    ASSUME NEW v \in DeviceStates, NEW w, w = [v EXCEPT !.event["stop"] = FALSE]
    PROVE  w = Device(v.state, v.thread, v.ok, [v.event EXCEPT !["stop"] = FALSE])
BY DEF Device, DeviceStates

LEMMA AskedToRun ==
    ASSUME NEW v \in DeviceStates, NEW w,
           w = [v EXCEPT !.event["wakeup"] = TRUE, !.state = "starting"]
    PROVE  w = Device("starting", v.thread, v.ok, [v.event EXCEPT !["wakeup"] = TRUE])
BY DEF Device, DeviceStates

LEMMA StartHeard ==
    ASSUME NEW v \in DeviceStates, NEW w, NEW state,
           w = [v EXCEPT !.event["start"] = FALSE, !.state = state]
    PROVE  w = Device(state, v.thread, v.ok, [v.event EXCEPT !["start"] = FALSE])
BY DEF Device, DeviceStates

LEMMA OpeningInv == ASSUME ThreadInv, Opening PROVE ThreadInv'
<1>0. /\ ThreadType /\ (worker.at \in {"uninit", "join", "freed"} => closing)
      /\ \A d \in Devices : DeviceInv(d)
      /\ failed => broke
  BY DEF ThreadInv, FailedMeansLost
<1>e. /\ "wakeup" \in Events /\ "start" \in Events /\ "stop" \in Events
      /\ TRUE \in BOOLEAN /\ FALSE \in BOOLEAN
  BY DEF Events
<1>b. "stopped" \in Modes /\ "starting" \in Modes /\ "boot" \in Stations
  BY DEF Modes, Stations
<1>f. /\ failed' = failed /\ closing' = closing /\ broke' = broke
      /\ failed' \in BOOLEAN /\ closing' \in BOOLEAN /\ broke' \in BOOLEAN
  BY <1>0 DEF Opening, Open, OpenDevice, OpenDeviceFails, DeviceReady, DeviceStarted, Opened,
              flags, ThreadType
<1>1. ASSUME NEW wanted \in SUBSET Devices, Open(wanted) PROVE ThreadInv'
  <2>1. worker' \in WorkerStates /\ worker'.at \in {"open", "close"} /\ dev' = dev
    BY <1>0, <1>1 DEF Open, ThreadType, WorkerStates, Places
  <2> QED
    BY <1>f, <2>1, WorkerMoves
<1>2. ASSUME NEW d \in Devices, OpenDevice(d) PROVE ThreadInv'
  <2>1. /\ worker' \in WorkerStates /\ worker'.at = "init" /\ worker'.on = d
        /\ dev' = [dev EXCEPT ![d].thread = "boot"] /\ dev[d].thread = "none"
        /\ dev \in [Devices -> DeviceStates] /\ DeviceInv(d)
    BY <1>0, <1>2 DEF OpenDevice, Opens, Spawn, ThreadType, WorkerStates, Places, Rings
  <2>2. /\ dev' = [dev EXCEPT ![d] = dev'[d]] /\ dev'[d] \in DeviceStates
        /\ dev'[d].thread = "boot" /\ dev'[d].ok = dev[d].ok /\ dev'[d].event = dev[d].event
    BY <2>1, <1>b DEF DeviceStates
  <2>3. DeviceInv(d)'
    BY <1>f, <2>1, <2>2 DEF DeviceInv
  <2> QED
    BY <1>0, <1>f, <2>1, <2>2, <2>3, DeviceMoves
<1>3. ASSUME NEW d \in Devices, OpenDeviceFails(d) PROVE ThreadInv'
  <2>1. worker' \in WorkerStates /\ worker'.at = "close" /\ dev' = dev
    BY <1>0, <1>3 DEF OpenDeviceFails, ThreadType, WorkerStates, Places
  <2> QED
    BY <1>f, <2>1, WorkerMoves
<1>4. ASSUME NEW d \in Devices, DeviceReady(d) PROVE ThreadInv'
  <2> PICK heard : heard = [dev[d] EXCEPT !.event["stop"] = FALSE]
    OBVIOUS
  <2>1. /\ worker' \in WorkerStates /\ worker'.at = "start" /\ Ready(d)
        /\ worker.at = "init" /\ worker.on = d
        /\ dev \in [Devices -> DeviceStates] /\ DeviceInv(d)
    BY <1>0, <1>4 DEF DeviceReady, ThreadType, WorkerStates, Places
  <2>2. /\ dev[d].ok \in BOOLEAN /\ dev[d].state \in Modes /\ dev[d].thread \in Stations
        /\ dev[d] \in DeviceStates
    BY <2>1 DEF DeviceStates
  <2>3. Device(dev[d].state, dev[d].thread, dev[d].ok, [dev[d].event EXCEPT !["stop"] = FALSE])
              \in DeviceStates
    BY <2>2, <1>e, Signalled, Zenon
  <2>4. heard = Device(dev[d].state, dev[d].thread, dev[d].ok, [dev[d].event EXCEPT !["stop"] = FALSE])
    BY <2>2, StopHeard
  <2>a. heard \in DeviceStates
    BY <2>3, <2>4, Zenon
  <2> PICK asked : asked = [heard EXCEPT !.event["wakeup"] = TRUE, !.state = "starting"]
    OBVIOUS
  <2>5. heard.ok = dev[d].ok /\ heard.thread = dev[d].thread
    BY <2>4 DEF Device
  <2>b. dev' = [dev EXCEPT ![d] = asked]
    BY <2>1, ZenonT(40) DEF Ready, DeviceStates
  <2>6. asked = Device("starting", heard.thread, heard.ok, [heard.event EXCEPT !["wakeup"] = TRUE])
    BY <2>a, AskedToRun
  <2>7. Device("starting", heard.thread, heard.ok, [heard.event EXCEPT !["wakeup"] = TRUE])
           \in DeviceStates
    <3>1. heard.ok \in BOOLEAN /\ heard.thread \in Stations
      BY <2>2, <2>5
    <3> QED
      BY <2>a, <3>1, <1>b, <1>e, Signalled, Zenon
  <2>c. asked \in DeviceStates /\ dev'[d] = asked
    BY <2>1, <2>b, <2>6, <2>7
  <2>8. /\ dev'[d] \in DeviceStates /\ dev' = [dev EXCEPT ![d] = dev'[d]]
    BY <2>1, <2>b, <2>c
  <2>9. dev'[d].thread = dev[d].thread /\ dev'[d].ok = dev[d].ok
    BY <2>5, <2>6, <2>c DEF Device
  <2>10. dev[d].thread = "idle" \/ closing
    BY <2>1 DEF DeviceInv, Ready
  <2>11. DeviceInv(d)'
    BY <1>f, <2>1, <2>9, <2>10 DEF DeviceInv
  <2> QED
    BY <1>0, <1>f, <2>1, <2>8, <2>11, DeviceMoves
<1>5. ASSUME NEW d \in Devices, NEW good \in BOOLEAN, DeviceStarted(d, good) PROVE ThreadInv'
  <2> DEFINE state == IF good THEN dev[d].state ELSE "stopped"
             v == Device(state, dev[d].thread, dev[d].ok, [dev[d].event EXCEPT !["start"] = FALSE])
  <2>1. /\ worker' \in WorkerStates /\ worker'.at \in {"open", "close"} /\ Started(d, good)
        /\ dev \in [Devices -> DeviceStates] /\ DeviceInv(d)
    BY <1>0, <1>5 DEF DeviceStarted, ThreadType, WorkerStates, Places
  <2>2. /\ dev[d].ok \in BOOLEAN /\ state \in Modes /\ dev[d].thread \in Stations
        /\ dev[d] \in DeviceStates
    BY <2>1, <1>b DEF DeviceStates
  <2>3. v \in DeviceStates
    BY <2>2, <1>e, Signalled, Zenon
  <2> PICK w : w = [dev[d] EXCEPT !.event["start"] = FALSE, !.state = state]
    OBVIOUS
  <2>a. dev' = [dev EXCEPT ![d] = w] /\ dev[d].ok = good
    BY <2>1 DEF Started, DeviceStates
  <2>4. dev' = [dev EXCEPT ![d] = v] /\ dev[d].ok = good
    BY <2>2, <2>a, StartHeard
  <2>5. dev'[d] = v
    BY <2>1, <2>4
  <2>6. /\ dev'[d].thread = dev[d].thread /\ dev'[d].ok = dev[d].ok
        /\ dev'[d].event["wakeup"] = dev[d].event["wakeup"]
        /\ dev'[d].event["stop"] = dev[d].event["stop"]
        /\ dev'[d].state = state
    BY <2>1, <2>5, <1>e DEF Device, DeviceStates
  <2>7. DeviceInv(d)'
    BY <1>f, <2>1, <2>4, <2>6 DEF DeviceInv
  <2> HIDE DEF v
  <2> QED
    BY <1>0, <1>f, <2>1, <2>3, <2>4, <2>7, DeviceMoves
<1>6. ASSUME Opened PROVE ThreadInv'
  <2>1. worker' \in WorkerStates /\ worker'.at = "idle" /\ dev' = dev
    BY <1>0, <1>6 DEF Opened, Idle, WorkerStates, Places, Rings, Outputs
  <2> QED
    BY <1>f, <2>1, WorkerMoves
<1> QED
  BY <1>1, <1>2, <1>3, <1>4, <1>5, <1>6 DEF Opening

LEMMA ClosingInv == ASSUME ThreadInv, Closing PROVE ThreadInv'
<1>0. /\ ThreadType /\ (worker.at \in {"uninit", "join", "freed"} => closing)
      /\ failed => broke
  BY DEF ThreadInv, FailedMeansLost
<1>1. ASSUME NEW d \in Devices, UninitDevice(d) PROVE ThreadInv'
  <2> PICK v : v = [dev[d] EXCEPT !.state = "uninitialized", !.event["wakeup"] = TRUE]
    OBVIOUS
  <2>0. worker' \in WorkerStates /\ worker'.at = "join" /\ closing
    BY <1>0, <1>1 DEF UninitDevice, ThreadType, WorkerStates, Places
  <2>1. dev \in [Devices -> DeviceStates] /\ dev' = [dev EXCEPT ![d] = v]
    BY <1>0, <1>1 DEF UninitDevice, Uninit, ThreadType
  <2>f. /\ failed' = failed /\ closing' = closing /\ broke' = broke
        /\ failed' \in BOOLEAN /\ broke' \in BOOLEAN
    BY <1>0, <1>1 DEF UninitDevice, flags, ThreadType
  <2>2. v = Device("uninitialized", dev[d].thread, dev[d].ok, [dev[d].event EXCEPT !["wakeup"] = TRUE])
    BY <2>1 DEF Device, DeviceStates
  <2>3. /\ dev[d].thread \in Stations /\ dev[d].ok \in BOOLEAN /\ dev[d] \in DeviceStates
        /\ "uninitialized" \in Modes /\ "wakeup" \in Events /\ TRUE \in BOOLEAN
    BY <2>1 DEF DeviceStates, Modes, Events
  <2>4. v \in DeviceStates
    <3>1. Device("uninitialized", dev[d].thread, dev[d].ok, [dev[d].event EXCEPT !["wakeup"] = TRUE])
            \in DeviceStates
      BY <2>3, Signalled, Zenon
    <3> QED
      BY <2>2, <3>1, Zenon
  <2>5. DeviceInv(d)'
    BY <2>0, <2>f DEF DeviceInv
  <2> QED
    BY <1>0, <2>0, <2>1, <2>f, <2>4, <2>5, DeviceMoves
<1>2. CASE \/ CloseCalled \/ CloseBegins \/ Free \/ \E d \in Devices : JoinDevice(d)
  <2>1. /\ worker' \in WorkerStates /\ worker'.at \in {"close", "uninit", "freed"}
        /\ dev' = dev /\ failed' = failed /\ broke' = broke
    BY <1>0, <1>2 DEF CloseCalled, CloseBegins, Free, JoinDevice, flags, Idle, ThreadType,
              WorkerStates, Places, Rings, Outputs
  <2>2. /\ closing' \in BOOLEAN /\ (closing => closing')
        /\ worker'.at \in {"uninit", "join", "freed"} => closing'
    <3>1. CASE CloseBegins
      BY <3>1 DEF CloseBegins
    <3>2. CASE \/ CloseCalled \/ Free \/ \E d \in Devices : JoinDevice(d)
      BY <1>0, <3>2 DEF CloseCalled, Free, JoinDevice, flags, Idle, ThreadType
    <3> QED
      BY <1>2, <3>1, <3>2
  <2> QED
    BY <2>1, <2>2, WorkerMoves
<1> QED
  BY <1>1, <1>2 DEF Closing

(* A callback begins and ends in the device's data loop.                   *)
LEMMA CallbackMoves ==
    ASSUME ThreadInv, NEW d \in Devices, worker' = worker, UNCHANGED flags,
           \/ Thread(d, "loop", "callback")
           \/ Thread(d, "callback", "loop")
    PROVE  ThreadInv'
<1>0. /\ dev \in [Devices -> DeviceStates] /\ DeviceInv(d)
      /\ UNCHANGED <<failed, closing, broke>> /\ worker' \in WorkerStates
      /\ worker'.at \in {"uninit", "join", "freed"} => closing'
      /\ failed' \in BOOLEAN /\ broke' \in BOOLEAN
      /\ failed' => broke'
  BY DEF flags, ThreadInv, ThreadType, FailedMeansLost
<1>1. "loop" \in Stations /\ "callback" \in Stations
  BY DEF Stations
<1>2. dev'[d] \in DeviceStates /\ dev' = [dev EXCEPT ![d] = dev'[d]]
  BY <1>1, ThreadGoes
<1>3. /\ dev[d].thread \in {"loop", "callback"} /\ dev'[d].thread \in {"loop", "callback"}
      /\ dev'[d].state = dev[d].state /\ dev'[d].ok = dev[d].ok
  BY <1>0 DEF Thread, DeviceStates
<1>4. DeviceInv(d)'
  BY <1>0, <1>3 DEF DeviceInv
<1> QED
  BY <1>0, <1>2, <1>4, DeviceMoves

LEMMA NextThreads == ASSUME ThreadInv, [Next]_vars PROVE ThreadInv'
<1>0. ThreadType /\ (worker.at \in {"uninit", "join", "freed"} => closing)
  BY DEF ThreadInv
<1>d. "output" \in Devices /\ "input" \in Devices
  BY DEF Devices
<1>1. CASE Opening
  BY <1>1, OpeningInv
<1>2. CASE Working
  <2>1. /\ worker' \in WorkerStates
        /\ worker'.at \in {"write", "read", "discard", "idle"}
        /\ dev' = dev /\ failed' = failed /\ broke' = broke /\ closing' = closing
    <3>1. CASE (\E o \in Outputs : Write(o)) \/ Reference \/ Capture
      <4>1. PICK at \in {"write", "read"}, r \in Rings : worker' = [Idle EXCEPT !.at = at, !.on = r]
        BY <3>1 DEF Write, Reference, Capture, Transfer, Rings, Outputs
      <4>2. dev' = dev /\ UNCHANGED flags
        BY <3>1 DEF Write, Reference, Capture, Transfer
      <4> QED
        BY <4>1, <4>2 DEF flags, Idle, WorkerStates, Places
    <3>2. CASE WriteReturns \/ ReadReturns
      <4>1. worker' = Idle /\ dev' = dev /\ UNCHANGED flags
        BY <3>2 DEF WriteReturns, ReadReturns
      <4> QED
        BY <4>1 DEF flags, Idle, WorkerStates, Places, Rings, Outputs
    <3>3. CASE Discard
      <4>1. worker' = Idle \/ worker' = [Idle EXCEPT !.at = "discard"]
        BY <3>3 DEF Discard
      <4>2. worker' \in WorkerStates /\ worker'.at \in {"discard", "idle"}
        BY <4>1 DEF Idle, WorkerStates, Places, Rings, Outputs
      <4> QED
        BY <3>3, <4>2 DEF Discard, flags
    <3>4. CASE SetEpoch
      BY <1>0, <3>4 DEF SetEpoch, ThreadType, WorkerStates
    <3> QED
      BY <1>2, <3>1, <3>2, <3>3, <3>4 DEF Working
  <2> QED
    BY <1>0, <2>1, WorkerMoves DEF ThreadType
<1>3. CASE Closing
  BY <1>3, ClosingInv
<1>4. CASE \E f \in Periods : OutputStarts(f) \/ InputStarts(f)
  BY <1>d, <1>4, CallbackMoves DEF OutputStarts, InputStarts
<1>5. CASE OutputRuns
  <2>1. worker' = worker /\ UNCHANGED flags
    BY <1>5 DEF OutputRuns, LoadBoundary, Skipped, PlayedPlayback, Referenced, PlayedMonitor, Played
  <2>2. dev' = dev \/ Thread("output", "callback", "loop")
    BY <1>5 DEF OutputRuns, LoadBoundary, Skipped, PlayedPlayback, Referenced, PlayedMonitor, Played
  <2>3. CASE dev' = dev
    BY <1>0, <2>1, <2>3, WorkerMoves DEF flags, ThreadType
  <2> QED
    BY <1>d, <2>1, <2>2, <2>3, CallbackMoves
<1>6. CASE InputRuns
  <2>1. worker' = worker /\ UNCHANGED flags /\ (dev' = dev \/ Thread("input", "callback", "loop"))
    BY <1>6 DEF InputRuns, InputCopies, InputPushed, InputReturns
  <2>3. CASE dev' = dev
    BY <1>0, <2>1, <2>3, WorkerMoves DEF flags, ThreadType
  <2> QED
    BY <1>d, <2>1, <2>3, CallbackMoves
<1>7. CASE \E t \in Threads : RingStep(t)
  <2>1. worker' = worker /\ UNCHANGED flags /\ dev' = dev
    BY <1>7 DEF RingStep
  <2> QED
    BY <1>0, <2>1, WorkerMoves DEF flags, ThreadType
<1>8. CASE \E d \in Devices : DeviceStep(d)
  BY <1>8, DeviceStepInv
<1>9. CASE UNCHANGED vars
  <2>1. worker' = worker /\ UNCHANGED flags /\ dev' = dev
    BY <1>9 DEF vars
  <2> QED
    BY <1>0, <2>1, WorkerMoves DEF flags, ThreadType
<1> QED
  BY <1>1, <1>2, <1>3, <1>4, <1>5, <1>6, <1>7, <1>8, <1>9 DEF Next

LEMMA ThreadsHold == Spec => []ThreadInv
BY InitThreads, NextThreads, PTL DEF Spec

(* Whatever the threads of the two devices, their callbacks and the worker *)
(* that opens and closes them do, notification_callback reports a device   *)
(* as lost only after one has stopped by itself.                           *)
THEOREM LostIsReal == Spec => []FailedMeansLost
<1>1. ThreadInv => FailedMeansLost
  BY DEF ThreadInv
<1> QED
  BY <1>1, ThreadsHold, PTL

-----------------------------------------------------------------------------
(* A ring of any size *)

LEMMA SizeFacts == \A r \in Rings : Size(r) \in Nat /\ Size(r) > 0
<1>1. Frame \in Nat /\ Frame > 0 /\ Capacity \in Nat /\ Capacity > 0
  BY RingSizes
<1>2. Frame * Capacity \in Nat /\ Frame * Capacity > 0
  BY <1>1
<1> QED
  BY <1>1, <1>2 DEF Size

LEMMA ModFacts ==
    ASSUME NEW c \in Nat, c > 0, NEW x \in Nat, x < c + c
    PROVE  x % c = IF x < c THEN x ELSE x - c
BY SMT

(* The pieces MaRing computes, for a ring in any state q of size s.        *)
CursorsOf(s) == [off : 0 .. s - 1, loop : BOOLEAN]

Run(q, s) == IF q.read.loop = q.write.loop THEN q.write.off - q.read.off ELSE s - q.read.off

Room(q, s) == IF q.read.loop = q.write.loop THEN s - q.write.off ELSE q.read.off - q.write.off

Gap(q, s) ==
    IF q.read.loop = q.write.loop THEN q.write.off - q.read.off ELSE q.write.off + (s - q.read.off)

Place(q, s, i) == (q.read.off + i - 1) % s

LEMMA AdvanceFacts ==
    ASSUME NEW s \in Nat, s > 0, NEW c \in CursorsOf(s), NEW n \in Nat, c.off + n <= s
    PROVE  /\ Advance(c, n, s) \in CursorsOf(s)
           /\ Advance(c, n, s).off = IF c.off + n = s THEN 0 ELSE c.off + n
           /\ c.off + n = s => Advance(c, n, s).loop = ~c.loop
           /\ c.off + n # s => Advance(c, n, s).loop = c.loop
BY DEF Advance, CursorsOf

(* What the ring promises at one moment.                                   *)
LEMMA RingNow ==
    ASSUME NEW s \in Nat, s > 0, NEW q, q.read \in CursorsOf(s), q.write \in CursorsOf(s), Ordered(q)
    PROVE  /\ Run(q, s) \in Nat /\ Room(q, s) \in Nat /\ Gap(q, s) \in Nat
           /\ Run(q, s) <= Gap(q, s) /\ Gap(q, s) + Room(q, s) <= s
           /\ \A i \in 1 .. Gap(q, s) : Place(q, s, i) \in 0 .. s - 1
           /\ \A i \in 1 .. Run(q, s) : Place(q, s, i) = q.read.off + i - 1
           /\ q.read.off + Run(q, s) <= s /\ q.write.off + Room(q, s) <= s
<1>1. /\ q.read.off \in Nat /\ q.write.off \in Nat /\ q.read.off < s /\ q.write.off < s
  BY DEF CursorsOf
<1>2. /\ Run(q, s) \in Nat /\ Room(q, s) \in Nat /\ Gap(q, s) \in Nat
      /\ Run(q, s) <= Gap(q, s) /\ Gap(q, s) + Room(q, s) <= s
      /\ q.read.off + Run(q, s) <= s /\ q.write.off + Room(q, s) <= s
  BY <1>1 DEF Run, Room, Gap, Ordered
<1>3. ASSUME NEW i \in 1 .. Gap(q, s)
      PROVE  /\ Place(q, s, i) \in 0 .. s - 1
             /\ i <= Run(q, s) => Place(q, s, i) = q.read.off + i - 1
  <2>1. i \in Nat /\ i >= 1 /\ i <= s /\ q.read.off + i - 1 \in Nat /\ q.read.off + i - 1 < s + s
    BY <1>1, <1>2
  <2> QED
    BY <1>1, <1>2, <2>1, ModFacts DEF Place
<1> QED
  BY <1>2, <1>3

(* The reader's end moves: the writer's room can only grow, and what was   *)
(* not taken stays in its order.                                           *)
LEMMA ReadEnd ==
    ASSUME NEW s \in Nat, s > 0, NEW q, q.read \in CursorsOf(s), q.write \in CursorsOf(s), Ordered(q),
           NEW n \in Nat, n > 0, n <= Run(q, s),
           NEW p, p.read = Advance(q.read, n, s), p.write = q.write
    PROVE  /\ p.read \in CursorsOf(s) /\ Ordered(p)
           /\ Room(q, s) <= Room(p, s) /\ Gap(q, s) = Gap(p, s) + n
           /\ \A i \in 1 .. Gap(p, s) : Place(p, s, i) = Place(q, s, i + n)
<1>1. /\ q.read.off \in Nat /\ q.write.off \in Nat /\ q.read.off < s /\ q.write.off < s
      /\ q.read.loop \in BOOLEAN /\ q.write.loop \in BOOLEAN
  BY DEF CursorsOf
<1>2. q.read.off + n <= s /\ Gap(q, s) <= s /\ Gap(q, s) \in Nat
  BY <1>1, RingNow
<1>3. /\ p.read \in CursorsOf(s)
      /\ p.read.off = IF q.read.off + n = s THEN 0 ELSE q.read.off + n
      /\ q.read.off + n = s => p.read.loop = ~q.read.loop
      /\ q.read.off + n # s => p.read.loop = q.read.loop
  BY <1>2, AdvanceFacts
<1>4. CASE q.read.off + n = s
  <2>1. q.read.loop # q.write.loop
    BY <1>1, <1>4 DEF Run
  <2>2. p.read.loop = p.write.loop /\ p.read.off = 0 /\ p.write.off = q.write.off
    BY <1>1, <1>3, <1>4, <2>1
  <2>3. /\ Ordered(p) /\ Room(q, s) <= Room(p, s) /\ Gap(q, s) = Gap(p, s) + n
        /\ Gap(p, s) = q.write.off
    BY <1>1, <1>4, <2>1, <2>2 DEF Ordered, Room, Gap
  <2>4. ASSUME NEW i \in 1 .. Gap(p, s) PROVE Place(p, s, i) = Place(q, s, i + n)
    <3>1. i \in Nat /\ i >= 1 /\ i + n <= s
      BY <1>1, <1>2, <2>3
    <3>2. q.read.off + (i + n) - 1 = s + (i - 1) /\ i - 1 \in Nat /\ i - 1 < s
      BY <1>1, <1>4, <3>1
    <3>3. (s + (i - 1)) % s = i - 1 /\ (i - 1) % s = i - 1
      BY <3>1, <3>2, ModFacts
    <3> QED
      BY <2>2, <3>1, <3>2, <3>3 DEF Place
  <2> QED
    BY <1>3, <2>3, <2>4
<1>5. CASE q.read.off + n # s
  <2>2. p.read.loop = q.read.loop /\ p.read.off = q.read.off + n /\ p.write = q.write
    BY <1>3, <1>5
  <2>3. /\ Ordered(p) /\ Room(q, s) <= Room(p, s) /\ Gap(q, s) = Gap(p, s) + n
        /\ Gap(p, s) \in Nat
    BY <1>1, <1>2, <1>5, <2>2 DEF Ordered, Run, Room, Gap
  <2>4. ASSUME NEW i \in 1 .. Gap(p, s) PROVE Place(p, s, i) = Place(q, s, i + n)
    <3>1. p.read.off + i - 1 = q.read.off + (i + n) - 1
      BY <1>1, <2>2, <2>3
    <3> QED
      BY <3>1 DEF Place
  <2> QED
    BY <1>3, <2>3, <2>4
<1> QED
  BY <1>4, <1>5

(* The writer's end moves: what the reader may take can only grow, nothing *)
(* the ring holds is written over, and the piece comes last.               *)
LEMMA WriteEnd ==
    ASSUME NEW s \in Nat, s > 0, NEW q, q.read \in CursorsOf(s), q.write \in CursorsOf(s), Ordered(q),
           NEW n \in Nat, n > 0, n <= Room(q, s),
           NEW p, p.write = Advance(q.write, n, s), p.read = q.read
    PROVE  /\ p.write \in CursorsOf(s) /\ Ordered(p)
           /\ Run(q, s) <= Run(p, s) /\ Gap(p, s) = Gap(q, s) + n
           /\ \A i \in 1 .. Gap(p, s) : Place(p, s, i) = Place(q, s, i)
           /\ \A i \in 1 .. Gap(q, s) :
                 Place(q, s, i) < q.write.off \/ Place(q, s, i) >= q.write.off + n
           /\ \A i \in 1 .. n : Place(q, s, Gap(q, s) + i) = q.write.off + i - 1
<1>1. /\ q.read.off \in Nat /\ q.write.off \in Nat /\ q.read.off < s /\ q.write.off < s
      /\ q.read.loop \in BOOLEAN /\ q.write.loop \in BOOLEAN
  BY DEF CursorsOf
<1>2. /\ q.write.off + n <= s /\ Gap(q, s) + n <= s /\ Gap(q, s) \in Nat
      /\ Run(q, s) \in Nat /\ Room(q, s) \in Nat
  BY <1>1, RingNow
<1>3. /\ p.write \in CursorsOf(s)
      /\ p.write.off = IF q.write.off + n = s THEN 0 ELSE q.write.off + n
      /\ q.write.off + n = s => p.write.loop = ~q.write.loop
      /\ q.write.off + n # s => p.write.loop = q.write.loop
  BY <1>2, AdvanceFacts
<1>4. Ordered(p) /\ Run(q, s) <= Run(p, s) /\ Gap(p, s) = Gap(q, s) + n
  <2>1. CASE q.write.off + n = s
    <3>1. q.read.loop = q.write.loop
      BY <1>1, <2>1 DEF Room
    <3>2. p.read.loop # p.write.loop /\ p.write.off = 0 /\ p.read = q.read
      BY <1>1, <1>3, <2>1, <3>1
    <3> QED
      BY <1>1, <2>1, <3>1, <3>2 DEF Ordered, Run, Gap
  <2>2. CASE q.write.off + n # s
    <3>1. p.write.loop = q.write.loop /\ p.write.off = q.write.off + n /\ p.read = q.read
      BY <1>3, <2>2
    <3> QED
      BY <1>1, <1>2, <2>2, <3>1 DEF Ordered, Run, Room, Gap
  <2> QED
    BY <2>1, <2>2
<1>5. ASSUME NEW i \in 1 .. Gap(q, s)
      PROVE  Place(q, s, i) < q.write.off \/ Place(q, s, i) >= q.write.off + n
  <2> DEFINE x == q.read.off + i - 1
  <2>1. i \in Nat /\ i >= 1 /\ i <= Gap(q, s) /\ x \in Nat /\ x < s + s
    BY <1>1, <1>2
  <2>2. x % s = IF x < s THEN x ELSE x - s
    BY <2>1, ModFacts
  <2>3. x < q.write.off \/ (q.write.off + n <= x /\ x < s) \/ (s <= x /\ x - s < q.write.off)
    BY <1>1, <1>2, <2>1 DEF Gap, Room, Ordered
  <2> HIDE DEF x
  <2>4. x % s < q.write.off \/ x % s >= q.write.off + n
    BY <1>1, <2>1, <2>2, <2>3
  <2> QED
    BY <2>4 DEF x, Place
<1>6. ASSUME NEW i \in 1 .. n
      PROVE  Place(q, s, Gap(q, s) + i) = q.write.off + i - 1
  <2> DEFINE x == q.read.off + (Gap(q, s) + i) - 1
  <2>1. i \in Nat /\ i >= 1 /\ i <= n /\ x \in Nat /\ x < s + s
    BY <1>1, <1>2
  <2>2. x % s = IF x < s THEN x ELSE x - s
    BY <2>1, ModFacts
  <2>3. x = q.write.off + i - 1 \/ x = s + (q.write.off + i - 1)
    BY <1>1, <2>1 DEF Gap
  <2>4. q.write.off + i - 1 \in Nat /\ q.write.off + i - 1 < s
    BY <1>1, <1>2, <2>1
  <2> HIDE DEF x
  <2>5. x % s = q.write.off + i - 1
    BY <2>1, <2>2, <2>3, <2>4
  <2> QED
    BY <2>5 DEF x, Place
<1> QED
  BY <1>3, <1>4, <1>5, <1>6 DEF Place

-----------------------------------------------------------------------------
(* The four rings and the three threads that use them *)

LEMMA RingFacts ==
    ASSUME BufferInv, NEW r \in Rings
    PROVE  /\ Size(r) \in Nat /\ Size(r) > 0
           /\ rb[r].read \in CursorsOf(Size(r)) /\ rb[r].write \in CursorsOf(Size(r)) /\ Ordered(rb[r])
           /\ rb[r].mem \in [0 .. Size(r) - 1 -> Values] /\ rb[r].last \in Seq(Values)
           /\ Readable(r) = Run(rb[r], Size(r)) /\ Writable(r) = Room(rb[r], Size(r))
           /\ Distance(r) = Gap(rb[r], Size(r))
           /\ Readable(r)' = Run(rb'[r], Size(r)) /\ Writable(r)' = Room(rb'[r], Size(r))
           /\ Distance(r)' = Gap(rb'[r], Size(r))
<1>1. Size(r) \in Nat /\ Size(r) > 0
  BY SizeFacts
<1>2. /\ rb[r].read \in CursorsOf(Size(r)) /\ rb[r].write \in CursorsOf(Size(r)) /\ Ordered(rb[r])
      /\ rb[r].mem \in [0 .. Size(r) - 1 -> Values] /\ rb[r].last \in Seq(Values)
  BY DEF BufferInv, RingStates, Cursors, CursorsOf
<1>3. /\ Readable(r) = Run(rb[r], Size(r)) /\ Writable(r) = Room(rb[r], Size(r))
      /\ Distance(r) = Gap(rb[r], Size(r))
      /\ Readable(r)' = Run(rb'[r], Size(r)) /\ Writable(r)' = Room(rb'[r], Size(r))
      /\ Distance(r)' = Gap(rb'[r], Size(r))
  BY DEF Readable, Writable, Distance, Run, Room, Gap
<1> QED
  BY <1>1, <1>2, <1>3

(* A thread begins a transfer or ends it.                                  *)
LEMMA TransferSet ==
    ASSUME BufferInv, NEW t \in Threads, NEW x \in Transfers, x.n = 0, x.done <= x.want,
           x.kind = "none" => x = NoXfer,
           x.kind = "read" => t = Reader(x.ring) /\ Len(x.data) = x.done,
           x.kind = "write" => t = Writer(x.ring) /\ Len(x.data) = x.want,
           rb' = rb, xfer' = [xfer EXCEPT ![t] = x]
    PROVE  BufferInv'
<1>1. /\ xfer' \in [Threads -> Transfers] /\ xfer'[t] = x
      /\ \A u \in Threads : u # t => xfer'[u] = xfer[u]
  BY DEF BufferInv
<1>2. ASSUME NEW u \in Threads PROVE HoldInv(u)'
  <2>1. CASE u = t
    <3>1. x.done \in Nat
      BY DEF Transfers
    <3> QED
      BY <1>1, <2>1, <3>1 DEF HoldInv, Reader, Writer
  <2>2. CASE u # t
    <3>1. xfer'[u] = xfer[u] /\ HoldInv(u)
      BY <1>1, <2>2 DEF BufferInv
    <3>2. Available(xfer[u])' = Available(xfer[u])
      BY <1>1, <2>2 DEF Available, Readable, Writable
    <3> QED
      BY <3>1, <3>2 DEF HoldInv, Reader, Writer
  <2> QED
    BY <2>1, <2>2
<1> QED
  BY <1>1, <1>2 DEF BufferInv, RingStates, Ordered, Cursors

(* What a thread that transfers holds.                                     *)
LEMMA HoldFacts ==
    ASSUME BufferInv, NEW t \in Threads
    PROVE  LET x == xfer[t] IN
           /\ x.ring \in Rings /\ x.want \in Nat /\ x.done \in Nat /\ x.n \in Nat
           /\ x.data \in Seq(Values) /\ x.kind \in {"none", "read", "write"} /\ x \in Transfers
           /\ x.done + x.n <= x.want
           /\ x.kind = "none" => x = NoXfer /\ x.n = 0
           /\ x.kind = "read" => /\ t = Reader(x.ring) /\ Len(x.data) = x.done
                                 /\ x.n <= Run(rb[x.ring], Size(x.ring))
           /\ x.kind = "write" => /\ t = Writer(x.ring) /\ Len(x.data) = x.want
                                  /\ x.n <= Room(rb[x.ring], Size(x.ring))
<1> DEFINE x == xfer[t]
<1>1. /\ x.ring \in Rings /\ x.want \in Nat /\ x.done \in Nat /\ x.n \in Nat
      /\ x.data \in Seq(Values) /\ x.kind \in {"none", "read", "write"} /\ x \in Transfers
  BY DEF BufferInv, Transfers
<1>2. /\ x.done + x.n <= x.want
      /\ x.kind = "none" => x = NoXfer
      /\ x.kind = "read" => t = Reader(x.ring) /\ Len(x.data) = x.done
      /\ x.kind = "write" => t = Writer(x.ring) /\ Len(x.data) = x.want
      /\ x.n > 0 => x.n <= Available(x)
  BY DEF BufferInv, HoldInv
<1>3. NoXfer.n = 0
  BY DEF NoXfer
<1>4. /\ Readable(x.ring) = Run(rb[x.ring], Size(x.ring))
      /\ Writable(x.ring) = Room(rb[x.ring], Size(x.ring))
      /\ Run(rb[x.ring], Size(x.ring)) \in Nat /\ Room(rb[x.ring], Size(x.ring)) \in Nat
  BY <1>1, RingFacts, RingNow
<1> HIDE DEF x
<1>5. /\ x.kind = "read" => x.n <= Run(rb[x.ring], Size(x.ring))
      /\ x.kind = "write" => x.n <= Room(rb[x.ring], Size(x.ring))
  BY <1>1, <1>2, <1>4 DEF Available
<1> QED
  BY <1>1, <1>2, <1>3, <1>5 DEF x

LEMMA AcquireInv == ASSUME BufferInv, NEW t \in Threads, Acquire(t) PROVE BufferInv'
<1> DEFINE x == xfer[t]
           y == [x EXCEPT !.n = Least(x.want - x.done, Available(x))]
<1>1. /\ x.ring \in Rings /\ x.want \in Nat /\ x.done \in Nat /\ x \in Transfers
      /\ x.kind = "read" => t = Reader(x.ring) /\ Len(x.data) = x.done
      /\ x.kind = "write" => t = Writer(x.ring) /\ Len(x.data) = x.want
      /\ x.kind \in {"none", "read", "write"}
  BY HoldFacts
<1>2. /\ x.kind # "none" /\ x.done < x.want /\ Available(x) > 0
      /\ xfer' = [xfer EXCEPT ![t] = y] /\ rb' = rb
  BY DEF Acquire, BufferInv
<1>3. Available(x) \in Nat
  BY <1>1, RingFacts, RingNow DEF Available
<1>4. /\ y.n \in Nat /\ y.n <= x.want - x.done /\ y.n <= Available(x)
      /\ y.kind = x.kind /\ y.ring = x.ring /\ y.want = x.want /\ y.done = x.done /\ y.data = x.data
      /\ y \in Transfers
  BY <1>1, <1>2, <1>3 DEF Least, Transfers
<1> HIDE DEF x, y
<1>5. /\ xfer' \in [Threads -> Transfers] /\ xfer'[t] = y
      /\ \A u \in Threads : u # t => xfer'[u] = xfer[u]
  BY <1>2, <1>4 DEF BufferInv
<1>6. ASSUME NEW u \in Threads PROVE HoldInv(u)'
  <2>1. CASE u = t
    <3>1. xfer'[u] = y /\ xfer'[u].kind = x.kind /\ xfer'[u].ring = x.ring
      BY <1>4, <1>5, <2>1
    <3>2. xfer'[u] = y /\ Available(xfer[u])' = Available(x)
      BY <1>2, <3>1 DEF Available, Readable, Writable
    <3> QED
      BY <1>1, <1>2, <1>4, <3>2, <2>1 DEF HoldInv, Reader, Writer
  <2>2. CASE u # t
    <3>1. xfer'[u] = xfer[u] /\ HoldInv(u)
      BY <1>5, <2>2 DEF BufferInv
    <3>2. Available(xfer[u])' = Available(xfer[u])
      BY <1>2, <1>5, <2>2 DEF Available, Readable, Writable
    <3> QED
      BY <3>1, <3>2 DEF HoldInv, Reader, Writer
  <2> QED
    BY <2>1, <2>2
<1> QED
  BY <1>2, <1>5, <1>6 DEF BufferInv, RingStates, Ordered, Cursors

(* What a thread takes when it commits a read.                             *)
Piece(t) == [i \in 1 .. xfer[t].n |-> rb[xfer[t].ring].mem[rb[xfer[t].ring].read.off + i - 1]]

LEMMA PieceFacts ==
    ASSUME BufferInv, NEW t \in Threads, xfer[t].kind = "read", NEW r, r = xfer[t].ring
    PROVE  /\ Piece(t) \in Seq(Values) /\ Len(Piece(t)) = xfer[t].n
           /\ \A i \in 1 .. xfer[t].n : /\ Piece(t)[i] = rb[r].mem[Place(rb[r], Size(r), i)]
                                        /\ Piece(t)[i] \in Values
<1>1. /\ r \in Rings /\ xfer[t].n \in Nat /\ xfer[t].n <= Run(rb[r], Size(r))
  BY HoldFacts
<1>2. /\ Size(r) \in Nat /\ Size(r) > 0
      /\ rb[r].read \in CursorsOf(Size(r)) /\ rb[r].write \in CursorsOf(Size(r)) /\ Ordered(rb[r])
      /\ rb[r].mem \in [0 .. Size(r) - 1 -> Values]
  BY <1>1, RingFacts
<1>3. /\ Run(rb[r], Size(r)) \in Nat /\ rb[r].read.off + Run(rb[r], Size(r)) <= Size(r)
      /\ \A i \in 1 .. Run(rb[r], Size(r)) : Place(rb[r], Size(r), i) = rb[r].read.off + i - 1
  BY <1>2, RingNow
<1>4. rb[r].read.off \in Nat
  BY <1>2 DEF CursorsOf
<1>5. ASSUME NEW i \in 1 .. xfer[t].n
      PROVE  /\ rb[r].mem[rb[r].read.off + i - 1] \in Values
             /\ rb[r].read.off + i - 1 = Place(rb[r], Size(r), i)
  <2>1. rb[r].read.off + i - 1 \in 0 .. Size(r) - 1
    BY <1>1, <1>2, <1>3, <1>4, SMTT(30)
  <2> QED
    BY <1>1, <1>2, <1>3, <2>1
<1>6. Piece(t) = [i \in 1 .. xfer[t].n |-> rb[r].mem[rb[r].read.off + i - 1]]
  BY DEF Piece
<1>7. Piece(t) \in Seq(Values) /\ Len(Piece(t)) = xfer[t].n
  BY <1>1, <1>5, <1>6
<1> QED
  BY <1>5, <1>6, <1>7

LEMMA ConcatFacts ==
    ASSUME NEW S, NEW a \in Seq(S), NEW b \in Seq(S)
    PROVE  /\ a \o b \in Seq(S) /\ Len(a \o b) = Len(a) + Len(b)
           /\ Len(a) \in Nat /\ Len(b) \in Nat
           /\ \A i \in 1 .. Len(a) : (a \o b)[i] = a[i]
           /\ \A i \in 1 .. Len(b) : (a \o b)[Len(a) + i] = b[i]
OBVIOUS

LEMMA TransferType ==
    ASSUME NEW kind \in {"none", "read", "write"}, NEW ring \in Rings, NEW want \in Nat,
           NEW done \in Nat, NEW n \in Nat, NEW data \in Seq(Values)
    PROVE  [kind |-> kind, ring |-> ring, want |-> want, done |-> done, n |-> n, data |-> data]
               \in Transfers
BY DEF Transfers

LEMMA CommitReadFacts ==
    ASSUME BufferInv, NEW t \in Threads, CommitRead(t), NEW r, r = xfer[t].ring
    PROVE  /\ xfer[t].kind = "read" /\ xfer[t].n > 0
           /\ rb' = [s \in Rings |-> rb'[s]] /\ \A s \in Rings : s # r => rb'[s] = rb[s]
           /\ rb'[r].read = Advance(rb[r].read, xfer[t].n, Size(r)) /\ rb'[r].write = rb[r].write
           /\ rb'[r].mem = rb[r].mem /\ rb'[r].last = Piece(t)
           /\ rb'[r] \in RingStates(r) /\ Ordered(rb'[r])
           /\ \A u \in Threads : u # t => xfer'[u] = xfer[u]
           /\ xfer'[t].n = 0 /\ xfer'[t].done = xfer[t].done + xfer[t].n
           /\ xfer'[t].data = xfer[t].data \o Piece(t)
           /\ xfer'[t].kind = "read" /\ xfer'[t].ring = r /\ xfer'[t].want = xfer[t].want
           /\ xfer' \in [Threads -> Transfers]
<1>1. /\ r \in Rings /\ xfer[t].n \in Nat /\ xfer[t].done \in Nat /\ xfer[t].data \in Seq(Values)
      /\ xfer[t].kind = "read" => xfer[t].n <= Run(rb[r], Size(r))
      /\ xfer[t] \in Transfers
  BY HoldFacts
<1>2. /\ xfer[t].kind = "read" /\ xfer[t].n > 0
      /\ rb' = [rb EXCEPT ![r].read = Advance(rb[r].read, xfer[t].n, Size(r)), ![r].last = Piece(t)]
      /\ xfer' = [xfer EXCEPT ![t].n = 0, ![t].done = xfer[t].done + xfer[t].n,
                              ![t].data = xfer[t].data \o Piece(t)]
  BY DEF CommitRead, Piece
<1>3. Piece(t) \in Seq(Values)
  BY <1>2, PieceFacts
<1>4. /\ Size(r) \in Nat /\ Size(r) > 0 /\ rb[r].read \in CursorsOf(Size(r))
      /\ rb[r].write \in CursorsOf(Size(r)) /\ Ordered(rb[r])
  BY <1>1, RingFacts
<1>5. rb[r].read.off + xfer[t].n <= Size(r)
  <2>1. rb[r].read.off + Run(rb[r], Size(r)) <= Size(r) /\ Run(rb[r], Size(r)) \in Nat
    BY <1>4, RingNow
  <2>2. rb[r].read.off \in Nat
    BY <1>4 DEF CursorsOf
  <2> QED
    BY <1>1, <1>2, <1>4, <2>1, <2>2
<1>6. Advance(rb[r].read, xfer[t].n, Size(r)) \in Cursors(r)
  BY <1>1, <1>4, <1>5, AdvanceFacts DEF Cursors, CursorsOf
<1>7. /\ rb = [s \in Rings |-> rb[s]] /\ rb[r] \in RingStates(r)
  BY <1>1 DEF BufferInv
<1>8. /\ rb' = [s \in Rings |-> rb'[s]] /\ \A s \in Rings : s # r => rb'[s] = rb[s]
      /\ rb'[r] = [rb[r] EXCEPT !.read = Advance(rb[r].read, xfer[t].n, Size(r)), !.last = Piece(t)]
  BY <1>1, <1>2, <1>7, ZenonT(40)
<1>9. /\ rb'[r].read = Advance(rb[r].read, xfer[t].n, Size(r)) /\ rb'[r].write = rb[r].write
      /\ rb'[r].mem = rb[r].mem /\ rb'[r].last = Piece(t)
      /\ rb'[r] \in RingStates(r)
  BY <1>3, <1>6, <1>7, <1>8 DEF RingStates
<1>10. Ordered(rb'[r])
  BY <1>1, <1>2, <1>4, <1>9, ReadEnd
<1>11. xfer[t].data \o Piece(t) \in Seq(Values)
  BY <1>1, <1>3
<1>12. xfer'[t] = [xfer[t] EXCEPT !.n = 0, !.done = xfer[t].done + xfer[t].n,
                                  !.data = xfer[t].data \o Piece(t)]
       /\ xfer' = [xfer EXCEPT ![t] = xfer'[t]]
  BY <1>2 DEF BufferInv
<1> DEFINE data == xfer[t].data \o Piece(t)
<1>13. /\ xfer'[t] \in Transfers
       /\ xfer'[t].n = 0 /\ xfer'[t].done = xfer[t].done + xfer[t].n /\ xfer'[t].data = data
       /\ xfer'[t].kind = "read" /\ xfer'[t].ring = r /\ xfer'[t].want = xfer[t].want
  <2>1. data \in Seq(Values) /\ xfer[t].done + xfer[t].n \in Nat
    BY <1>1, <1>11
  <2>2. xfer'[t] = [xfer[t] EXCEPT !.n = 0, !.done = xfer[t].done + xfer[t].n, !.data = data]
    BY <1>12
  <2> HIDE DEF data
  <2> DEFINE done == xfer[t].done + xfer[t].n
  <2>3. xfer'[t] = [xfer[t] EXCEPT !.n = 0, !.done = done, !.data = data] /\ done \in Nat
    BY <2>1, <2>2
  <2> HIDE DEF done
  <2>4. xfer'[t].n = 0 /\ xfer'[t].done = done /\ xfer'[t].data = data
    BY <1>1, <2>3 DEF Transfers
  <2>5. xfer'[t].kind = xfer[t].kind /\ xfer'[t].ring = r /\ xfer'[t].want = xfer[t].want
    BY <1>1, <2>3 DEF Transfers
  <2>6. xfer'[t] \in Transfers
    <3>1. xfer'[t] = [kind |-> xfer[t].kind, ring |-> xfer[t].ring, want |-> xfer[t].want,
                      done |-> done, n |-> 0, data |-> data]
      BY <1>1, <2>3 DEF Transfers
    <3>2. xfer[t].kind \in {"none", "read", "write"} /\ xfer[t].ring \in Rings /\ xfer[t].want \in Nat
      BY <1>1 DEF Transfers
    <3>3. data \in Seq(Values) /\ done \in Nat /\ 0 \in Nat
      BY <2>1, <2>3
    <3>4. [kind |-> xfer[t].kind, ring |-> xfer[t].ring, want |-> xfer[t].want,
                      done |-> done, n |-> 0, data |-> data] \in Transfers
      BY <3>2, <3>3, TransferType, Zenon
    <3> QED
      BY <3>1, <3>4
  <2> QED
    BY <1>2, <2>4, <2>5, <2>6 DEF done
<1>14. /\ xfer' \in [Threads -> Transfers] /\ \A u \in Threads : u # t => xfer'[u] = xfer[u]
  BY <1>12, <1>13 DEF BufferInv
<1> QED
  BY <1>2, <1>8, <1>9, <1>10, <1>13, <1>14

(* A commit at one end of a ring leaves what the other threads hold to     *)
(* them.                                                                   *)
LEMMA OthersHold ==
    ASSUME BufferInv, NEW t \in Threads, NEW u \in Threads, u # t, xfer'[u] = xfer[u],
           NEW r \in Rings, r = xfer[t].ring, xfer[t].kind # "none",
           \A s \in Rings : s # r => rb'[s] = rb[s],
           t = Reader(r) => Room(rb[r], Size(r)) <= Room(rb'[r], Size(r)),
           t = Writer(r) => Run(rb[r], Size(r)) <= Run(rb'[r], Size(r)),
           Room(rb'[r], Size(r)) \in Nat, Run(rb'[r], Size(r)) \in Nat
    PROVE  HoldInv(u)'
<1> DEFINE x == xfer[u]
<1>1. HoldInv(u) /\ x.ring \in Rings /\ x.n \in Nat
  BY HoldFacts DEF BufferInv
<1>2. /\ t = Reader(r) \/ t = Writer(r)
      /\ x.kind \in {"none", "read", "write"}
      /\ x.kind = "none" => x.n = 0
      /\ x.kind = "read" => u = Reader(x.ring)
      /\ x.kind = "write" => u = Writer(x.ring)
  BY HoldFacts
<1>3. /\ Readable(x.ring) = Run(rb[x.ring], Size(x.ring)) /\ Writable(x.ring) = Room(rb[x.ring], Size(x.ring))
      /\ Run(rb[x.ring], Size(x.ring)) \in Nat /\ Room(rb[x.ring], Size(x.ring)) \in Nat
  BY <1>1, RingFacts, RingNow
<1>4. \A s \in Rings : Readable(s)' = Run(rb'[s], Size(s)) /\ Writable(s)' = Room(rb'[s], Size(s))
  BY RingFacts
<1>5. x.n > 0 => x.n <= (IF x.kind = "read" THEN Run(rb'[x.ring], Size(x.ring))
                                            ELSE Room(rb'[x.ring], Size(x.ring)))
  <2>1. x.n > 0 => x.n <= (IF x.kind = "read" THEN Run(rb[x.ring], Size(x.ring))
                                              ELSE Room(rb[x.ring], Size(x.ring)))
    BY <1>1, <1>3 DEF HoldInv, Available
  <2>2. CASE x.ring # r
    BY <1>1, <2>1, <2>2
  <2>3. CASE x.ring = r /\ x.kind = "read"
    <3>1. t = Writer(r)
      BY <1>2, <2>3
    <3> QED
      BY <1>1, <1>3, <2>1, <2>3, <3>1
  <2>4. CASE x.ring = r /\ x.kind = "write"
    <3>1. t = Reader(r)
      BY <1>2, <2>4
    <3> QED
      BY <1>1, <1>3, <2>1, <2>4, <3>1
  <2> QED
    BY <1>2, <2>2, <2>3, <2>4
<1>6. Available(xfer[u])' = IF x.kind = "read" THEN Run(rb'[x.ring], Size(x.ring))
                                               ELSE Room(rb'[x.ring], Size(x.ring))
  BY <1>1, <1>4 DEF Available
<1> QED
  BY <1>1, <1>5, <1>6 DEF HoldInv, Reader, Writer

LEMMA CommitReadInv == ASSUME BufferInv, NEW t \in Threads, CommitRead(t) PROVE BufferInv'
<1> PICK r : r = xfer[t].ring
  OBVIOUS
<1>1. /\ r \in Rings /\ xfer[t].n \in Nat /\ xfer[t].done \in Nat /\ xfer[t].want \in Nat
      /\ xfer[t].data \in Seq(Values) /\ xfer[t].done + xfer[t].n <= xfer[t].want
      /\ xfer[t].kind = "read" => /\ xfer[t].n <= Run(rb[r], Size(r))
                                  /\ t = Reader(r) /\ Len(xfer[t].data) = xfer[t].done
  BY HoldFacts
<1>2. /\ xfer[t].kind = "read" /\ xfer[t].n > 0
      /\ rb' = [s \in Rings |-> rb'[s]] /\ \A s \in Rings : s # r => rb'[s] = rb[s]
      /\ rb'[r].read = Advance(rb[r].read, xfer[t].n, Size(r)) /\ rb'[r].write = rb[r].write
      /\ rb'[r] \in RingStates(r) /\ Ordered(rb'[r])
  BY CommitReadFacts
<1>3. /\ \A u \in Threads : u # t => xfer'[u] = xfer[u]
      /\ xfer'[t].n = 0 /\ xfer'[t].done = xfer[t].done + xfer[t].n
      /\ xfer'[t].data = xfer[t].data \o Piece(t)
      /\ xfer'[t].kind = "read" /\ xfer'[t].ring = r /\ xfer'[t].want = xfer[t].want
      /\ xfer' \in [Threads -> Transfers]
  BY CommitReadFacts
<1>4. /\ Size(r) \in Nat /\ Size(r) > 0 /\ rb[r].read \in CursorsOf(Size(r))
      /\ rb[r].write \in CursorsOf(Size(r)) /\ Ordered(rb[r])
  BY <1>1, RingFacts
<1>5. Room(rb[r], Size(r)) <= Room(rb'[r], Size(r)) /\ rb'[r].read \in CursorsOf(Size(r))
  BY <1>1, <1>2, <1>4, ReadEnd
<1>6. Room(rb'[r], Size(r)) \in Nat /\ Run(rb'[r], Size(r)) \in Nat
  BY <1>2, <1>4, <1>5, RingNow
<1>7. ASSUME NEW u \in Threads PROVE HoldInv(u)'
  <2>1. CASE u = t
    <3>1. Len(xfer'[t].data) = xfer'[t].done
      <4>1. Piece(t) \in Seq(Values) /\ Len(Piece(t)) = xfer[t].n
        BY <1>2, PieceFacts
      <4>2. Len(xfer[t].data \o Piece(t)) = Len(xfer[t].data) + Len(Piece(t))
        BY <1>1, <4>1, ConcatFacts
      <4>3. Len(xfer[t].data) = xfer[t].done
        BY <1>1, <1>2
      <4> QED
        BY <1>3, <4>1, <4>2, <4>3
    <3>2. xfer'[t].done + xfer'[t].n <= xfer'[t].want
      BY <1>1, <1>3
    <3>3. t = Reader(xfer'[t].ring)
      BY <1>1, <1>2, <1>3
    <3>4. xfer'[t].kind = "read" /\ xfer'[t].n = 0
      BY <1>3
    <3> QED
      BY <2>1, <3>1, <3>2, <3>3, <3>4 DEF HoldInv
  <2>2. CASE u # t
    <3>1. t # Writer(r)
      BY <1>1, <1>2 DEF Reader, Writer, Rings, Outputs
    <3> QED
      BY <1>1, <1>2, <1>3, <1>5, <1>6, <2>2, <3>1, OthersHold
  <2> QED
    BY <2>1, <2>2
<1>8. \A s \in Rings : rb'[s] \in RingStates(s) /\ Ordered(rb'[s])
  BY <1>2 DEF BufferInv
<1> QED
  BY <1>2, <1>3, <1>7, <1>8 DEF BufferInv, RingStates, Ordered, Cursors

(* What a thread puts when it commits a write, and where.                  *)
LEMMA HeldToWrite ==
    ASSUME BufferInv, NEW t \in Threads, xfer[t].kind = "write", NEW r, r = xfer[t].ring, NEW i \in Nat
    PROVE  i \in Held(t) <=> rb[r].write.off <= i /\ i < rb[r].write.off + xfer[t].n
<1>1. r \in Rings /\ xfer[t].n \in Nat
  BY HoldFacts
<1>2. rb[r].write.off \in Nat
  BY <1>1, RingFacts DEF CursorsOf
<1>3. Held(t) = {rb[r].write.off + j : j \in 0 .. xfer[t].n - 1}
  BY DEF Held
<1>4. ASSUME rb[r].write.off <= i, i < rb[r].write.off + xfer[t].n PROVE i \in Held(t)
  <2>1. i - rb[r].write.off \in 0 .. xfer[t].n - 1 /\ i = rb[r].write.off + (i - rb[r].write.off)
    BY <1>1, <1>2, <1>4
  <2> QED
    BY <1>3, <2>1
<1> QED
  BY <1>1, <1>2, <1>3, <1>4

LEMMA CommitWriteFacts ==
    ASSUME BufferInv, NEW t \in Threads, CommitWrite(t), NEW r, r = xfer[t].ring
    PROVE  /\ xfer[t].kind = "write" /\ xfer[t].n > 0
           /\ rb' = [s \in Rings |-> rb'[s]] /\ \A s \in Rings : s # r => rb'[s] = rb[s]
           /\ rb'[r].write = Advance(rb[r].write, xfer[t].n, Size(r)) /\ rb'[r].read = rb[r].read
           /\ rb'[r].last = rb[r].last
           /\ \A i \in 0 .. Size(r) - 1 :
                 rb'[r].mem[i] = IF rb[r].write.off <= i /\ i < rb[r].write.off + xfer[t].n
                                 THEN xfer[t].data[xfer[t].done + 1 + i - rb[r].write.off]
                                 ELSE rb[r].mem[i]
           /\ rb'[r] \in RingStates(r) /\ Ordered(rb'[r])
           /\ \A u \in Threads : u # t => xfer'[u] = xfer[u]
           /\ xfer'[t].n = 0 /\ xfer'[t].done = xfer[t].done + xfer[t].n
           /\ xfer'[t].data = xfer[t].data
           /\ xfer'[t].kind = "write" /\ xfer'[t].ring = r /\ xfer'[t].want = xfer[t].want
           /\ xfer' \in [Threads -> Transfers]
<1>1. /\ r \in Rings /\ xfer[t].n \in Nat /\ xfer[t].done \in Nat /\ xfer[t].want \in Nat
      /\ xfer[t].data \in Seq(Values) /\ xfer[t].done + xfer[t].n <= xfer[t].want
      /\ xfer[t].kind = "write" => xfer[t].n <= Room(rb[r], Size(r)) /\ Len(xfer[t].data) = xfer[t].want
      /\ xfer[t] \in Transfers
  BY HoldFacts
<1> DEFINE mem == [i \in DOMAIN rb[r].mem |->
                      IF i \in Held(t) THEN xfer[t].data[xfer[t].done + 1 + i - rb[r].write.off]
                      ELSE rb[r].mem[i]]
           end == Advance(rb[r].write, xfer[t].n, Size(r))
<1>2. /\ xfer[t].kind = "write" /\ xfer[t].n > 0
      /\ rb' = [rb EXCEPT ![r].write = end, ![r].mem = mem]
      /\ xfer' = [xfer EXCEPT ![t].n = 0, ![t].done = xfer[t].done + xfer[t].n]
  BY DEF CommitWrite
<1>4. /\ Size(r) \in Nat /\ Size(r) > 0 /\ rb[r].read \in CursorsOf(Size(r))
      /\ rb[r].write \in CursorsOf(Size(r)) /\ Ordered(rb[r])
      /\ rb[r].mem \in [0 .. Size(r) - 1 -> Values]
  BY <1>1, RingFacts
<1>a. rb[r].write.off \in Nat
  BY <1>4 DEF CursorsOf
<1>5. rb[r].write.off + xfer[t].n <= Size(r)
  <2>1. rb[r].write.off + Room(rb[r], Size(r)) <= Size(r) /\ Room(rb[r], Size(r)) \in Nat
    BY <1>4, RingNow
  <2> QED
    BY <1>1, <1>2, <1>4, <1>a, <2>1
<1>6. end \in Cursors(r)
  BY <1>1, <1>4, <1>5, AdvanceFacts DEF Cursors, CursorsOf
<1>b. ASSUME NEW i \in 0 .. Size(r) - 1
      PROVE  /\ mem[i] = IF rb[r].write.off <= i /\ i < rb[r].write.off + xfer[t].n
                         THEN xfer[t].data[xfer[t].done + 1 + i - rb[r].write.off]
                         ELSE rb[r].mem[i]
             /\ mem[i] \in Values
  <2>1. i \in Nat /\ i \in DOMAIN rb[r].mem
    BY <1>4
  <2>2. i \in Held(t) <=> rb[r].write.off <= i /\ i < rb[r].write.off + xfer[t].n
    BY <1>2, <2>1, HeldToWrite
  <2>3. mem[i] = IF rb[r].write.off <= i /\ i < rb[r].write.off + xfer[t].n
                 THEN xfer[t].data[xfer[t].done + 1 + i - rb[r].write.off]
                 ELSE rb[r].mem[i]
    BY <2>1, <2>2
  <2>4. CASE rb[r].write.off <= i /\ i < rb[r].write.off + xfer[t].n
    <3>0. Len(xfer[t].data) = xfer[t].want
      BY <1>1, <1>2
    <3>1. xfer[t].done + 1 + i - rb[r].write.off \in 1 .. Len(xfer[t].data)
      <4> PICK w, n, k, d : w = rb[r].write.off /\ n = xfer[t].n /\ k = xfer[t].want /\ d = xfer[t].done
        OBVIOUS
      <4>1. w \in Nat /\ n \in Nat /\ k \in Nat /\ d \in Nat /\ d + n <= k /\ w <= i /\ i < w + n
        BY <1>1, <1>a, <2>4
      <4>2. d + 1 + i - w \in 1 .. k
        BY <2>1, <4>1
      <4> QED
        BY <3>0, <4>2
    <3>2. xfer[t].data[xfer[t].done + 1 + i - rb[r].write.off] \in Values
      BY <1>1, <3>1
    <3> QED
      BY <2>3, <2>4, <3>2
  <2>5. CASE ~(rb[r].write.off <= i /\ i < rb[r].write.off + xfer[t].n)
    BY <1>4, <2>3, <2>5
  <2> QED
    BY <2>3, <2>4, <2>5
<1>c. mem \in [0 .. Size(r) - 1 -> Values]
  <2>1. mem = [i \in 0 .. Size(r) - 1 |-> mem[i]]
    BY <1>4
  <2> HIDE DEF mem
  <2> QED
    BY <1>b, <2>1
<1> HIDE DEF mem, end
<1>7. /\ rb = [s \in Rings |-> rb[s]] /\ rb[r] \in RingStates(r)
  BY <1>1 DEF BufferInv
<1>8. /\ rb' = [s \in Rings |-> rb'[s]] /\ \A s \in Rings : s # r => rb'[s] = rb[s]
      /\ rb'[r] = [rb[r] EXCEPT !.write = end, !.mem = mem]
  BY <1>1, <1>2, <1>7
<1>9. /\ rb'[r].write = end /\ rb'[r].read = rb[r].read
      /\ rb'[r].mem = mem /\ rb'[r].last = rb[r].last
      /\ rb'[r] \in RingStates(r)
  BY <1>6, <1>7, <1>8, <1>c DEF RingStates
<1>10. Ordered(rb'[r])
  BY <1>1, <1>2, <1>4, <1>9, WriteEnd DEF end
<1>12. /\ xfer'[t] = [xfer[t] EXCEPT !.n = 0, !.done = xfer[t].done + xfer[t].n]
       /\ xfer' = [xfer EXCEPT ![t] = xfer'[t]]
  BY <1>2 DEF BufferInv
<1>13. /\ xfer'[t] \in Transfers
       /\ xfer'[t].n = 0 /\ xfer'[t].done = xfer[t].done + xfer[t].n
       /\ xfer'[t].data = xfer[t].data
       /\ xfer'[t].kind = "write" /\ xfer'[t].ring = r /\ xfer'[t].want = xfer[t].want
  <2> DEFINE done == xfer[t].done + xfer[t].n
  <2>1. done \in Nat /\ 0 \in Nat /\ xfer'[t] = [xfer[t] EXCEPT !.n = 0, !.done = done]
    BY <1>1, <1>12
  <2> HIDE DEF done
  <2>2. xfer'[t] = [kind |-> xfer[t].kind, ring |-> xfer[t].ring, want |-> xfer[t].want,
                    done |-> done, n |-> 0, data |-> xfer[t].data]
    BY <1>1, <2>1 DEF Transfers
  <2>3. xfer[t].kind \in {"none", "read", "write"} /\ xfer[t].ring \in Rings /\ xfer[t].want \in Nat
    BY <1>1 DEF Transfers
  <2>4. [kind |-> xfer[t].kind, ring |-> xfer[t].ring, want |-> xfer[t].want,
         done |-> done, n |-> 0, data |-> xfer[t].data] \in Transfers
    BY <1>1, <2>1, <2>3, TransferType, Zenon
  <2> QED
    BY <1>2, <2>2, <2>4 DEF done
<1>14. /\ xfer' \in [Threads -> Transfers] /\ \A u \in Threads : u # t => xfer'[u] = xfer[u]
  BY <1>12, <1>13 DEF BufferInv
<1> QED
  BY <1>2, <1>8, <1>9, <1>10, <1>b, <1>13, <1>14 DEF end

LEMMA CommitWriteInv == ASSUME BufferInv, NEW t \in Threads, CommitWrite(t) PROVE BufferInv'
<1> PICK r : r = xfer[t].ring
  OBVIOUS
<1>1. /\ r \in Rings /\ xfer[t].n \in Nat /\ xfer[t].done \in Nat /\ xfer[t].want \in Nat
      /\ xfer[t].done + xfer[t].n <= xfer[t].want
      /\ xfer[t].kind = "write" => /\ xfer[t].n <= Room(rb[r], Size(r))
                                   /\ t = Writer(r) /\ Len(xfer[t].data) = xfer[t].want
  BY HoldFacts
<1>2. /\ xfer[t].kind = "write" /\ xfer[t].n > 0
      /\ rb' = [s \in Rings |-> rb'[s]] /\ \A s \in Rings : s # r => rb'[s] = rb[s]
      /\ rb'[r].write = Advance(rb[r].write, xfer[t].n, Size(r)) /\ rb'[r].read = rb[r].read
      /\ rb'[r] \in RingStates(r) /\ Ordered(rb'[r])
  BY CommitWriteFacts
<1>3. /\ \A u \in Threads : u # t => xfer'[u] = xfer[u]
      /\ xfer'[t].n = 0 /\ xfer'[t].done = xfer[t].done + xfer[t].n
      /\ xfer'[t].data = xfer[t].data
      /\ xfer'[t].kind = "write" /\ xfer'[t].ring = r /\ xfer'[t].want = xfer[t].want
      /\ xfer' \in [Threads -> Transfers]
  BY CommitWriteFacts
<1>4. /\ Size(r) \in Nat /\ Size(r) > 0 /\ rb[r].read \in CursorsOf(Size(r))
      /\ rb[r].write \in CursorsOf(Size(r)) /\ Ordered(rb[r])
  BY <1>1, RingFacts
<1>5. Run(rb[r], Size(r)) <= Run(rb'[r], Size(r)) /\ rb'[r].write \in CursorsOf(Size(r))
  BY <1>1, <1>2, <1>4, WriteEnd
<1>6. Room(rb'[r], Size(r)) \in Nat /\ Run(rb'[r], Size(r)) \in Nat
  BY <1>2, <1>4, <1>5, RingNow
<1>7. ASSUME NEW u \in Threads PROVE HoldInv(u)'
  <2>1. CASE u = t
    <3>1. Len(xfer'[t].data) = xfer'[t].want
      BY <1>1, <1>2, <1>3
    <3>2. xfer'[t].done + xfer'[t].n <= xfer'[t].want
      BY <1>1, <1>3
    <3>3. t = Writer(xfer'[t].ring)
      BY <1>1, <1>2, <1>3
    <3>4. xfer'[t].kind = "write" /\ xfer'[t].n = 0
      BY <1>3
    <3> QED
      BY <2>1, <3>1, <3>2, <3>3, <3>4 DEF HoldInv
  <2>2. CASE u # t
    <3>1. t # Reader(r)
      BY <1>1, <1>2 DEF Reader, Writer, Rings, Outputs
    <3> QED
      BY <1>1, <1>2, <1>3, <1>5, <1>6, <2>2, <3>1, OthersHold
  <2> QED
    BY <2>1, <2>2
<1>8. \A s \in Rings : rb'[s] \in RingStates(s) /\ Ordered(rb'[s])
  BY <1>2 DEF BufferInv
<1> QED
  BY <1>2, <1>3, <1>7, <1>8 DEF BufferInv, RingStates, Ordered, Cursors

LEMMA RingStepInv == ASSUME RingInv, NEW t \in Threads, RingStep(t) PROVE RingInv'
<1>0. BufferInv /\ PlaceInv /\ CounterType
  BY DEF RingInv
<1>1. BufferInv'
  BY <1>0, AcquireInv, CommitReadInv, CommitWriteInv DEF RingStep
<1>2. UNCHANGED <<dev, counters, flags, pending, worker, cb, calls>>
  BY DEF RingStep
<1>3. /\ \A u \in Threads : u # t => xfer'[u] = xfer[u]
      /\ xfer[t].kind # "none" /\ xfer'[t].kind = xfer[t].kind /\ xfer'[t].ring = xfer[t].ring
  <2>1. CASE Acquire(t)
    <3>1. xfer[t] \in Transfers /\ xfer \in [Threads -> Transfers]
      BY <1>0, HoldFacts DEF BufferInv
    <3> QED
      BY <2>1, <3>1 DEF Acquire, Transfers
  <2>2. CASE CommitRead(t)
    BY <1>0, <2>2, CommitReadFacts
  <2>3. CASE CommitWrite(t)
    BY <1>0, <2>3, CommitWriteFacts
  <2> QED
    BY <2>1, <2>2, <2>3 DEF RingStep
<1>4. NoXfer.kind = "none"
  BY DEF NoXfer
<1>5. "worker" \in Threads /\ "output" \in Threads /\ "input" \in Threads
  BY DEF Threads
<1>6. WorkerPlace'
  BY <1>0, <1>2, <1>3, <1>4, <1>5 DEF PlaceInv, WorkerPlace
<1>7. OutputPlace'
  BY <1>0, <1>2, <1>3, <1>4, <1>5 DEF PlaceInv, OutputPlace, Output
<1>8. InputPlace' /\ CallbackPlace'
  BY <1>0, <1>2, <1>3, <1>4, <1>5 DEF PlaceInv, InputPlace, Input, CallbackPlace
<1>9. CounterType'
  BY <1>0, <1>2 DEF CounterType, counters, flags, Input
<1> QED
  BY <1>1, <1>6, <1>7, <1>8, <1>9 DEF RingInv, PlaceInv

LEMMA SpecialTransfers ==
    /\ NoXfer \in Transfers /\ NoXfer.n = 0 /\ NoXfer.done = 0 /\ NoXfer.want = 0 /\ NoXfer.kind = "none"
    /\ \A r \in Rings, count \in Nat :
          /\ Reading(r, count) \in Transfers /\ Reading(r, count).n = 0 /\ Reading(r, count).done = 0
          /\ Reading(r, count).want = count /\ Reading(r, count).kind = "read"
          /\ Reading(r, count).ring = r /\ Reading(r, count).data = <<>>
    /\ \A r \in Rings, items \in Seq(Values) :
          /\ Writing(r, items) \in Transfers /\ Writing(r, items).n = 0 /\ Writing(r, items).done = 0
          /\ Writing(r, items).want = Len(items) /\ Writing(r, items).kind = "write"
          /\ Writing(r, items).ring = r /\ Writing(r, items).data = items
<1>1. NoXfer \in Transfers /\ NoXfer.n = 0 /\ NoXfer.done = 0 /\ NoXfer.want = 0 /\ NoXfer.kind = "none"
  <2>1. <<>> \in Seq(Values) /\ "playback" \in Rings
    BY DEF Rings, Outputs
  <2> QED
    BY <2>1 DEF NoXfer, Transfers
<1>2. ASSUME NEW r \in Rings, NEW count \in Nat
      PROVE  /\ Reading(r, count) \in Transfers /\ Reading(r, count).n = 0 /\ Reading(r, count).done = 0
             /\ Reading(r, count).want = count /\ Reading(r, count).kind = "read"
             /\ Reading(r, count).ring = r /\ Reading(r, count).data = <<>>
  <2>1. Reading(r, count) = [kind |-> "read", ring |-> r, want |-> count, done |-> 0, n |-> 0, data |-> <<>>]
    <3> PICK x : x = Reading(r, count)
      OBVIOUS
    <3>1. x = [kind |-> "read", ring |-> r, want |-> count, done |-> 0, n |-> 0, data |-> <<>>]
      BY DEF Reading, NoXfer
    <3> QED
      BY <3>1
  <2>2. <<>> \in Seq(Values)
    OBVIOUS
  <2> QED
    BY <2>1, <2>2 DEF Transfers
<1>3. ASSUME NEW r \in Rings, NEW items \in Seq(Values)
      PROVE  /\ Writing(r, items) \in Transfers /\ Writing(r, items).n = 0 /\ Writing(r, items).done = 0
             /\ Writing(r, items).want = Len(items) /\ Writing(r, items).kind = "write"
             /\ Writing(r, items).ring = r /\ Writing(r, items).data = items
  <2>1. Writing(r, items) = [kind |-> "write", ring |-> r, want |-> Len(items), done |-> 0, n |-> 0,
                             data |-> items]
    <3> PICK x : x = Writing(r, items)
      OBVIOUS
    <3>1. x = [kind |-> "write", ring |-> r, want |-> Len(items), done |-> 0, n |-> 0, data |-> items]
      BY DEF Writing, NoXfer
    <3> QED
      BY <3>1
  <2>2. Len(items) \in Nat
    OBVIOUS
  <2> QED
    BY <2>1, <2>2 DEF Transfers
<1> QED
  BY <1>1, <1>2, <1>3

(* A thread begins to read, begins to write, or is done.                   *)
LEMMA TransferBegins ==
    ASSUME BufferInv, NEW t \in Threads, NEW x, rb' = rb, xfer' = [xfer EXCEPT ![t] = x],
           \/ x = NoXfer
           \/ \E r \in Rings, count \in Nat : x = Reading(r, count) /\ t = Reader(r)
           \/ \E r \in Rings, items \in Seq(Values) : x = Writing(r, items) /\ t = Writer(r)
    PROVE  /\ BufferInv' /\ xfer'[t] = x /\ \A u \in Threads : u # t => xfer'[u] = xfer[u]
<1>1. /\ x \in Transfers /\ x.n = 0 /\ x.done <= x.want
      /\ x.kind = "none" => x = NoXfer
      /\ x.kind = "read" => t = Reader(x.ring) /\ Len(x.data) = x.done
      /\ x.kind = "write" => t = Writer(x.ring) /\ Len(x.data) = x.want
  <2>1. CASE x = NoXfer
    BY <2>1, SpecialTransfers
  <2>2. ASSUME NEW r \in Rings, NEW count \in Nat, x = Reading(r, count), t = Reader(r)
        PROVE  <1>1!:
    <3>1. /\ x \in Transfers /\ x.n = 0 /\ x.done = 0 /\ x.want = count /\ x.kind = "read"
          /\ x.ring = r /\ x.data = <<>>
      BY <2>2, SpecialTransfers
    <3> QED
      BY <2>2, <3>1
  <2>3. ASSUME NEW r \in Rings, NEW items \in Seq(Values), x = Writing(r, items), t = Writer(r)
        PROVE  <1>1!:
    <3>1. /\ x \in Transfers /\ x.n = 0 /\ x.done = 0 /\ x.want = Len(items) /\ x.kind = "write"
          /\ x.ring = r /\ x.data = items
      BY <2>3, SpecialTransfers
    <3>2. Len(items) \in Nat
      OBVIOUS
    <3> QED
      BY <2>3, <3>1, <3>2
  <2> QED
    BY <2>1, <2>2, <2>3
<1> QED
  BY <1>1, TransferSet DEF BufferInv

LEMMA InitRings == Init => RingInv
<1> SUFFICES ASSUME Init PROVE RingInv
  OBVIOUS
<1>1. /\ rb = [r \in Rings |-> [read |-> Start, write |-> Start, last |-> <<>>,
                                mem |-> [i \in 0 .. Size(r) - 1 |-> 0]]]
      /\ xfer = [t \in Threads |-> NoXfer] /\ cb = [d \in Devices |-> NoCallback]
      /\ worker.at = "new" /\ pending = [epoch |-> 0, samples |-> <<>>] /\ epoch = 0
      /\ written = [o \in Outputs |-> 0] /\ consumed = [o \in Outputs |-> 0]
      /\ discard = [o \in Outputs |-> 0]
  BY DEF Init, RingInit, Idle
<1>2. ASSUME NEW r \in Rings PROVE rb[r] \in RingStates(r) /\ Ordered(rb[r])
  <2>1. Size(r) \in Nat /\ Size(r) > 0 /\ 0 \in Values /\ <<>> \in Seq(Values)
    BY SizeFacts DEF Values
  <2>2. Start \in Cursors(r)
    BY <2>1 DEF Start, Cursors
  <2>3. [i \in 0 .. Size(r) - 1 |-> 0] \in [0 .. Size(r) - 1 -> Values]
    BY <2>1
  <2> QED
    BY <1>1, <2>1, <2>2, <2>3 DEF RingStates, Ordered, Start
<1>3. ASSUME NEW t \in Threads PROVE HoldInv(t)
  BY <1>1, SpecialTransfers DEF HoldInv
<1>4. BufferInv
  BY <1>1, <1>2, <1>3, SpecialTransfers DEF BufferInv
<1>5. PlaceInv
  BY <1>1 DEF PlaceInv, WorkerPlace, OutputPlace, InputPlace, CallbackPlace, Output, Input, NoCallback,
              Threads, Devices
<1>6. CounterType
  <2>1. <<>> \in Seq(Nat) /\ Len(<<>>) = 0
    OBVIOUS
  <2>2. NoCallback \in Callbacks
    BY DEF NoCallback, Callbacks, Outputs
  <2>3. Len(pending.samples) < Frame /\ pending \in Frames
    BY <1>1, <2>1, RingSizes DEF Frames
  <2> QED
    BY <1>1, <2>2, <2>3, RingSizes DEF CounterType
<1> QED
  BY <1>4, <1>5, <1>6 DEF RingInv

(* A step that touches neither a ring nor a callback.                      *)
LEMMA QuietStep ==
    ASSUME RingInv, UNCHANGED <<rb, xfer, cb, pending, epoch, written, consumed>>,
           discard' \in [Outputs -> Nat],
           worker' = worker \/ {worker.at, worker'.at} \cap {"write", "read"} = {},
           \A d \in Devices : dev[d].thread = "callback" => dev'[d].thread = "callback"
    PROVE  RingInv'
<1>0. BufferInv /\ PlaceInv /\ CounterType
  BY DEF RingInv
<1>1. BufferInv'
  BY <1>0 DEF BufferInv, HoldInv, Available, Readable, Writable, RingStates, Ordered, Cursors,
              Reader, Writer
<1>2. WorkerPlace'
  BY <1>0 DEF PlaceInv, WorkerPlace
<1>3. OutputPlace' /\ InputPlace' /\ CallbackPlace'
  BY <1>0 DEF PlaceInv, OutputPlace, InputPlace, CallbackPlace, Output, Input
<1>4. CounterType'
  BY <1>0 DEF CounterType, Input
<1> QED
  BY <1>1, <1>2, <1>3, <1>4 DEF RingInv, PlaceInv

LEMMA DevicesKeepCallbacks ==
    ASSUME ThreadInv, Opening \/ Closing \/ \E d \in Devices : DeviceStep(d)
    PROVE  \A d \in Devices : dev[d].thread = "callback" => dev'[d].thread = "callback"
<1>0. dev \in [Devices -> DeviceStates]
  BY DEF ThreadInv, ThreadType
<1> SUFFICES ASSUME NEW d \in Devices, dev[d].thread = "callback" PROVE dev'[d].thread = "callback"
  OBVIOUS
<1>1. CASE Opening
  <2>1. CASE dev' = dev
    BY <2>1
  <2>2. ASSUME NEW e \in Devices, OpenDevice(e) PROVE dev'[d].thread = "callback"
    <3>1. dev[e].thread = "none" /\ dev' = [dev EXCEPT ![e].thread = "boot"]
      BY <2>2 DEF OpenDevice, Opens, Spawn
    <3> QED
      BY <1>0, <3>1
  <2>3. ASSUME NEW e \in Devices, DeviceReady(e) PROVE dev'[d].thread = "callback"
    BY <1>0, <2>3 DEF DeviceReady, Ready, DeviceStates
  <2>4. ASSUME NEW e \in Devices, NEW good \in BOOLEAN, DeviceStarted(e, good)
        PROVE  dev'[d].thread = "callback"
    BY <1>0, <2>4 DEF DeviceStarted, Started, DeviceStates
  <2> QED
    BY <1>1, <2>1, <2>2, <2>3, <2>4 DEF Opening, Open, OpenDeviceFails, Opened
<1>2. CASE Closing
  <2>1. CASE dev' = dev
    BY <2>1
  <2>2. ASSUME NEW e \in Devices, UninitDevice(e) PROVE dev'[d].thread = "callback"
    BY <1>0, <2>2 DEF UninitDevice, Uninit, DeviceStates
  <2> QED
    BY <1>2, <2>1, <2>2 DEF Closing, CloseCalled, CloseBegins, Free, JoinDevice
<1>3. ASSUME NEW e \in Devices, DeviceStep(e) PROVE dev'[d].thread = "callback"
  <2>1. CASE e = d
    BY <1>3, <2>1 DEF DeviceStep, ThreadRuns, Notified, Breaks, Boot, Wake, Exit, BackendStarts,
           BackendFails, LoopEnds, StopFails, CheckEnds, CheckGoesOn, MarkStopped, StopNotifies,
           LoopBreaks, Goes, Thread
  <2>2. CASE e # d
    <3>1. dev'[d] = dev[d]
      BY <1>0, <1>3, <2>2, ZenonT(40) DEF DeviceStep, ThreadRuns, Notified, Breaks, Boot, Wake, Exit, BackendStarts,
           BackendFails, LoopEnds, StopFails, CheckEnds, CheckGoesOn, MarkStopped, StopNotifies,
           LoopBreaks, Goes, Thread
    <3> QED
      BY <3>1
  <2> QED
    BY <2>1, <2>2
<1> QED
  BY <1>1, <1>2, <1>3

LEMMA DevicesKeepRings ==
    ASSUME ThreadInv, RingInv, Opening \/ Closing \/ \E d \in Devices : DeviceStep(d)
    PROVE  RingInv'
<1>1. UNCHANGED <<rb, xfer, cb, pending, epoch, written, consumed, discard>>
  BY DEF Opening, Open, OpenDevice, OpenDeviceFails, DeviceReady, DeviceStarted, Opened,
         Closing, CloseCalled, CloseBegins, UninitDevice, JoinDevice, Free,
         DeviceStep, ThreadRuns, Notified, Breaks, counters, flags
<1>2. worker' = worker \/ {worker.at, worker'.at} \cap {"write", "read"} = {}
  <2>0. worker \in WorkerStates
    BY DEF ThreadInv, ThreadType
  <2>1. CASE Opening
    <3>1. worker.at \in {"new", "open", "init", "start"}
      BY <2>1 DEF Opening, Open, OpenDevice, OpenDeviceFails, DeviceReady, DeviceStarted, Opened, Opens
    <3>2. \/ \E at \in {"open", "close", "start"} : worker' = [worker EXCEPT !.at = at]
          \/ \E d \in Devices : worker' = [worker EXCEPT !.at = "init", !.on = d]
          \/ \E w \in SUBSET Devices : worker' = [worker EXCEPT !.at = "open", !.devices = w]
          \/ worker' = Idle
      <4>1. CASE \E wanted \in SUBSET Devices \ {{}} : Open(wanted)
        BY <4>1 DEF Open
      <4>2. CASE Opened \/ \E d \in Devices : OpenDevice(d) \/ OpenDeviceFails(d) \/ DeviceReady(d)
        BY <4>2 DEF OpenDevice, OpenDeviceFails, DeviceReady, Opened
      <4>3. CASE \E d \in Devices, good \in BOOLEAN : DeviceStarted(d, good)
        BY <4>3 DEF DeviceStarted
      <4> QED
        BY <2>1, <4>1, <4>2, <4>3 DEF Opening
    <3>3. worker'.at \in {"open", "close", "start", "init", "idle"}
      <4>1. ASSUME NEW at \in {"open", "close", "start"}, worker' = [worker EXCEPT !.at = at]
            PROVE  worker'.at \in {"open", "close", "start"}
        BY <2>0, <4>1 DEF WorkerStates
      <4>2. ASSUME NEW d \in Devices, worker' = [worker EXCEPT !.at = "init", !.on = d]
            PROVE  worker'.at = "init"
        BY <2>0, <4>2 DEF WorkerStates
      <4>3. ASSUME NEW w \in SUBSET Devices, worker' = [worker EXCEPT !.at = "open", !.devices = w]
            PROVE  worker'.at = "open"
        BY <2>0, <4>3 DEF WorkerStates
      <4>4. Idle.at = "idle"
        BY DEF Idle
      <4> QED
        BY <3>2, <4>1, <4>2, <4>3, <4>4
    <3> QED
      BY <3>1, <3>3
  <2>2. CASE Closing
    BY <2>0, <2>2 DEF Closing, CloseCalled, CloseBegins, UninitDevice, JoinDevice, Free, Idle, WorkerStates
  <2>3. CASE \E d \in Devices : DeviceStep(d)
    BY <2>3 DEF DeviceStep
  <2> QED
    BY <2>1, <2>2, <2>3
<1>3. discard' \in [Outputs -> Nat]
  BY <1>1 DEF RingInv, CounterType
<1> QED
  BY <1>1, <1>2, <1>3, DevicesKeepCallbacks, QuietStep

LEMMA SeqFacts ==
    ASSUME NEW S, NEW n \in Nat, NEW s, s = [i \in 1 .. n |-> s[i]], \A i \in 1 .. n : s[i] \in S
    PROVE  s \in Seq(S) /\ Len(s) = n
OBVIOUS

LEMMA Names ==
    /\ "worker" \in Threads /\ "output" \in Threads /\ "input" \in Threads
    /\ "output" \in Devices /\ "input" \in Devices
    /\ "playback" \in Outputs /\ "monitor" \in Outputs
    /\ \A o \in Outputs : o \in Rings /\ Reader(o) = "output" /\ Writer(o) = "worker"
    /\ "reference" \in Rings /\ Reader("reference") = "worker" /\ Writer("reference") = "output"
    /\ "capture" \in Rings /\ Reader("capture") = "worker" /\ Writer("capture") = "input"
BY DEF Threads, Devices, Outputs, Rings, Reader, Writer

LEMMA FrameFacts == Frame \in Nat /\ Frame > 0
BY RingSizes

(* The worker begins or ends a transfer.                                   *)
LEMMA WorkerTransfers ==
    ASSUME RingInv, rb' = rb, NEW x, xfer' = [xfer EXCEPT !["worker"] = x],
           UNCHANGED <<dev, cb, pending, epoch, consumed, discard>>,
           written' \in [Outputs -> Nat],
           \/ x = NoXfer /\ worker'.at \notin {"write", "read"}
           \/ \E r \in Rings, count \in Nat :
                 x = Reading(r, count) /\ Reader(r) = "worker" /\ worker'.at = "read"
           \/ \E o \in Outputs, items \in Seq(Values) :
                 x = Writing(o, items) /\ worker'.at = "write" /\ worker'.on = o
    PROVE  RingInv'
<1>0. BufferInv /\ PlaceInv /\ CounterType
  BY DEF RingInv
<1>1. BufferInv' /\ xfer'["worker"] = x /\ \A u \in Threads : u # "worker" => xfer'[u] = xfer[u]
  <2>1. \/ x = NoXfer
        \/ \E r \in Rings, count \in Nat : x = Reading(r, count) /\ "worker" = Reader(r)
        \/ \E r \in Rings, items \in Seq(Values) : x = Writing(r, items) /\ "worker" = Writer(r)
    BY Names
  <2>2. "worker" \in Threads
    BY Names
  <2> QED
    BY <1>0, <2>1, <2>2, TransferBegins
<1>2. WorkerPlace'
  <2>1. CASE x = NoXfer /\ worker'.at \notin {"write", "read"}
    BY <1>1, <2>1 DEF WorkerPlace
  <2>2. ASSUME NEW r \in Rings, NEW count \in Nat, x = Reading(r, count), worker'.at = "read"
        PROVE  WorkerPlace'
    BY <1>1, <2>2, SpecialTransfers DEF WorkerPlace
  <2>3. ASSUME NEW o \in Outputs, NEW items \in Seq(Values), x = Writing(o, items),
               worker'.at = "write", worker'.on = o
        PROVE  WorkerPlace'
    BY <1>1, <2>3, Names, SpecialTransfers DEF WorkerPlace
  <2> QED
    BY <2>1, <2>2, <2>3
<1>3. OutputPlace' /\ InputPlace' /\ CallbackPlace'
  BY <1>0, <1>1, Names DEF PlaceInv, OutputPlace, InputPlace, CallbackPlace, Output, Input
<1>4. CounterType'
  BY <1>0 DEF CounterType, Input
<1> QED
  BY <1>1, <1>2, <1>3, <1>4 DEF RingInv, PlaceInv

LEMMA WorkingRings == ASSUME ThreadInv, RingInv, Working PROVE RingInv'
<1>0. BufferInv /\ PlaceInv /\ CounterType
  BY DEF RingInv
<1>1. ASSUME NEW o \in Outputs, Write(o) PROVE RingInv'
  <2> DEFINE items == [i \in 1 .. Frame |-> written[o] + i]
  <2>1. items \in Seq(Values)
    <3>1. written[o] \in Nat
      BY <1>0 DEF CounterType
    <3>2. \A i \in 1 .. Frame : written[o] + i \in Values
      BY <3>1, FrameFacts DEF Values
    <3> QED
      BY <3>2, FrameFacts
  <2> HIDE DEF items
  <2>2. /\ rb' = rb /\ xfer' = [xfer EXCEPT !["worker"] = Writing(o, items)]
        /\ UNCHANGED <<dev, cb, pending, epoch, consumed, discard, written>>
        /\ worker' = [Idle EXCEPT !.at = "write", !.on = o]
    BY <1>1 DEF Write, Transfer, counters, flags, items
  <2>3. worker'.at = "write" /\ worker'.on = o
    BY <2>2 DEF Idle
  <2>4. written' \in [Outputs -> Nat]
    BY <1>0, <2>2 DEF CounterType
  <2> QED
    BY <2>1, <2>2, <2>3, <2>4, WorkerTransfers
<1>2. CASE WriteReturns
  <2>1. /\ rb' = rb /\ xfer' = [xfer EXCEPT !["worker"] = NoXfer] /\ worker' = Idle
        /\ UNCHANGED <<dev, cb, pending, epoch, consumed, discard>>
        /\ written' = [written EXCEPT ![worker.on] = @ + xfer["worker"].done]
        /\ worker.at = "write"
    BY <1>2 DEF WriteReturns, flags
  <2>2. written' \in [Outputs -> Nat]
    BY <1>0, <2>1, Names, HoldFacts DEF CounterType, PlaceInv, WorkerPlace
  <2>3. worker'.at = "idle"
    BY <2>1 DEF Idle
  <2> QED
    BY <2>1, <2>2, <2>3, WorkerTransfers
<1>3. ASSUME NEW r \in Rings, NEW count \in Nat, Transfer("read", r, Reading(r, count)), Reader(r) = "worker"
      PROVE  RingInv'
  <2>1. /\ rb' = rb /\ xfer' = [xfer EXCEPT !["worker"] = Reading(r, count)]
        /\ UNCHANGED <<dev, cb, pending, epoch, consumed, discard, written>>
        /\ worker' = [Idle EXCEPT !.at = "read", !.on = r]
    BY <1>3 DEF Transfer, counters, flags
  <2>2. worker'.at = "read" /\ written' \in [Outputs -> Nat]
    BY <1>0, <2>1 DEF Idle, CounterType
  <2> QED
    BY <1>3, <2>1, <2>2, WorkerTransfers
<1>4. CASE ReadReturns
  <2>1. /\ rb' = rb /\ xfer' = [xfer EXCEPT !["worker"] = NoXfer] /\ worker' = Idle
        /\ UNCHANGED <<dev, cb, pending, epoch, consumed, discard, written>>
    BY <1>4 DEF ReadReturns, counters, flags
  <2>2. worker'.at = "idle" /\ written' \in [Outputs -> Nat]
    BY <1>0, <2>1 DEF Idle, CounterType
  <2> QED
    BY <2>1, <2>2, WorkerTransfers
<1>5. CASE Discard
  <2>1. UNCHANGED <<rb, xfer, cb, pending, epoch, written, consumed, dev>>
    BY <1>5 DEF Discard, flags
  <2>2. \/ discard' = [discard EXCEPT !["playback"] = written["playback"]]
        \/ discard' = [discard EXCEPT !["monitor"] = written["monitor"]]
    BY <1>5 DEF Discard
  <2>3. worker.at \in {"idle", "discard"} /\ (worker' = Idle \/ worker' = [Idle EXCEPT !.at = "discard"])
    BY <1>5 DEF Discard
  <2>4. worker'.at \in {"idle", "discard"}
    BY <2>3 DEF Idle
  <2>5. discard' \in [Outputs -> Nat]
    BY <1>0, <2>2, Names DEF CounterType
  <2> QED
    BY <2>1, <2>3, <2>4, <2>5, QuietStep
<1>6. CASE SetEpoch
  <2>1. UNCHANGED <<rb, xfer, cb, pending, written, consumed, discard, dev, worker>> /\ epoch' = epoch + 1
    BY <1>6 DEF SetEpoch, counters
  <2>2. BufferInv' /\ PlaceInv'
    BY <1>0, <2>1 DEF BufferInv, HoldInv, Available, Readable, Writable, RingStates, Ordered, Cursors,
              Reader, Writer, PlaceInv, WorkerPlace, OutputPlace, InputPlace, CallbackPlace, Output, Input
  <2>3. CounterType'
    BY <1>0, <2>1 DEF CounterType, Input
  <2> QED
    BY <2>2, <2>3 DEF RingInv
<1> QED
  BY <1>1, <1>2, <1>3, <1>4, <1>5, <1>6, Names, FrameFacts DEF Working, Reference, Capture

(* The output callback goes on: it begins or ends a transfer.              *)
LEMMA OutputTransfers ==
    ASSUME RingInv, rb' = rb, NEW x, xfer' = [xfer EXCEPT !["output"] = x],
           UNCHANGED <<worker, pending, epoch, written, discard>>, consumed' \in [Outputs -> Nat],
           NEW c \in Callbacks, cb' = [cb EXCEPT !["output"] = c], CallbackPlace',
           \/ x = NoXfer /\ c.at \in {"none", "load"}
           \/ \E count \in Nat : x = Reading(c.ring, count) /\ c.at \in {"skip", "play"}
           \/ \E items \in Seq(Values) : x = Writing("reference", items) /\ c.at = "reference"
    PROVE  RingInv'
<1>0. BufferInv /\ PlaceInv /\ CounterType
  BY DEF RingInv
<1>1. BufferInv' /\ xfer'["output"] = x /\ \A u \in Threads : u # "output" => xfer'[u] = xfer[u]
  <2>0. c.ring \in Outputs
    BY DEF Callbacks
  <2>1. \/ x = NoXfer
        \/ \E r \in Rings, count \in Nat : x = Reading(r, count) /\ "output" = Reader(r)
        \/ \E r \in Rings, items \in Seq(Values) : x = Writing(r, items) /\ "output" = Writer(r)
    BY <2>0, Names
  <2>2. "output" \in Threads
    BY Names
  <2> QED
    BY <1>0, <2>1, <2>2, TransferBegins
<1>2. cb' \in [Devices -> Callbacks] /\ cb'["output"] = c /\ cb'["input"] = cb["input"]
  BY <1>0, Names DEF CounterType
<1>3. OutputPlace'
  <2>0. c.ring \in Rings
    BY Names DEF Callbacks
  <2>1. CASE x = NoXfer /\ c.at \in {"none", "load"}
    BY <1>1, <1>2, <2>1 DEF OutputPlace, Output
  <2>2. ASSUME NEW count \in Nat, x = Reading(c.ring, count), c.at \in {"skip", "play"}
        PROVE  OutputPlace'
    <3>1. x.kind = "read" /\ x.ring = c.ring
      BY <2>0, <2>2, SpecialTransfers
    <3> QED
      BY <1>1, <1>2, <2>2, <3>1 DEF OutputPlace, Output
  <2>3. ASSUME NEW items \in Seq(Values), x = Writing("reference", items), c.at = "reference"
        PROVE  OutputPlace'
    <3>1. x.kind = "write" /\ x.ring = "reference"
      BY <2>3, Names, SpecialTransfers
    <3> QED
      BY <1>1, <1>2, <2>3, <3>1 DEF OutputPlace, Output
  <2> QED
    BY <2>1, <2>2, <2>3
<1>4. WorkerPlace' /\ InputPlace'
  BY <1>0, <1>1, <1>2, Names DEF PlaceInv, WorkerPlace, InputPlace, Input
<1>5. CounterType'
  BY <1>0, <1>2 DEF CounterType, Input
<1> QED
  BY <1>1, <1>3, <1>4, <1>5 DEF RingInv, PlaceInv

(* The callback that is running, and what it asks for next.                *)
LEMMA OutputState ==
    ASSUME RingInv
    PROVE  /\ Output \in Callbacks /\ Output.ring \in Outputs /\ Output.left \in Nat /\ Output.frames \in Nat
           /\ cb["output"] = Output /\ cb \in [Devices -> Callbacks]
           /\ \A o \in Outputs : consumed[o] \in Nat /\ discard[o] \in Nat /\ written[o] \in Nat
           /\ xfer["output"].done \in Nat /\ xfer["output"].want \in Nat
           /\ xfer["output"].data \in Seq(Values)
           /\ \A o \in Outputs : [consumed EXCEPT ![o] = @ + xfer["output"].done] \in [Outputs -> Nat]
           /\ CallbackPlace
<1>0. BufferInv /\ PlaceInv /\ CounterType
  BY DEF RingInv
<1>1. Output \in Callbacks /\ cb["output"] = Output /\ cb \in [Devices -> Callbacks]
  BY <1>0, Names DEF CounterType, Output
<1>2. /\ xfer["output"].done \in Nat /\ xfer["output"].want \in Nat
      /\ xfer["output"].data \in Seq(Values)
  BY <1>0, Names, HoldFacts
<1>3. \A o \in Outputs : consumed[o] \in Nat /\ discard[o] \in Nat /\ written[o] \in Nat
  BY <1>0 DEF CounterType
<1>4. \A o \in Outputs : [consumed EXCEPT ![o] = @ + xfer["output"].done] \in [Outputs -> Nat]
  BY <1>0, <1>2 DEF CounterType
<1> QED
  BY <1>0, <1>1, <1>2, <1>3, <1>4 DEF Callbacks, PlaceInv

LEMMA OutputRings ==
    ASSUME ThreadInv, RingInv, OutputRuns \/ \E f \in Periods : OutputStarts(f)
    PROVE  RingInv'
<1>0. BufferInv /\ PlaceInv /\ CounterType /\ dev \in [Devices -> DeviceStates]
  BY DEF RingInv, ThreadInv, ThreadType
<1>o. /\ Output \in Callbacks /\ Output.ring \in Outputs /\ Output.left \in Nat /\ Output.frames \in Nat
      /\ cb["output"] = Output /\ cb \in [Devices -> Callbacks]
      /\ \A o \in Outputs : consumed[o] \in Nat /\ discard[o] \in Nat /\ written[o] \in Nat
      /\ xfer["output"].done \in Nat /\ xfer["output"].want \in Nat
      /\ xfer["output"].data \in Seq(Values)
      /\ \A o \in Outputs : [consumed EXCEPT ![o] = @ + xfer["output"].done] \in [Outputs -> Nat]
      /\ CallbackPlace
  BY OutputState
<1>s. consumed \in [Outputs -> Nat]
  BY <1>0 DEF CounterType
<1>1. ASSUME NEW f \in Periods, OutputStarts(f) PROVE RingInv'
  <2> DEFINE c == [at |-> "load", ring |-> "playback", frames |-> f, left |-> f, until |-> 0]
  <2>1. /\ rb' = rb /\ xfer' = xfer /\ UNCHANGED <<worker, pending, epoch, written, discard, consumed>>
        /\ cb' = [cb EXCEPT !["output"] = c] /\ Thread("output", "loop", "callback")
    BY <1>1 DEF OutputStarts, counters, flags
  <2>2. f \in Nat
    BY DeviceAssumption
  <2>3. c \in Callbacks /\ c.at = "load"
    BY <2>2 DEF Callbacks, Outputs
  <2>4. dev["output"].thread = "loop" /\ dev'["output"].thread = "callback" /\ dev'["input"] = dev["input"]
    BY <1>0, <2>1, Names DEF Thread, DeviceStates
  <2>5. Output.at = "none"
    BY <1>o, <2>4, Names DEF CallbackPlace, Output
  <2>6. xfer["output"] = NoXfer
    BY <1>0, <2>5 DEF PlaceInv, OutputPlace
  <2>7. xfer' = [xfer EXCEPT !["output"] = NoXfer]
    BY <1>0, <2>1, <2>6, Names DEF BufferInv
  <2> HIDE DEF c
  <2>8. CallbackPlace'
    BY <1>o, <2>1, <2>4, Names DEF CallbackPlace, Devices
  <2> QED
    BY <1>s, <2>1, <2>3, <2>7, <2>8, OutputTransfers
<1>2. CASE LoadBoundary
  <2> DEFINE o == Output.ring
             count == IF consumed[o] < discard[o] THEN discard[o] - consumed[o] ELSE 0
             c == [Output EXCEPT !.at = "skip", !.until = discard[o]]
  <2>1. /\ rb' = rb /\ xfer' = [xfer EXCEPT !["output"] = Reading(o, count)]
        /\ UNCHANGED <<worker, pending, epoch, written, discard, consumed, dev>>
        /\ cb' = [cb EXCEPT !["output"] = c] /\ Output.at = "load"
    BY <1>2, <1>o, Names DEF LoadBoundary, counters, flags, Output
  <2>2. count \in Nat /\ discard[o] \in Nat
    BY <1>o
  <2>3. c \in Callbacks /\ c.at = "skip" /\ c.ring = o
    BY <1>o, <2>2 DEF Callbacks
  <2> HIDE DEF c, count
  <2>4. CallbackPlace'
    BY <1>o, <2>1, Names DEF CallbackPlace, Devices
  <2> QED
    BY <1>s, <2>1, <2>2, <2>3, <2>4, OutputTransfers
<1>3. CASE Skipped
  <2> DEFINE o == Output.ring
             count == IF o = "playback" THEN Output.left ELSE Least(Frame, Output.left)
             c == [Output EXCEPT !.at = "play"]
  <2>1. /\ rb' = rb /\ xfer' = [xfer EXCEPT !["output"] = Reading(o, count)]
        /\ UNCHANGED <<worker, pending, epoch, written, discard, dev>>
        /\ consumed' = [consumed EXCEPT ![o] = @ + xfer["output"].done]
        /\ cb' = [cb EXCEPT !["output"] = c] /\ Output.at = "skip"
    BY <1>3, <1>o, Names DEF Skipped, flags, Output
  <2>2. count \in Nat
    BY <1>o, FrameFacts DEF Least
  <2>3. c \in Callbacks /\ c.at = "play" /\ c.ring = o
    BY <1>o DEF Callbacks
  <2> HIDE DEF c, count
  <2>4. CallbackPlace'
    BY <1>o, <2>1, Names DEF CallbackPlace, Devices
  <2>5. consumed' \in [Outputs -> Nat]
    BY <1>o, <2>1
  <2> QED
    BY <2>1, <2>2, <2>3, <2>4, <2>5, OutputTransfers
<1>4. CASE PlayedPlayback
  <2> DEFINE items == [i \in 1 .. Output.frames |->
                          IF i <= xfer["output"].done THEN xfer["output"].data[i] ELSE Silence]
             c == [Output EXCEPT !.at = "reference"]
  <2>1. /\ rb' = rb /\ xfer' = [xfer EXCEPT !["output"] = Writing("reference", items)]
        /\ UNCHANGED <<worker, pending, epoch, written, discard, dev>>
        /\ consumed' = [consumed EXCEPT !["playback"] = @ + xfer["output"].done]
        /\ cb' = [cb EXCEPT !["output"] = c] /\ Output.at = "play"
    BY <1>4, <1>o, Names DEF PlayedPlayback, Played, flags, Output
  <2>2. items \in Seq(Values)
    <3>1. Len(xfer["output"].data) = xfer["output"].done
      <4>1. xfer["output"].kind = "read"
        BY <1>0, <2>1 DEF PlaceInv, OutputPlace
      <4> QED
        BY <1>0, <4>1, Names, HoldFacts
    <3>2. \A i \in 1 .. Output.frames :
             (IF i <= xfer["output"].done THEN xfer["output"].data[i] ELSE Silence) \in Values
      BY <1>o, <3>1 DEF Silence, Values
    <3>3. items = [i \in 1 .. Output.frames |-> items[i]] /\ \A i \in 1 .. Output.frames : items[i] \in Values
      BY <3>2
    <3> HIDE DEF items
    <3> QED
      BY <1>o, <3>3, SeqFacts
  <2>3. c \in Callbacks /\ c.at = "reference"
    BY <1>o DEF Callbacks
  <2> HIDE DEF c, items
  <2>4. CallbackPlace'
    BY <1>o, <2>1, Names DEF CallbackPlace, Devices
  <2>5. consumed' \in [Outputs -> Nat]
    BY <1>o, <2>1, Names
  <2> QED
    BY <2>1, <2>2, <2>3, <2>4, <2>5, OutputTransfers
<1>5. CASE Referenced
  <2> DEFINE c == [Output EXCEPT !.at = "load", !.ring = "monitor"]
  <2>1. /\ rb' = rb /\ xfer' = [xfer EXCEPT !["output"] = NoXfer]
        /\ UNCHANGED <<worker, pending, epoch, written, discard, consumed, dev>>
        /\ cb' = [cb EXCEPT !["output"] = c] /\ Output.at = "reference"
    BY <1>5, <1>o, Names DEF Referenced, counters, flags, Output
  <2>3. c \in Callbacks /\ c.at = "load"
    BY <1>o, Names DEF Callbacks
  <2> HIDE DEF c
  <2>4. CallbackPlace'
    BY <1>o, <2>1, Names DEF CallbackPlace, Devices
  <2> QED
    BY <1>s, <2>1, <2>3, <2>4, OutputTransfers
<1>6. CASE PlayedMonitor
  <2> DEFINE left == Output.left - xfer["output"].want
             c == IF left > 0 THEN [Output EXCEPT !.at = "load", !.left = left] ELSE NoCallback
  <2>1. /\ rb' = rb /\ xfer' = [xfer EXCEPT !["output"] = NoXfer]
        /\ UNCHANGED <<worker, pending, epoch, written, discard>>
        /\ consumed' = [consumed EXCEPT !["monitor"] = @ + xfer["output"].done]
        /\ cb' = [cb EXCEPT !["output"] = c] /\ Output.at = "play"
        /\ IF left > 0 THEN dev' = dev ELSE Thread("output", "callback", "loop")
    BY <1>6, <1>o, Names DEF PlayedMonitor, Played, flags, Output
  <2>2. c \in Callbacks /\ c.at = IF left > 0 THEN "load" ELSE "none"
    <3>1. CASE left > 0
      <4>1. left \in Nat
        BY <1>o, <3>1
      <4> QED
        BY <1>o, <3>1, <4>1 DEF Callbacks
    <3>2. CASE ~(left > 0)
      BY <3>2 DEF Callbacks, NoCallback, Outputs
    <3> QED
      BY <3>1, <3>2
  <2> HIDE DEF c
  <2>4. CallbackPlace'
    <3>1. cb'["output"].at = c.at /\ cb'["input"] = cb["input"]
      BY <1>o, <2>1, Names
    <3>2. dev'["input"] = dev["input"]
      BY <1>0, <2>1, Names DEF Thread
    <3>3. c.at # "none" => dev'["output"] = dev["output"]
      BY <2>1, <2>2
    <3> QED
      BY <1>o, <2>1, <3>1, <3>2, <3>3, Names DEF CallbackPlace, Devices, Output
  <2>5. consumed' \in [Outputs -> Nat]
    BY <1>o, <2>1, Names
  <2>6. c.at \in {"none", "load"}
    BY <2>2
  <2> QED
    BY <2>1, <2>2, <2>4, <2>5, <2>6, OutputTransfers
<1> QED
  BY <1>1, <1>2, <1>3, <1>4, <1>5, <1>6 DEF OutputRuns

(* What the input callback makes of the frame it is filling.               *)
LEMMA FillFacts ==
    ASSUME pending \in Frames, epoch \in Nat, NEW n \in Nat,
           NEW have, have = IF pending.epoch = epoch THEN Len(pending.samples) ELSE 0
    PROVE  /\ have \in Nat /\ Fill(n) \in Frames /\ Len(Fill(n).samples) = have + n
           /\ OfOneEpoch(pending) => OfOneEpoch(Fill(n))
<1> DEFINE kept == IF pending.epoch = epoch THEN pending.samples ELSE <<>>
           new == [i \in 1 .. n |-> epoch]
<1>1. /\ kept \in Seq(Nat) /\ Len(kept) = have /\ have \in Nat
  BY DEF Frames
<1>2. new \in Seq(Nat) /\ Len(new) = n /\ \A i \in 1 .. n : new[i] = epoch
  OBVIOUS
<1>3. Fill(n).epoch = epoch /\ Fill(n).samples = kept \o new /\ Fill(n) = [epoch |-> epoch, samples |-> kept \o new]
  BY DEF Fill
<1>4. OfOneEpoch(pending) => \A k \in 1 .. Len(kept) : kept[k] = epoch
  BY DEF OfOneEpoch
<1> HIDE DEF kept, new
<1>5. /\ kept \o new \in Seq(Nat) /\ Len(kept \o new) = have + n
      /\ \A i \in 1 .. have : (kept \o new)[i] = kept[i]
      /\ \A i \in 1 .. n : (kept \o new)[have + i] = new[i]
  <2> PICK S, a, b : S = Nat /\ a = kept /\ b = new
    OBVIOUS
  <2>1. Len(a) = have /\ Len(b) = n
    BY <1>1, <1>2
  <2>a. a \in Seq(S) /\ b \in Seq(S)
    BY <1>1, <1>2
  <2>2. a \o b \in Seq(S) /\ Len(a \o b) = Len(a) + Len(b)
    BY <2>a, ConcatFacts
  <2>3. \A i \in 1 .. Len(a) : (a \o b)[i] = a[i]
    BY <2>a, ConcatFacts
  <2>4. \A i \in 1 .. Len(b) : (a \o b)[Len(a) + i] = b[i]
    BY <2>a, ConcatFacts
  <2> QED
    BY <2>1, <2>2, <2>3, <2>4
<1>6. Fill(n) \in Frames /\ Len(Fill(n).samples) = have + n
  BY <1>3, <1>5 DEF Frames
<1>7. ASSUME OfOneEpoch(pending), NEW k \in 1 .. Len(Fill(n).samples)
      PROVE  Fill(n).samples[k] = Fill(n).epoch
  <2>1. CASE k <= have
    BY <1>1, <1>3, <1>4, <1>5, <1>7, <2>1
  <2>2. CASE k > have
    <3>1. k - have \in 1 .. n /\ k = have + (k - have)
      BY <1>1, <1>6, <2>2
    <3>2. (kept \o new)[have + (k - have)] = new[k - have]
      BY <1>5, <3>1
    <3> QED
      BY <1>2, <1>3, <3>1, <3>2
  <2> QED
    BY <1>1, <1>6, <2>1, <2>2
<1> QED
  BY <1>1, <1>6, <1>7 DEF OfOneEpoch

(* The input callback goes on.                                             *)
LEMMA InputTransfers ==
    ASSUME RingInv, rb' = rb, NEW x, xfer' = [xfer EXCEPT !["input"] = x],
           UNCHANGED <<worker, epoch, written, discard, consumed>>,
           NEW c \in Callbacks, cb' = [cb EXCEPT !["input"] = c], CallbackPlace',
           \/ x = NoXfer /\ c.at \in {"none", "copy"}
           \/ \E f \in Frames : x = Writing("capture", <<f>>) /\ c.at = "push",
           pending' \in Frames, Len(pending'.samples) <= Frame,
           c.at # "push" => Len(pending'.samples) < Frame
    PROVE  RingInv'
<1>0. BufferInv /\ PlaceInv /\ CounterType
  BY DEF RingInv
<1>1. ASSUME NEW f \in Frames PROVE <<f>> \in Seq(Values) /\ Len(<<f>>) = 1
  BY DEF Values
<1>2. BufferInv' /\ xfer'["input"] = x /\ \A u \in Threads : u # "input" => xfer'[u] = xfer[u]
  <2>1. \/ x = NoXfer
        \/ \E r \in Rings, items \in Seq(Values) : x = Writing(r, items) /\ "input" = Writer(r)
    BY <1>1, Names
  <2>2. "input" \in Threads
    BY Names
  <2> QED
    BY <1>0, <2>1, <2>2, TransferBegins
<1>3. cb' \in [Devices -> Callbacks] /\ cb'["input"] = c /\ cb'["output"] = cb["output"]
  BY <1>0, Names DEF CounterType
<1>4. InputPlace'
  <2>1. CASE x = NoXfer /\ c.at \in {"none", "copy"}
    BY <1>2, <1>3, <2>1 DEF InputPlace, Input
  <2>2. ASSUME NEW f \in Frames, x = Writing("capture", <<f>>), c.at = "push" PROVE InputPlace'
    <3>1. x.kind = "write" /\ x.ring = "capture"
      <4> PICK items : items = <<f>>
        OBVIOUS
      <4>1. items \in Seq(Values) /\ "capture" \in Rings
        BY <1>1, Names
      <4> QED
        BY <2>2, <4>1, SpecialTransfers, ZenonT(40)
    <3> QED
      BY <1>2, <1>3, <2>2, <3>1 DEF InputPlace, Input
  <2> QED
    BY <2>1, <2>2
<1>5. WorkerPlace' /\ OutputPlace'
  BY <1>0, <1>2, <1>3, Names DEF PlaceInv, WorkerPlace, OutputPlace, Output
<1>6. CounterType'
  BY <1>0, <1>3 DEF CounterType, Input
<1> QED
  BY <1>2, <1>4, <1>5, <1>6 DEF RingInv, PlaceInv

(* The piece InputCopies copies, and the frame it leaves.                  *)
Have == IF pending.epoch = epoch THEN Len(pending.samples) ELSE 0

Copied == Least(Frame - Have, Input.left)

LEMMA CopyFacts ==
    ASSUME RingInv, InputCopies
    PROVE  /\ Have \in Nat /\ Copied \in Nat /\ Have + Copied <= Frame /\ Input.left - Copied \in Nat
           /\ Input.at = "copy" /\ pending' = Fill(Copied) /\ pending' \in Frames
           /\ Len(pending'.samples) = Have + Copied /\ (OfOneEpoch(pending) => OfOneEpoch(pending'))
           /\ cb' = [cb EXCEPT !["input"] = [Input EXCEPT !.left = Input.left - Copied,
                         !.at = IF Have + Copied = Frame THEN "push" ELSE "copy"]]
           /\ xfer' = IF Have + Copied = Frame THEN [xfer EXCEPT !["input"] = Writing("capture", <<pending'>>)]
                      ELSE xfer
           /\ UNCHANGED <<rb, dev, worker, epoch, written, discard, consumed>>
<1>0. /\ pending \in Frames /\ epoch \in Nat /\ cb \in [Devices -> Callbacks] /\ Input \in Callbacks
      /\ Input.at # "push" => Len(pending.samples) < Frame
      /\ cb["input"] = Input
  BY Names DEF RingInv, CounterType, Input
<1>1. /\ Input.at = "copy" /\ pending' = Fill(Copied)
      /\ cb' = [cb EXCEPT !["input"].left = @ - Copied,
                          !["input"].at = IF Have + Copied = Frame THEN "push" ELSE "copy"]
      /\ xfer' = IF Have + Copied = Frame THEN [xfer EXCEPT !["input"] = Writing("capture", <<pending'>>)]
                 ELSE xfer
      /\ UNCHANGED <<rb, dev, worker, epoch, written, discard, consumed>>
  BY DEF InputCopies, Have, Copied, counters, flags
<1>2. Have \in Nat /\ Have < Frame
  BY <1>0, <1>1, FrameFacts DEF Have, Frames
<1>3. Input.left \in Nat
  BY <1>0 DEF Callbacks
<1>4. Copied \in Nat /\ Have + Copied <= Frame /\ Input.left - Copied \in Nat
  BY <1>2, <1>3, FrameFacts DEF Copied, Least
<1>5. /\ pending' \in Frames /\ Len(pending'.samples) = Have + Copied
      /\ OfOneEpoch(pending) => OfOneEpoch(pending')
  <2>1. /\ Fill(Copied) \in Frames /\ Len(Fill(Copied).samples) = Have + Copied
        /\ OfOneEpoch(pending) => OfOneEpoch(Fill(Copied))
    BY <1>0, <1>4, FillFacts DEF Have
  <2> QED
    BY <1>1, <2>1
<1>6. cb' = [cb EXCEPT !["input"] = [Input EXCEPT !.left = Input.left - Copied,
                           !.at = IF Have + Copied = Frame THEN "push" ELSE "copy"]]
  BY <1>0, <1>1, Names
<1> QED
  BY <1>1, <1>2, <1>4, <1>5, <1>6

LEMMA InputRings ==
    ASSUME ThreadInv, RingInv, InputRuns \/ \E f \in Periods : InputStarts(f)
    PROVE  RingInv'
<1>0. BufferInv /\ PlaceInv /\ CounterType /\ dev \in [Devices -> DeviceStates] /\ CallbackPlace
  BY DEF RingInv, ThreadInv, ThreadType, PlaceInv
<1>i. /\ pending \in Frames /\ epoch \in Nat /\ cb \in [Devices -> Callbacks] /\ Input \in Callbacks
      /\ Input.at # "push" => Len(pending.samples) < Frame
      /\ cb["input"] = Input /\ Len(pending.samples) <= Frame
  BY Names DEF RingInv, CounterType, Input
<1>1. ASSUME NEW f \in Periods, InputStarts(f) PROVE RingInv'
  <2> PICK c : c = [NoCallback EXCEPT !.at = "copy", !.left = f]
    OBVIOUS
  <2>1. /\ rb' = rb /\ xfer' = xfer /\ UNCHANGED <<worker, pending, epoch, written, discard, consumed>>
        /\ cb' = [cb EXCEPT !["input"] = c] /\ Thread("input", "loop", "callback")
    BY <1>1 DEF InputStarts, counters, flags
  <2>2. f \in Nat
    BY DeviceAssumption
  <2>3. c \in Callbacks /\ c.at = "copy"
    BY <2>2 DEF NoCallback, Callbacks, Outputs
  <2>4. dev["input"].thread = "loop" /\ dev'["input"].thread = "callback" /\ dev'["output"] = dev["output"]
    BY <1>0, <2>1, Names DEF Thread, DeviceStates
  <2>5. Input.at = "none"
    BY <1>0, <2>4, Names DEF CallbackPlace, Input
  <2>6. xfer["input"] = NoXfer
    BY <1>0, <2>5 DEF PlaceInv, InputPlace
  <2>7. xfer' = [xfer EXCEPT !["input"] = NoXfer]
    BY <1>0, <2>1, <2>6, Names DEF BufferInv
  <2>8. CallbackPlace'
    <3>1. cb'["output"] = cb["output"]
      BY <1>i, <2>1, Names
    <3> QED
      BY <1>0, <2>4, <3>1, Names DEF CallbackPlace, Devices
  <2>9. pending' \in Frames /\ Len(pending'.samples) < Frame /\ Len(pending'.samples) <= Frame
    BY <1>i, <2>1, <2>5
  <2> QED
    BY <2>1, <2>3, <2>7, <2>8, <2>9, InputTransfers
<1>2. CASE InputCopies
  <2> DEFINE full == Have + Copied = Frame
             left == Input.left - Copied
             c == [Input EXCEPT !.left = left, !.at = IF full THEN "push" ELSE "copy"]
             x == IF full THEN Writing("capture", <<pending'>>) ELSE NoXfer
  <2>1. /\ Have \in Nat /\ Copied \in Nat /\ Have + Copied <= Frame /\ left \in Nat
        /\ Input.at = "copy" /\ pending' \in Frames /\ Len(pending'.samples) = Have + Copied
        /\ cb' = [cb EXCEPT !["input"] = c]
        /\ xfer' = IF full THEN [xfer EXCEPT !["input"] = Writing("capture", <<pending'>>)] ELSE xfer
        /\ UNCHANGED <<rb, dev, worker, epoch, written, discard, consumed>>
    BY <1>2, CopyFacts
  <2>2. c \in Callbacks /\ c.at = IF full THEN "push" ELSE "copy"
    <3>1. left \in Nat
      BY <2>1
    <3> HIDE DEF left, full
    <3> QED
      BY <1>i, <3>1 DEF Callbacks
  <2>3. xfer' = [xfer EXCEPT !["input"] = x]
    <3>1. xfer["input"] = NoXfer
      BY <1>0, <2>1 DEF PlaceInv, InputPlace
    <3> QED
      BY <1>0, <2>1, <3>1, Names DEF BufferInv
  <2>4. c.at # "push" => Len(pending'.samples) < Frame
    BY <2>1, <2>2, FrameFacts
  <2>5. \/ x = NoXfer /\ c.at \in {"none", "copy"}
        \/ \E f \in Frames : x = Writing("capture", <<f>>) /\ c.at = "push"
    BY <2>1, <2>2
  <2>6. Len(pending'.samples) <= Frame /\ pending' \in Frames
    BY <2>1
  <2> HIDE DEF c, x
  <2>7. CallbackPlace'
    <3>1. cb'["output"] = cb["output"] /\ Input.at # "none"
      BY <1>i, <2>1, Names
    <3> QED
      BY <1>0, <1>i, <2>1, <3>1, Names DEF CallbackPlace, Devices
  <2> QED
    BY <2>1, <2>2, <2>3, <2>4, <2>5, <2>6, <2>7, InputTransfers
<1>3. CASE InputPushed
  <2> DEFINE c == [Input EXCEPT !.at = "copy"]
  <2>1. /\ rb' = rb /\ xfer' = [xfer EXCEPT !["input"] = NoXfer] /\ Input.at = "push"
        /\ UNCHANGED <<worker, epoch, written, discard, consumed, dev>>
        /\ cb' = [cb EXCEPT !["input"] = c] /\ pending' = [pending EXCEPT !.samples = <<>>]
    BY <1>3, <1>i, Names DEF InputPushed, counters, flags, Input
  <2>2. c \in Callbacks /\ c.at = "copy"
    BY <1>i DEF Callbacks
  <2>3. pending' \in Frames /\ Len(pending'.samples) = 0
    <3>1. <<>> \in Seq(Nat) /\ Len(<<>>) = 0
      OBVIOUS
    <3> QED
      BY <1>i, <2>1, <3>1 DEF Frames
  <2>4. Len(pending'.samples) < Frame /\ Len(pending'.samples) <= Frame
    BY <2>3, FrameFacts
  <2> HIDE DEF c
  <2>5. CallbackPlace'
    <3>1. cb'["output"] = cb["output"]
      BY <1>i, <2>1, Names
    <3> QED
      BY <1>0, <1>i, <2>1, <3>1, Names DEF CallbackPlace, Devices
  <2> QED
    BY <2>1, <2>2, <2>3, <2>4, <2>5, InputTransfers
<1>4. CASE InputReturns
  <2>1. /\ rb' = rb /\ xfer' = xfer /\ Input.at = "copy"
        /\ UNCHANGED <<worker, epoch, written, discard, consumed, pending>>
        /\ cb' = [cb EXCEPT !["input"] = NoCallback] /\ Thread("input", "callback", "loop")
    BY <1>4 DEF InputReturns, counters, flags
  <2>2. NoCallback \in Callbacks /\ NoCallback.at = "none"
    BY DEF Callbacks, NoCallback, Outputs
  <2>3. xfer["input"] = NoXfer
    BY <1>0, <2>1 DEF PlaceInv, InputPlace
  <2>4. xfer' = [xfer EXCEPT !["input"] = NoXfer]
    BY <1>0, <2>1, <2>3, Names DEF BufferInv
  <2>5. pending' \in Frames /\ Len(pending'.samples) < Frame /\ Len(pending'.samples) <= Frame
    BY <1>i, <2>1
  <2>6. CallbackPlace'
    <3>1. cb'["output"] = cb["output"] /\ cb'["input"].at = "none"
      BY <1>i, <2>1, <2>2, Names
    <3>2. dev'["output"] = dev["output"]
      BY <1>0, <2>1, Names DEF Thread
    <3> QED
      BY <1>0, <3>1, <3>2, Names DEF CallbackPlace, Devices
  <2> QED
    BY <2>1, <2>2, <2>4, <2>5, <2>6, InputTransfers
<1> QED
  BY <1>1, <1>2, <1>3, <1>4 DEF InputRuns

LEMMA NextRings == ASSUME ThreadInv, RingInv, [Next]_vars PROVE RingInv'
<1>1. CASE Opening \/ Closing \/ \E d \in Devices : DeviceStep(d)
  BY <1>1, DevicesKeepRings
<1>2. CASE Working
  BY <1>2, WorkingRings
<1>3. CASE OutputRuns \/ \E f \in Periods : OutputStarts(f)
  BY <1>3, OutputRings
<1>4. CASE InputRuns \/ \E f \in Periods : InputStarts(f)
  BY <1>4, InputRings
<1>5. CASE \E t \in Threads : RingStep(t)
  BY <1>5, RingStepInv
<1>6. CASE UNCHANGED vars
  <2>1. UNCHANGED <<rb, xfer, cb, pending, epoch, written, consumed, discard, worker, dev>>
    BY <1>6 DEF vars, counters, flags
  <2>2. discard' \in [Outputs -> Nat]
    BY <2>1 DEF RingInv, CounterType
  <2> QED
    BY <2>1, <2>2, QuietStep
<1> QED
  BY <1>1, <1>2, <1>3, <1>4, <1>5, <1>6 DEF Next

LEMMA RingsHold == Spec => [](ThreadInv /\ RingInv)
<1>1. Init => ThreadInv /\ RingInv
  BY InitThreads, InitRings
<1>2. ThreadInv /\ RingInv /\ [Next]_vars => ThreadInv' /\ RingInv'
  BY NextThreads, NextRings
<1> QED
  BY <1>1, <1>2, PTL DEF Spec

(* The worker and the callbacks of both devices never copy into and out of *)
(* the same slots: a writer's piece ends where the reader's begins, for    *)
(* any sizes and through every wrap-around.                                *)
THEOREM CopiesAreApart == Spec => []NoTornCopy
<1>1. ASSUME RingInv, NEW t \in Threads, NEW u \in Threads, t # u, xfer[t].n > 0, xfer[u].n > 0,
             xfer[t].ring = xfer[u].ring, xfer[t].kind = "read"
      PROVE  Held(t) \cap Held(u) = {}
  <2> PICK r : r = xfer[t].ring
    OBVIOUS
  <2>0. BufferInv
    BY <1>1 DEF RingInv
  <2>1. /\ r \in Rings /\ t = Reader(r) /\ xfer[t].n \in Nat /\ xfer[t].n <= Run(rb[r], Size(r))
    BY <1>1, <2>0, HoldFacts
  <2>2. /\ xfer[u].n \in Nat /\ xfer[u].kind \in {"none", "read", "write"}
        /\ xfer[u].kind = "none" => xfer[u].n = 0
        /\ xfer[u].kind = "read" => u = Reader(r)
        /\ xfer[u].kind = "write" => xfer[u].n <= Room(rb[r], Size(r))
    BY <1>1, <2>0, HoldFacts
  <2>3. xfer[u].kind = "write"
    BY <1>1, <2>1, <2>2
  <2>4. /\ Size(r) \in Nat /\ rb[r].read \in CursorsOf(Size(r)) /\ rb[r].write \in CursorsOf(Size(r))
        /\ Ordered(rb[r])
    BY <2>0, <2>1, RingFacts
  <2>5. rb[r].read.off \in Nat /\ rb[r].write.off \in Nat
    BY <2>4 DEF CursorsOf
  <2>6. \/ rb[r].read.off + xfer[t].n <= rb[r].write.off
        \/ rb[r].write.off + xfer[u].n <= rb[r].read.off
    BY <2>1, <2>2, <2>3, <2>4, <2>5 DEF Run, Room, Ordered
  <2>7. /\ Held(t) = {rb[r].read.off + i : i \in 0 .. xfer[t].n - 1}
        /\ Held(u) = {rb[r].write.off + i : i \in 0 .. xfer[u].n - 1}
    BY <1>1, <2>3 DEF Held
  <2> SUFFICES ASSUME NEW i \in 0 .. xfer[t].n - 1, NEW j \in 0 .. xfer[u].n - 1,
                      rb[r].read.off + i = rb[r].write.off + j
               PROVE  FALSE
    BY <2>7
  <2> QED
    BY <2>1, <2>2, <2>5, <2>6
<1>2. RingInv => NoTornCopy
  <2> SUFFICES ASSUME RingInv, NEW t \in Threads, NEW u \in Threads, t # u, xfer[t].n > 0, xfer[u].n > 0,
                      xfer[t].ring = xfer[u].ring
               PROVE  Held(t) \cap Held(u) = {}
    BY DEF NoTornCopy
  <2>1. BufferInv
    BY DEF RingInv
  <2>2. /\ xfer[t].kind \in {"none", "read", "write"} /\ (xfer[t].kind = "none" => xfer[t].n = 0)
        /\ xfer[t].kind = "write" => t = Writer(xfer[t].ring)
        /\ xfer[u].kind \in {"none", "read", "write"} /\ (xfer[u].kind = "none" => xfer[u].n = 0)
        /\ xfer[u].kind = "write" => u = Writer(xfer[u].ring)
    BY <2>1, HoldFacts
  <2>3. xfer[t].kind = "read" \/ xfer[u].kind = "read"
    BY <2>2
  <2> QED
    BY <1>1, <2>3
<1> QED
  BY <1>2, RingsHold, PTL

-----------------------------------------------------------------------------
(* What the rings hold *)

LEMMA ItemsKept ==
    ASSUME BufferInv, NEW r \in Rings, rb'[r] = rb[r]
    PROVE  Distance(r)' = Distance(r) /\ \A i \in 1 .. Distance(r) : Item(r, i)' = Item(r, i)
BY DEF Distance, Item

LEMMA ItemsNow ==
    ASSUME BufferInv, NEW r \in Rings
    PROVE  /\ Distance(r) \in Nat /\ Distance(r) <= Size(r)
           /\ \A i \in 1 .. Distance(r) : Item(r, i) \in Values
           /\ Readable(r) \in Nat /\ (Readable(r) = 0 => Distance(r) = 0)
<1>1. /\ Size(r) \in Nat /\ Size(r) > 0
      /\ rb[r].read \in CursorsOf(Size(r)) /\ rb[r].write \in CursorsOf(Size(r)) /\ Ordered(rb[r])
      /\ rb[r].mem \in [0 .. Size(r) - 1 -> Values]
      /\ Readable(r) = Run(rb[r], Size(r)) /\ Distance(r) = Gap(rb[r], Size(r))
  BY RingFacts
<1>2. /\ Run(rb[r], Size(r)) \in Nat /\ Room(rb[r], Size(r)) \in Nat /\ Gap(rb[r], Size(r)) \in Nat
      /\ Gap(rb[r], Size(r)) + Room(rb[r], Size(r)) <= Size(r)
      /\ \A i \in 1 .. Gap(rb[r], Size(r)) : Place(rb[r], Size(r), i) \in 0 .. Size(r) - 1
  BY <1>1, RingNow
<1>3. \A i \in 1 .. Distance(r) : Item(r, i) \in Values
  BY <1>1, <1>2 DEF Item, Place
<1>4. Run(rb[r], Size(r)) = 0 => Gap(rb[r], Size(r)) = 0
  <2>1. rb[r].read.off \in Nat /\ rb[r].read.off < Size(r)
    BY <1>1 DEF CursorsOf
  <2> QED
    BY <1>1, <2>1 DEF Run, Gap
<1> QED
  BY <1>1, <1>2, <1>3, <1>4

LEMMA ItemsTaken ==
    ASSUME BufferInv, NEW t \in Threads, CommitRead(t), NEW r, r = xfer[t].ring, NEW n, n = xfer[t].n
    PROVE  /\ r \in Rings /\ n \in Nat /\ n > 0
           /\ Distance(r) \in Nat /\ Distance(r)' \in Nat /\ Distance(r) = Distance(r)' + n
           /\ \A i \in 1 .. Distance(r)' : Item(r, i)' = Item(r, i + n)
           /\ \A i \in 1 .. n : Piece(t)[i] = Item(r, i)
<1>1. /\ r \in Rings /\ n \in Nat
      /\ xfer[t].kind = "read" => n <= Run(rb[r], Size(r))
  BY HoldFacts
<1>2. /\ xfer[t].kind = "read" /\ n > 0
      /\ rb'[r].read = Advance(rb[r].read, n, Size(r)) /\ rb'[r].write = rb[r].write
      /\ rb'[r].mem = rb[r].mem
  BY CommitReadFacts
<1>3. /\ Size(r) \in Nat /\ Size(r) > 0 /\ rb[r].read \in CursorsOf(Size(r))
      /\ rb[r].write \in CursorsOf(Size(r)) /\ Ordered(rb[r])
      /\ Distance(r) = Gap(rb[r], Size(r)) /\ Distance(r)' = Gap(rb'[r], Size(r))
  BY <1>1, RingFacts
<1>4. /\ rb'[r].read \in CursorsOf(Size(r)) /\ Ordered(rb'[r])
      /\ Gap(rb[r], Size(r)) = Gap(rb'[r], Size(r)) + n
      /\ \A i \in 1 .. Gap(rb'[r], Size(r)) : Place(rb'[r], Size(r), i) = Place(rb[r], Size(r), i + n)
  BY <1>1, <1>2, <1>3, ReadEnd
<1>5. Gap(rb[r], Size(r)) \in Nat
  BY <1>3, RingNow
<1>6. Gap(rb'[r], Size(r)) \in Nat
  BY <1>2, <1>3, <1>4, RingNow
<1>7. \A i : /\ Item(r, i)' = rb'[r].mem[Place(rb'[r], Size(r), i)]
             /\ Item(r, i) = rb[r].mem[Place(rb[r], Size(r), i)]
  BY DEF Item, Place
<1>8. \A i \in 1 .. Distance(r)' : Item(r, i)' = Item(r, i + n)
  BY <1>2, <1>3, <1>4, <1>7
<1>9. \A i \in 1 .. n : Piece(t)[i] = Item(r, i)
  BY <1>2, <1>7, PieceFacts
<1> QED
  BY <1>1, <1>2, <1>3, <1>4, <1>5, <1>6, <1>8, <1>9

LEMMA ItemsPut ==
    ASSUME BufferInv, NEW t \in Threads, CommitWrite(t), NEW r, r = xfer[t].ring, NEW n, n = xfer[t].n
    PROVE  /\ r \in Rings /\ n \in Nat /\ n > 0
           /\ Distance(r) \in Nat /\ Distance(r)' = Distance(r) + n /\ Distance(r)' <= Size(r)
           /\ \A i \in 1 .. Distance(r) : Item(r, i)' = Item(r, i)
           /\ \A i \in Distance(r) + 1 .. Distance(r) + n :
                 Item(r, i)' = xfer[t].data[xfer[t].done + (i - Distance(r))]
<1>1. /\ r \in Rings /\ n \in Nat /\ xfer[t].done \in Nat
      /\ xfer[t].kind = "write" => n <= Room(rb[r], Size(r))
  BY HoldFacts
<1>2. /\ xfer[t].kind = "write" /\ n > 0
      /\ rb'[r].write = Advance(rb[r].write, n, Size(r)) /\ rb'[r].read = rb[r].read
      /\ \A i \in 0 .. Size(r) - 1 :
            rb'[r].mem[i] = IF rb[r].write.off <= i /\ i < rb[r].write.off + n
                            THEN xfer[t].data[xfer[t].done + 1 + i - rb[r].write.off]
                            ELSE rb[r].mem[i]
  BY CommitWriteFacts
<1>3. /\ Size(r) \in Nat /\ Size(r) > 0 /\ rb[r].read \in CursorsOf(Size(r))
      /\ rb[r].write \in CursorsOf(Size(r)) /\ Ordered(rb[r])
      /\ Distance(r) = Gap(rb[r], Size(r)) /\ Distance(r)' = Gap(rb'[r], Size(r))
  BY <1>1, RingFacts
<1> DEFINE s == Size(r)
           q == rb[r]
           p == rb'[r]
<1>4. /\ p.write \in CursorsOf(s) /\ Gap(p, s) = Gap(q, s) + n
      /\ \A i \in 1 .. Gap(p, s) : Place(p, s, i) = Place(q, s, i)
      /\ \A i \in 1 .. Gap(q, s) : Place(q, s, i) < q.write.off \/ Place(q, s, i) >= q.write.off + n
      /\ \A i \in 1 .. n : Place(q, s, Gap(q, s) + i) = q.write.off + i - 1
  BY <1>1, <1>2, <1>3, WriteEnd
<1>5. /\ Gap(q, s) \in Nat /\ Gap(q, s) + Room(q, s) <= s /\ Room(q, s) \in Nat
      /\ \A i \in 1 .. Gap(q, s) : Place(q, s, i) \in 0 .. s - 1
      /\ q.write.off + Room(q, s) <= s
  BY <1>3, RingNow
<1>6. q.write.off \in Nat
  BY <1>3 DEF CursorsOf
<1>7. \A i : Item(r, i)' = p.mem[Place(p, s, i)] /\ Item(r, i) = q.mem[Place(q, s, i)]
  BY DEF Item, Place
<1>8. ASSUME NEW i \in 1 .. Distance(r) PROVE Item(r, i)' = Item(r, i)
  <2>1. i \in 1 .. Gap(q, s) /\ i \in 1 .. Gap(p, s)
    BY <1>1, <1>3, <1>4, <1>5
  <2>2. /\ Place(p, s, i) = Place(q, s, i) /\ Place(q, s, i) \in 0 .. s - 1
        /\ Place(q, s, i) < q.write.off \/ Place(q, s, i) >= q.write.off + n
    BY <1>4, <1>5, <2>1
  <2>3. p.mem[Place(q, s, i)] = q.mem[Place(q, s, i)]
    <3> PICK k : k = Place(q, s, i)
      OBVIOUS
    <3>1. k \in 0 .. s - 1 /\ k \in Nat /\ ~(q.write.off <= k /\ k < q.write.off + n)
      BY <1>1, <1>3, <1>6, <2>2
    <3> QED
      BY <1>2, <3>1
  <2> QED
    BY <1>7, <2>2, <2>3
<1>9. ASSUME NEW i \in Distance(r) + 1 .. Distance(r) + n
      PROVE  Item(r, i)' = xfer[t].data[xfer[t].done + (i - Distance(r))]
  <2> PICK j : j = i - Distance(r)
    OBVIOUS
  <2> DEFINE k == q.write.off + j - 1
  <2>1. i \in 1 .. Gap(p, s) /\ j \in 1 .. n /\ i = Gap(q, s) + j
    BY <1>1, <1>3, <1>4, <1>5
  <2>2. Place(p, s, i) = k
    BY <1>4, <2>1
  <2>3. k \in 0 .. s - 1 /\ q.write.off <= k /\ k < q.write.off + n
    BY <1>1, <1>2, <1>3, <1>5, <1>6, <2>1
  <2>4. xfer[t].done + 1 + k - q.write.off = xfer[t].done + j
    BY <1>1, <1>6, <2>1
  <2> HIDE DEF k
  <2>5. p.mem[k] = xfer[t].data[xfer[t].done + 1 + k - q.write.off]
    BY <1>2, <2>3
  <2> QED
    BY <1>7, <2>2, <2>4, <2>5
<1>10. Distance(r) \in Nat /\ Distance(r)' = Distance(r) + n /\ Distance(r)' <= Size(r)
  BY <1>1, <1>2, <1>3, <1>4, <1>5
<1> QED
  BY <1>1, <1>2, <1>8, <1>9, <1>10

-----------------------------------------------------------------------------
(* Captured frames *)

LEMMA InputRests ==
    ASSUME ThreadInv, RingInv,
           \/ Opening \/ Closing \/ Working \/ OutputRuns \/ InputReturns
           \/ (\E d \in Devices : DeviceStep(d))
           \/ (\E f \in Periods : OutputStarts(f) \/ InputStarts(f))
           \/ UNCHANGED vars
    PROVE  rb' = rb /\ pending' = pending /\ xfer'["input"] = xfer["input"]
<1>1. rb' = rb /\ pending' = pending
  BY DEF Opening, Open, OpenDevice, OpenDeviceFails, DeviceReady, DeviceStarted, Opened,
         Closing, CloseCalled, CloseBegins, UninitDevice, JoinDevice, Free, DeviceStep,
         Working, Write, WriteReturns, Reference, Capture, ReadReturns, Transfer, Discard, SetEpoch,
         OutputRuns, LoadBoundary, Skipped, PlayedPlayback, Referenced, PlayedMonitor, Played,
         OutputStarts, InputStarts, InputReturns, vars
<1>2. xfer' = xfer \/ \E x : xfer' = [xfer EXCEPT !["worker"] = x] \/ xfer' = [xfer EXCEPT !["output"] = x]
  BY DEF Opening, Open, OpenDevice, OpenDeviceFails, DeviceReady, DeviceStarted, Opened,
         Closing, CloseCalled, CloseBegins, UninitDevice, JoinDevice, Free, DeviceStep,
         Working, Write, WriteReturns, Reference, Capture, ReadReturns, Transfer, Discard, SetEpoch,
         OutputRuns, LoadBoundary, Skipped, PlayedPlayback, Referenced, PlayedMonitor, Played,
         OutputStarts, InputStarts, InputReturns, vars
<1>3. xfer \in [Threads -> Transfers]
  BY DEF RingInv, BufferInv
<1> QED
  BY <1>1, <1>2, <1>3, Names

LEMMA CaptureKept ==
    ASSUME RingInv, CaptureInv, rb' = rb, OfOneEpoch(pending)',
           \/ xfer'["input"] = xfer["input"]
           \/ xfer'["input"] = NoXfer
           \/ \A k \in 1 .. Len(xfer'["input"].data) : Whole(xfer'["input"].data[k])
    PROVE  CaptureInv'
<1>1. xfer'["input"].kind = "write" =>
          \A k \in 1 .. Len(xfer'["input"].data) : Whole(xfer'["input"].data[k])
  BY SpecialTransfers DEF CaptureInv
<1>2. ASSUME NEW f PROVE Whole(f)' <=> Whole(f)
  BY DEF Whole, OfOneEpoch, Frames
<1>3. Distance("capture")' = Distance("capture")
      /\ \A i \in 1 .. Distance("capture") : Item("capture", i)' = Item("capture", i)
  BY Names, ItemsKept DEF RingInv
<1>4. \A i \in 1 .. Distance("capture")' : Whole(Item("capture", i)')
  BY <1>3 DEF CaptureInv
<1>5. \A i \in 1 .. Len(rb'["capture"].last) : Whole(rb'["capture"].last[i])
  BY DEF CaptureInv
<1> QED
  BY <1>1, <1>4, <1>5 DEF CaptureInv, Whole, OfOneEpoch

LEMMA CaptureStep == ASSUME RingInv, CaptureInv, NEW t \in Threads, RingStep(t) PROVE CaptureInv'
<1>0. BufferInv /\ xfer \in [Threads -> Transfers]
  BY DEF RingInv, BufferInv
<1>p. pending' = pending
  BY DEF RingStep
<1>1. CASE Acquire(t)
  <2>1. rb' = rb /\ xfer'["input"].data = xfer["input"].data /\ xfer'["input"].kind = xfer["input"].kind
    <3>1. xfer[t] \in Transfers
      BY <1>0
    <3>2. xfer["input"] \in Transfers
      BY <1>0, Names
    <3> QED
      BY <1>1, <1>0, <3>1, <3>2, Names DEF Acquire, Transfers
  <2>2. xfer["input"].kind = "write" \/ xfer["input"] = NoXfer
    BY DEF RingInv, PlaceInv, InputPlace
  <2>3. /\ OfOneEpoch(pending')
        /\ xfer'["input"].kind = "write" =>
              \A k \in 1 .. Len(xfer'["input"].data) : Whole(xfer'["input"].data[k])
    BY <1>p, <2>1 DEF CaptureInv
  <2>4. Distance("capture")' = Distance("capture")
        /\ \A i \in 1 .. Distance("capture") : Item("capture", i)' = Item("capture", i)
    BY <1>0, <2>1, Names, ItemsKept
  <2>5. \A i \in 1 .. Distance("capture")' : Whole(Item("capture", i)')
    BY <2>4 DEF CaptureInv
  <2>6. \A i \in 1 .. Len(rb'["capture"].last) : Whole(rb'["capture"].last[i])
    BY <2>1 DEF CaptureInv
  <2> QED
    BY <2>3, <2>5, <2>6 DEF CaptureInv, Whole, OfOneEpoch
<1>2. CASE CommitRead(t)
  <2> PICK r, n : r = xfer[t].ring /\ n = xfer[t].n
    OBVIOUS
  <2>1. /\ xfer[t].kind = "read" /\ r \in Rings /\ t = Reader(r)
    BY <1>0, <1>2, CommitReadFacts, HoldFacts
  <2>2. t # "input"
    BY <2>1 DEF Reader
  <2>3. xfer'["input"] = xfer["input"]
    BY <1>0, <1>2, <2>2, Names, CommitReadFacts
  <2>4. /\ \A i \in 1 .. Distance("capture")' : Whole(Item("capture", i)')
        /\ \A i \in 1 .. Len(rb'["capture"].last) : Whole(rb'["capture"].last[i])
    <3>1. CASE r # "capture"
      <4>1. rb'["capture"] = rb["capture"]
        BY <1>0, <1>2, <3>1, Names, CommitReadFacts
      <4>2. Distance("capture")' = Distance("capture")
            /\ \A i \in 1 .. Distance("capture") : Item("capture", i)' = Item("capture", i)
        BY <1>0, <4>1, Names, ItemsKept
      <4> QED
        BY <4>1, <4>2 DEF CaptureInv
    <3>2. CASE r = "capture"
      <4>1. /\ n \in Nat /\ n > 0
            /\ Distance(r) \in Nat /\ Distance(r)' \in Nat /\ Distance(r) = Distance(r)' + n
            /\ \A i \in 1 .. Distance(r)' : Item(r, i)' = Item(r, i + n)
            /\ \A i \in 1 .. n : Piece(t)[i] = Item(r, i)
        BY <1>0, <1>2, ItemsTaken
      <4>2. rb'[r].last = Piece(t) /\ Len(Piece(t)) = n
        BY <1>0, <1>2, <2>1, CommitReadFacts, PieceFacts
      <4>3. \A i \in 1 .. Distance(r) : Whole(Item(r, i))
        BY <3>2 DEF CaptureInv
      <4>4. ASSUME NEW i \in 1 .. Distance(r)' PROVE Whole(Item(r, i)')
        <5>1. i + n \in 1 .. Distance(r) /\ Item(r, i)' = Item(r, i + n)
          BY <4>1
        <5> QED
          BY <4>3, <5>1
      <4>5. ASSUME NEW i \in 1 .. Len(rb'[r].last) PROVE Whole(rb'[r].last[i])
        <5>1. i \in 1 .. n /\ i \in 1 .. Distance(r) /\ rb'[r].last[i] = Item(r, i)
          BY <4>1, <4>2
        <5> QED
          BY <4>3, <5>1
      <4> QED
        BY <3>2, <4>4, <4>5
    <3> QED
      BY <3>1, <3>2
  <2> QED
    BY <1>p, <2>3, <2>4 DEF CaptureInv, Whole, OfOneEpoch
<1>3. CASE CommitWrite(t)
  <2> PICK r, n : r = xfer[t].ring /\ n = xfer[t].n
    OBVIOUS
  <2>1. /\ xfer[t].kind = "write" /\ r \in Rings /\ t = Writer(r) /\ xfer[t].done \in Nat
        /\ Len(xfer[t].data) = xfer[t].want /\ xfer[t].done + n <= xfer[t].want /\ xfer[t].want \in Nat
    BY <1>0, <1>3, CommitWriteFacts, HoldFacts
  <2>2. /\ xfer'[t].data = xfer[t].data /\ xfer'[t].kind = "write" /\ rb'[r].last = rb[r].last
        /\ \A u \in Threads : u # t => xfer'[u] = xfer[u]
        /\ \A s \in Rings : s # r => rb'[s] = rb[s]
    BY <1>0, <1>3, CommitWriteFacts
  <2>3. xfer'["input"].kind = "write" =>
            \A k \in 1 .. Len(xfer'["input"].data) : Whole(xfer'["input"].data[k])
    BY <2>1, <2>2, Names DEF CaptureInv
  <2>4. /\ \A i \in 1 .. Distance("capture")' : Whole(Item("capture", i)')
        /\ \A i \in 1 .. Len(rb'["capture"].last) : Whole(rb'["capture"].last[i])
    <3>1. CASE r # "capture"
      <4>1. rb'["capture"] = rb["capture"]
        BY <2>2, <3>1, Names
      <4>2. Distance("capture")' = Distance("capture")
            /\ \A i \in 1 .. Distance("capture") : Item("capture", i)' = Item("capture", i)
        BY <1>0, <4>1, Names, ItemsKept
      <4> QED
        BY <4>1, <4>2 DEF CaptureInv
    <3>2. CASE r = "capture"
      <4>0. t = "input"
        BY <2>1, <3>2, Names
      <4>1. /\ n \in Nat /\ n > 0 /\ Distance(r) \in Nat /\ Distance(r)' = Distance(r) + n
            /\ \A i \in 1 .. Distance(r) : Item(r, i)' = Item(r, i)
            /\ \A i \in Distance(r) + 1 .. Distance(r) + n :
                  Item(r, i)' = xfer[t].data[xfer[t].done + (i - Distance(r))]
        BY <1>0, <1>3, ItemsPut
      <4>2. /\ \A i \in 1 .. Distance(r) : Whole(Item(r, i))
            /\ \A k \in 1 .. Len(xfer[t].data) : Whole(xfer[t].data[k])
        BY <2>1, <3>2, <4>0 DEF CaptureInv
      <4>3. ASSUME NEW i \in 1 .. Distance(r)' PROVE Whole(Item(r, i)')
        <5>1. CASE i <= Distance(r)
          BY <4>1, <4>2, <5>1
        <5>2. CASE i > Distance(r)
          <6>1. i \in Distance(r) + 1 .. Distance(r) + n
            BY <4>1, <5>2
          <6>2. xfer[t].done + (i - Distance(r)) \in 1 .. Len(xfer[t].data)
            BY <2>1, <4>1, <6>1
          <6> QED
            BY <4>1, <4>2, <6>1, <6>2
        <5> QED
          BY <4>1, <5>1, <5>2
      <4> QED
        BY <2>2, <3>2, <4>3 DEF CaptureInv
    <3> QED
      BY <3>1, <3>2
  <2> QED
    BY <1>p, <2>3, <2>4 DEF CaptureInv, Whole, OfOneEpoch
<1> QED
  BY <1>1, <1>2, <1>3 DEF RingStep

LEMMA NextCapture == ASSUME ThreadInv, RingInv, CaptureInv, [Next]_vars PROVE CaptureInv'
<1>1. CASE \/ Opening \/ Closing \/ Working \/ OutputRuns \/ InputReturns
           \/ (\E d \in Devices : DeviceStep(d))
           \/ (\E f \in Periods : OutputStarts(f) \/ InputStarts(f))
           \/ UNCHANGED vars
  <2>1. rb' = rb /\ pending' = pending /\ xfer'["input"] = xfer["input"]
    BY <1>1, InputRests
  <2>2. OfOneEpoch(pending)'
    BY <2>1 DEF CaptureInv, OfOneEpoch
  <2> QED
    BY <2>1, <2>2, CaptureKept
<1>2. CASE InputCopies
  <2>1. /\ rb' = rb /\ OfOneEpoch(pending') /\ pending' \in Frames /\ Len(pending'.samples) = Have + Copied
        /\ xfer' = IF Have + Copied = Frame THEN [xfer EXCEPT !["input"] = Writing("capture", <<pending'>>)]
                   ELSE xfer
    BY <1>2, CopyFacts DEF CaptureInv
  <2>2. CASE Have + Copied = Frame
    <3> PICK f, items : f = pending' /\ items = <<f>>
      OBVIOUS
    <3>1. f \in Frames /\ f \in Values
      BY <2>1 DEF Values
    <3>2. items \in Seq(Values) /\ Len(items) = 1 /\ items[1] = f
      BY <3>1
    <3>3. xfer'["input"] = Writing("capture", items)
      BY <2>1, <2>2, Names DEF RingInv, BufferInv
    <3>4. xfer'["input"].data = items
      <4>1. "capture" \in Rings /\ items \in Seq(Values)
        BY <3>2, Names
      <4>2. Writing("capture", items).data = items
        BY <4>1, SpecialTransfers, Zenon
      <4> QED
        BY <3>3, <4>2
    <3>5. Whole(f)
      BY <2>1, <2>2 DEF Whole
    <3>6. \A k \in 1 .. Len(xfer'["input"].data) : Whole(xfer'["input"].data[k])
      BY <3>2, <3>4, <3>5
    <3> QED
      BY <2>1, <3>6, CaptureKept DEF OfOneEpoch
  <2>3. CASE Have + Copied # Frame
    BY <2>1, <2>3, CaptureKept DEF OfOneEpoch
  <2> QED
    BY <2>2, <2>3
<1>3. CASE InputPushed
  <2>1. rb' = rb /\ xfer'["input"] = NoXfer /\ pending' = [pending EXCEPT !.samples = <<>>]
    BY <1>3, Names DEF InputPushed, RingInv, BufferInv
  <2>2. pending' \in Frames /\ Len(pending'.samples) = 0
    <3>1. <<>> \in Seq(Nat) /\ Len(<<>>) = 0 /\ pending \in Frames
      BY DEF CaptureInv, OfOneEpoch
    <3> QED
      BY <2>1, <3>1 DEF Frames
  <2>3. OfOneEpoch(pending)'
    BY <2>2 DEF OfOneEpoch
  <2> QED
    BY <2>1, <2>3, CaptureKept
<1>4. CASE \E t \in Threads : RingStep(t)
  BY <1>4, CaptureStep
<1> QED
  BY <1>1, <1>2, <1>3, <1>4 DEF Next, InputRuns

(* Every frame ra_device_capture hands to the worker is full and of one    *)
(* epoch, for any frame size, period and ring size, and wherever the epoch *)
(* is set in the middle of a callback.                                     *)
THEOREM FramesOfOneEpoch == Spec => []OneEpochFrames
<1>1. Init => CaptureInv
  <2> SUFFICES ASSUME Init PROVE CaptureInv
    OBVIOUS
  <2>1. /\ rb["capture"] = [read |-> Start, write |-> Start, last |-> <<>>,
                            mem |-> [i \in 0 .. Size("capture") - 1 |-> 0]]
        /\ xfer["input"] = NoXfer /\ pending = [epoch |-> 0, samples |-> <<>>]
    BY Names DEF Init, RingInit
  <2>2. Distance("capture") = 0
    BY <2>1 DEF Distance, Start
  <2>3. OfOneEpoch(pending)
    <3>1. <<>> \in Seq(Nat) /\ Len(<<>>) = 0
      OBVIOUS
    <3> QED
      BY <2>1, <3>1 DEF OfOneEpoch, Frames
  <2> QED
    BY <2>1, <2>2, <2>3, SpecialTransfers DEF CaptureInv
<1>2. ThreadInv /\ RingInv /\ CaptureInv /\ [Next]_vars => CaptureInv'
  BY NextCapture
<1>3. RingInv /\ CaptureInv => OneEpochFrames
  <2> SUFFICES ASSUME RingInv, CaptureInv, NEW i \in DOMAIN rb["capture"].last
               PROVE  /\ Len(rb["capture"].last[i].samples) = Frame
                      /\ \A k \in DOMAIN rb["capture"].last[i].samples :
                            rb["capture"].last[i].samples[k] = rb["capture"].last[i].epoch
    BY DEF OneEpochFrames
  <2>1. rb["capture"].last \in Seq(Values)
    BY Names DEF RingInv, BufferInv, RingStates
  <2>2. Whole(rb["capture"].last[i])
    BY <2>1 DEF CaptureInv
  <2>3. rb["capture"].last[i].samples \in Seq(Nat)
    BY <2>2 DEF Whole, OfOneEpoch, Frames
  <2> QED
    BY <2>2, <2>3 DEF Whole, OfOneEpoch
<1> QED
  BY <1>1, <1>2, <1>3, RingsHold, PTL DEF Spec

-----------------------------------------------------------------------------
(* The rings are queues *)

LEMMA FrontOf ==
    ASSUME NEW S, NEW a \in Seq(S), NEW b \in Seq(S), Len(b) <= Len(a),
           \A i \in 1 .. Len(b) : b[i] = a[i]
    PROVE  SubSeq(a, 1, Len(b)) = b
<1>1. Len(b) \in Nat /\ Len(a) \in Nat
  OBVIOUS
<1>2. SubSeq(a, 1, Len(b)) = [i \in 1 .. Len(b) |-> a[i]]
  BY <1>1, SubSeqProperties
<1>3. b = [i \in 1 .. Len(b) |-> b[i]]
  OBVIOUS
<1> QED
  BY <1>2, <1>3

LEMMA RestOf ==
    ASSUME NEW S, NEW a \in Seq(S), NEW b \in Seq(S), NEW n \in Nat, Len(a) = Len(b) + n,
           \A i \in 1 .. Len(b) : b[i] = a[i + n]
    PROVE  SubSeq(a, n + 1, Len(a)) = b
<1>1. Len(b) \in Nat /\ Len(a) \in Nat
  OBVIOUS
<1>2. SubSeq(a, n + 1, Len(a)) = [i \in 1 .. Len(b) |-> a[i + n]]
  BY <1>1, SubSeqProperties
<1>3. b = [i \in 1 .. Len(b) |-> b[i]]
  OBVIOUS
<1> QED
  BY <1>2, <1>3

Content(r) == [i \in 1 .. Distance(r) |-> Item(r, i)]

Contents == [r \in Rings |-> Content(r)]

Lasts == [r \in Rings |-> rb[r].last]

LEMMA ContentFacts ==
    ASSUME BufferInv, NEW r \in Rings
    PROVE  /\ Content(r) \in Seq(Values) /\ Len(Content(r)) = Distance(r)
           /\ Contents[r] = Content(r) /\ Lasts[r] = rb[r].last
           /\ \A i \in 1 .. Distance(r) : Content(r)[i] = Item(r, i)
<1>1. Distance(r) \in Nat /\ \A i \in 1 .. Distance(r) : Item(r, i) \in Values
  BY ItemsNow
<1>2. Content(r) = [i \in 1 .. Distance(r) |-> Content(r)[i]]
      /\ \A i \in 1 .. Distance(r) : Content(r)[i] = Item(r, i)
  BY DEF Content
<1>3. Content(r) \in Seq(Values) /\ Len(Content(r)) = Distance(r)
  <2> PICK s : s = Content(r)
    OBVIOUS
  <2>1. s = [i \in 1 .. Distance(r) |-> s[i]] /\ \A i \in 1 .. Distance(r) : s[i] \in Values
    BY <1>1, <1>2
  <2> QED
    BY <1>1, <2>1, SeqFacts
<1> QED
  BY <1>2, <1>3 DEF Contents, Lasts

LEMMA ContentNext ==
    ASSUME BufferInv', NEW r \in Rings
    PROVE  /\ Content(r)' \in Seq(Values) /\ Len(Content(r)') = Distance(r)'
           /\ Contents'[r] = Content(r)' /\ Lasts'[r] = rb'[r].last
           /\ \A i \in 1 .. Distance(r)' : Content(r)'[i] = Item(r, i)'
<1>1. /\ (Content(r) \in Seq(Values))' /\ (Len(Content(r)) = Distance(r))'
      /\ (Contents[r] = Content(r))' /\ (Lasts[r] = rb[r].last)'
      /\ (\A i \in 1 .. Distance(r) : Content(r)[i] = Item(r, i))'
  BY ContentFacts, PTL
<1> QED
  BY <1>1

LEMMA OtherQueues ==
    ASSUME BufferInv, NEW r \in Rings, \A s \in Rings : s # r => rb'[s] = rb[s]
    PROVE  Queue!Others(r)
<1> SUFFICES ASSUME NEW s \in Rings \ {r} PROVE Contents'[s] = Contents[s] /\ Lasts'[s] = Lasts[s]
  BY DEF Queue!Others, Contents, Content, Item, Lasts
<1>1. rb'[s] = rb[s]
  OBVIOUS
<1>2. Content(s)' = Content(s)
  BY <1>1 DEF Content, Item, Distance
<1> QED
  BY <1>1, <1>2 DEF Contents, Lasts

LEMMA ReadTakes ==
    ASSUME BufferInv, NEW t \in Threads, CommitRead(t), NEW r, r = xfer[t].ring
    PROVE  r \in Rings /\ Queue!QTake(r)
<1> PICK n : n = xfer[t].n
  OBVIOUS
<1>1. /\ r \in Rings /\ n \in Nat /\ n > 0
      /\ Distance(r) \in Nat /\ Distance(r)' \in Nat /\ Distance(r) = Distance(r)' + n
      /\ \A i \in 1 .. Distance(r)' : Item(r, i)' = Item(r, i + n)
      /\ \A i \in 1 .. n : Piece(t)[i] = Item(r, i)
  BY ItemsTaken
<1>2. /\ rb'[r].last = Piece(t) /\ \A s \in Rings : s # r => rb'[s] = rb[s]
      /\ Piece(t) \in Seq(Values) /\ Len(Piece(t)) = n
  BY CommitReadFacts, PieceFacts
<1>3. BufferInv'
  BY CommitReadInv
<1> PICK a, b, p : a = Content(r) /\ b = Content(r)' /\ p = Piece(t)
  OBVIOUS
<1>4. /\ a \in Seq(Values) /\ Len(a) = Distance(r) /\ Contents[r] = a
      /\ \A i \in 1 .. Distance(r) : a[i] = Item(r, i)
  BY <1>1, ContentFacts
<1>5. /\ b \in Seq(Values) /\ Len(b) = Distance(r)' /\ Contents'[r] = b /\ Lasts'[r] = p
      /\ \A i \in 1 .. Distance(r)' : b[i] = Item(r, i)'
  BY <1>1, <1>2, <1>3, ContentNext
<1>6. p = SubSeq(a, 1, n)
  <2>1. p \in Seq(Values) /\ Len(p) = n /\ Len(p) <= Len(a) /\ \A i \in 1 .. Len(p) : p[i] = a[i]
    BY <1>1, <1>2, <1>4
  <2> QED
    BY <1>4, <2>1, FrontOf
<1>7. b = SubSeq(a, n + 1, Len(a))
  <2>1. ASSUME NEW i \in 1 .. Len(b) PROVE b[i] = a[i + n]
    <3>1. i \in 1 .. Distance(r)' /\ i + n \in 1 .. Distance(r)
      BY <1>1, <1>5
    <3> QED
      BY <1>1, <1>4, <1>5, <3>1
  <2>2. Len(a) = Len(b) + n
    BY <1>1, <1>4, <1>5
  <2>3. a \in Seq(Values) /\ b \in Seq(Values) /\ n \in Nat
    BY <1>1, <1>4, <1>5
  <2>4. SubSeq(a, n + 1, Len(a)) = b
    <3>1. \A i \in 1 .. Len(b) : b[i] = a[i + n]
      BY <2>1
    <3>2. \A x \in Seq(Values) : \A y \in Seq(Values) : \A m \in Nat :
              Len(x) = Len(y) + m /\ (\A i \in 1 .. Len(y) : y[i] = x[i + m])
                  => SubSeq(x, m + 1, Len(x)) = y
      BY RestOf
    <3> QED
      BY <2>2, <2>3, <3>1, <3>2, Zenon
  <2> QED
    BY <2>4
<1>8. n \in 1 .. Len(a)
  BY <1>1, <1>4
<1>9. \E m \in 1 .. Len(Contents[r]) :
          /\ Lasts'[r] = SubSeq(Contents[r], 1, m)
          /\ Contents'[r] = SubSeq(Contents[r], m + 1, Len(Contents[r]))
  BY <1>4, <1>5, <1>6, <1>7, <1>8
<1>10. Queue!Others(r)
  BY <1>1, <1>2, OtherQueues
<1> QED
  BY <1>1, <1>9, <1>10 DEF Queue!QTake, Contents, Content, Item, Lasts

LEMMA WritePuts ==
    ASSUME BufferInv, NEW t \in Threads, CommitWrite(t), NEW r, r = xfer[t].ring
    PROVE  r \in Rings /\ Queue!QPut(r)
<1> PICK n : n = xfer[t].n
  OBVIOUS
<1>1. /\ r \in Rings /\ n \in Nat /\ n > 0
      /\ Distance(r) \in Nat /\ Distance(r)' = Distance(r) + n /\ Distance(r)' <= Size(r)
      /\ \A i \in 1 .. Distance(r) : Item(r, i)' = Item(r, i)
  BY ItemsPut
<1>2. rb'[r].last = rb[r].last /\ \A s \in Rings : s # r => rb'[s] = rb[s]
  BY CommitWriteFacts
<1>3. BufferInv'
  BY CommitWriteInv
<1> PICK a, b : a = Content(r) /\ b = Content(r)'
  OBVIOUS
<1>4. /\ a \in Seq(Values) /\ Len(a) = Distance(r) /\ Contents[r] = a /\ Lasts[r] = rb[r].last
      /\ \A i \in 1 .. Distance(r) : a[i] = Item(r, i)
  BY <1>1, ContentFacts
<1>5. /\ b \in Seq(Values) /\ Len(b) = Distance(r)' /\ Contents'[r] = b /\ Lasts'[r] = rb[r].last
      /\ \A i \in 1 .. Distance(r)' : b[i] = Item(r, i)'
  BY <1>1, <1>2, <1>3, ContentNext
<1>6. SubSeq(b, 1, Len(a)) = a
  <2>0. Len(a) <= Len(b)
    BY <1>1, <1>4, <1>5
  <2>1. ASSUME NEW i \in 1 .. Len(a) PROVE a[i] = b[i]
    <3>1. i \in 1 .. Distance(r) /\ i \in 1 .. Distance(r)'
      BY <1>1, <1>4
    <3> QED
      BY <1>1, <1>4, <1>5, <3>1
  <2> QED
    BY <1>4, <1>5, <2>0, <2>1, FrontOf
<1>7. /\ Len(Contents[r]) < Len(Contents'[r]) /\ Len(Contents'[r]) <= Size(r)
      /\ SubSeq(Contents'[r], 1, Len(Contents[r])) = Contents[r]
      /\ Lasts'[r] = Lasts[r]
  BY <1>1, <1>4, <1>5, <1>6
<1>8. Queue!Others(r)
  BY <1>1, <1>2, OtherQueues
<1> QED
  BY <1>1, <1>7, <1>8 DEF Queue!QPut, Contents, Content, Item, Lasts

(* The rings of the audio device, between a worker and two callback        *)
(* threads that acquire and commit at any time, behave as FIFO queues      *)
(* bounded by the ring size, for any frame size and capacity.              *)
THEOREM RingsAreQueues == Spec => ImplementsPcmQueue
<1>1. Init => Queue!QInit
  <2> SUFFICES ASSUME Init PROVE Queue!QInit
    OBVIOUS
  <2>1. rb = [r \in Rings |-> [read |-> Start, write |-> Start, last |-> <<>>,
                               mem |-> [i \in 0 .. Size(r) - 1 |-> 0]]]
    BY DEF Init, RingInit
  <2>2. ASSUME NEW r \in Rings PROVE Content(r) = <<>> /\ rb[r].last = <<>>
    <3>1. rb[r].read = Start /\ rb[r].write = Start /\ Start.off = 0 /\ rb[r].last = <<>>
      BY <2>1 DEF Start
    <3>2. Distance(r) = 0
      BY <3>1 DEF Distance
    <3> QED
      BY <3>1, <3>2 DEF Content
  <2>3. Contents = [r \in Rings |-> <<>>] /\ Lasts = [r \in Rings |-> <<>>]
    BY <2>2 DEF Contents, Lasts
  <2> QED
    BY <2>3 DEF Queue!QInit, Contents, Content, Item, Lasts
<1>2. ASSUME ThreadInv, RingInv, [Next]_vars
      PROVE  rb' = rb \/ \E r \in Rings : Queue!QPut(r) \/ Queue!QTake(r)
  <2>0. BufferInv
    BY <1>2 DEF RingInv
  <2>1. ASSUME NEW t \in Threads, RingStep(t)
        PROVE  rb' = rb \/ \E r \in Rings : Queue!QPut(r) \/ Queue!QTake(r)
    <3>1. CASE Acquire(t)
      BY <3>1 DEF Acquire
    <3>2. CASE CommitRead(t)
      BY <2>0, <3>2, ReadTakes
    <3>3. CASE CommitWrite(t)
      BY <2>0, <3>3, WritePuts
    <3> QED
      BY <2>1, <3>1, <3>2, <3>3 DEF RingStep
  <2>2. CASE InputCopies \/ InputPushed
    BY <2>2 DEF InputCopies, InputPushed
  <2>3. CASE \/ Opening \/ Closing \/ Working \/ OutputRuns \/ InputReturns
             \/ (\E d \in Devices : DeviceStep(d))
             \/ (\E f \in Periods : OutputStarts(f) \/ InputStarts(f))
             \/ UNCHANGED vars
    BY <1>2, <2>3, InputRests
  <2> QED
    BY <1>2, <2>1, <2>2, <2>3 DEF Next, InputRuns
<1>3. ThreadInv /\ RingInv /\ [Next]_vars =>
          [\E r \in Rings : Queue!QPut(r) \/ Queue!QTake(r)]_<<Contents, Lasts>>
  <2>1. ASSUME rb' = rb PROVE UNCHANGED <<Contents, Lasts>>
    BY <2>1 DEF Contents, Content, Item, Distance, Lasts
  <2> QED
    BY <1>2, <2>1
<1> QED
  BY <1>1, <1>3, RingsHold, PTL DEF Spec, ImplementsPcmQueue, Queue!QSpec, Contents, Content, Item, Lasts

-----------------------------------------------------------------------------
(* The output streams *)

LEMMA StreamFacts ==
    ASSUME RingInv, NEW o \in Outputs
    PROVE  /\ o \in Rings /\ Taken(o) \in Nat /\ Put(o) \in Nat /\ Distance(o) \in Nat
           /\ written[o] \in Nat /\ consumed[o] \in Nat /\ discard[o] \in Nat
           /\ written[o] <= Put(o) /\ consumed[o] <= Taken(o)
<1>0. BufferInv /\ CounterType
  BY DEF RingInv
<1>1. xfer["output"].done \in Nat /\ xfer["worker"].done \in Nat
  BY <1>0, Names, HoldFacts
<1>2. written[o] \in Nat /\ consumed[o] \in Nat /\ discard[o] \in Nat
  BY <1>0 DEF CounterType
<1>3. o \in Rings /\ Distance(o) \in Nat
  BY <1>0, Names, ItemsNow
<1> QED
  BY <1>1, <1>2, <1>3 DEF Taken, Put

(* The stream of a ring whose content and counts a step leaves alone.      *)
LEMMA StreamCarried ==
    ASSUME RingInv, StreamInv, NEW o \in Outputs, rb'[o] = rb[o],
           Taken(o)' = Taken(o), Put(o)' = Put(o), discard'[o] <= written'[o]
    PROVE  StreamOf(o)'
<1>1. BufferInv /\ o \in Rings /\ StreamOf(o)
  BY Names DEF RingInv, StreamInv
<1>2. Distance(o)' = Distance(o) /\ \A i \in 1 .. Distance(o) : Item(o, i)' = Item(o, i)
  BY <1>1, ItemsKept
<1>3. \A i \in 1 .. Distance(o)' : Item(o, i)' = Taken(o)' + i
  BY <1>1, <1>2 DEF StreamOf
<1>4. Taken(o)' + Distance(o)' = Put(o)'
  BY <1>1, <1>2 DEF StreamOf
<1> QED
  BY <1>3, <1>4 DEF StreamOf

(* A step that moves nothing in or out of the output rings.                *)
LEMMA StreamRests ==
    ASSUME RingInv, StreamInv, \A o \in Outputs : rb'[o] = rb[o],
           UNCHANGED <<written, consumed, Output>>,
           \A o \in Outputs : discard'[o] <= written'[o],
           \A t \in {"worker", "output"} :
              /\ xfer'[t].kind = xfer[t].kind /\ xfer'[t].ring = xfer[t].ring
              /\ xfer'[t].want = xfer[t].want
              /\ \/ xfer'[t].done = xfer[t].done /\ xfer'[t].data = xfer[t].data
                 \/ xfer[t].kind = "read" /\ t = "worker"
                 \/ xfer[t].kind = "write" /\ t = "output"
    PROVE  StreamInv'
<1>1. ASSUME NEW o \in Outputs PROVE StreamOf(o)'
  <2>1. Taken(o)' = Taken(o) /\ Put(o)' = Put(o)
    BY DEF Taken, Put
  <2> QED
    BY <2>1, StreamCarried
<1>2. WrittenInv'
  BY DEF StreamInv, WrittenInv
<1>3. ReadInv'
  BY DEF StreamInv, ReadInv
<1>4. BoundaryInv'
  BY DEF StreamInv, BoundaryInv
<1> QED
  BY <1>1, <1>2, <1>3, <1>4 DEF StreamInv

(* The worker begins or ends a transfer: what it has put is then written.  *)
LEMMA WorkerStream ==
    ASSUME RingInv, StreamInv, rb' = rb, NEW x, xfer' = [xfer EXCEPT !["worker"] = x],
           UNCHANGED <<consumed, discard, cb>>,
           \A o \in Outputs : written'[o] = Put(o),
           x.kind = "write" =>
              x.done = 0 /\ \A i \in 1 .. Len(x.data) : x.data[i] = written'[x.ring] + i
    PROVE  StreamInv'
<1>0. BufferInv /\ PlaceInv /\ xfer'["worker"] = x /\ xfer'["output"] = xfer["output"] /\ Output' = Output
  BY Names DEF RingInv, BufferInv, Output
<1>1. ASSUME NEW o \in Outputs PROVE StreamOf(o)' /\ written[o] <= written'[o]
  <2>0. /\ Taken(o) \in Nat /\ Put(o) \in Nat /\ written[o] \in Nat /\ discard[o] \in Nat
        /\ written[o] <= Put(o) /\ discard[o] <= written[o]
    BY StreamFacts DEF StreamInv, StreamOf
  <2>1. Taken(o)' = Taken(o)
    BY <1>0 DEF Taken
  <2>2. Put(o)' = Put(o)
    BY <1>0, <2>0 DEF Put
  <2>3. discard'[o] <= written'[o]
    BY <2>0
  <2> QED
    BY <2>0, <2>1, <2>2, <2>3, StreamCarried
<1>2. WrittenInv'
  BY <1>0 DEF WrittenInv
<1>3. ReadInv'
  BY <1>0 DEF StreamInv, ReadInv
<1>4. BoundaryInv'
  <2>1. Output.ring \in Outputs /\ Output.until \in Nat
    BY OutputState DEF Callbacks
  <2>2. written[Output.ring] \in Nat /\ written'[Output.ring] \in Nat
        /\ written[Output.ring] <= written'[Output.ring]
    BY <1>1, <2>1, StreamFacts
  <2> QED
    BY <1>0, <2>1, <2>2 DEF StreamInv, BoundaryInv
<1> QED
  BY <1>1, <1>2, <1>3, <1>4 DEF StreamInv

(* The output callback begins or ends a transfer: what it has taken is     *)
(* then consumed.                                                          *)
LEMMA OutputStream ==
    ASSUME RingInv, StreamInv, rb' = rb, NEW x, xfer' = [xfer EXCEPT !["output"] = x],
           UNCHANGED <<written, discard>>,
           \A o \in Outputs : consumed'[o] = Taken(o),
           x.kind = "read" => x.done = 0,
           BoundaryInv'
    PROVE  StreamInv'
<1>0. BufferInv /\ xfer'["output"] = x /\ xfer'["worker"] = xfer["worker"]
  BY Names DEF RingInv, BufferInv
<1>1. ASSUME NEW o \in Outputs PROVE StreamOf(o)'
  <2>0. Taken(o) \in Nat /\ Put(o) \in Nat /\ discard[o] <= written[o]
    BY StreamFacts DEF StreamInv, StreamOf
  <2>1. Taken(o)' = Taken(o)
    BY <1>0, <2>0 DEF Taken
  <2>2. Put(o)' = Put(o)
    BY <1>0 DEF Put
  <2> QED
    BY <2>0, <2>1, <2>2, StreamCarried
<1>2. WrittenInv'
  BY <1>0 DEF StreamInv, WrittenInv
<1>3. ReadInv'
  BY <1>0 DEF ReadInv
<1> QED
  BY <1>1, <1>2, <1>3 DEF StreamInv

LEMMA WorkingStream == ASSUME ThreadInv, RingInv, StreamInv, Working PROVE StreamInv'
<1>0. BufferInv /\ PlaceInv /\ CounterType
  BY DEF RingInv
<1>1. ASSUME xfer["worker"].kind # "write" PROVE \A o \in Outputs : Put(o) = written[o]
  BY <1>1, StreamFacts DEF Put
<1>2. worker.at # "write" => xfer["worker"].kind # "write"
  BY <1>0, SpecialTransfers DEF PlaceInv, WorkerPlace
<1>3. ASSUME NEW o \in Outputs, Write(o) PROVE StreamInv'
  <2> PICK items : items = [i \in 1 .. Frame |-> written[o] + i]
    OBVIOUS
  <2>1. /\ rb' = rb /\ xfer' = [xfer EXCEPT !["worker"] = Writing(o, items)]
        /\ UNCHANGED <<consumed, discard, cb, written>> /\ worker.at = "idle"
    BY <1>3 DEF Write, Transfer, counters
  <2>2. items \in Seq(Values) /\ \A i \in 1 .. Len(items) : items[i] = written[o] + i
    <3>1. written[o] \in Nat
      BY <1>0 DEF CounterType
    <3>2. \A i \in 1 .. Frame : written[o] + i \in Values
      BY <3>1, FrameFacts DEF Values
    <3>3. items \in Seq(Values) /\ Len(items) = Frame
      BY <3>2, FrameFacts
    <3> QED
      BY <3>3
  <2>3. /\ Writing(o, items).done = 0 /\ Writing(o, items).ring = o /\ Writing(o, items).data = items
    <3>1. items \in Seq(Values) /\ o \in Rings
      BY <2>2, Names
    <3>2. \A r \in Rings : \A s \in Seq(Values) :
              Writing(r, s).done = 0 /\ Writing(r, s).ring = r /\ Writing(r, s).data = s
      BY SpecialTransfers
    <3> QED
      BY <3>1, <3>2, Zenon
  <2>4. \A p \in Outputs : written'[p] = Put(p)
    BY <1>1, <1>2, <2>1
  <2> QED
    BY <2>1, <2>2, <2>3, <2>4, WorkerStream
<1>4. CASE WriteReturns
  <2>1. /\ rb' = rb /\ xfer' = [xfer EXCEPT !["worker"] = NoXfer] /\ worker.at = "write"
        /\ UNCHANGED <<consumed, discard, cb>>
        /\ written' = [written EXCEPT ![worker.on] = @ + xfer["worker"].done]
    BY <1>4 DEF WriteReturns
  <2>2. xfer["worker"].kind = "write" /\ xfer["worker"].ring = worker.on /\ worker.on \in Outputs
    BY <1>0, <2>1 DEF PlaceInv, WorkerPlace
  <2>3. ASSUME NEW p \in Outputs PROVE written'[p] = Put(p)
    <3>1. written[p] \in Nat /\ xfer["worker"].done \in Nat /\ written \in [Outputs -> Nat]
      BY <1>0, StreamFacts, HoldFacts, Names DEF CounterType
    <3> QED
      BY <2>1, <2>2, <3>1 DEF Put
  <2> QED
    BY <2>1, <2>3, SpecialTransfers, WorkerStream
<1>5. ASSUME NEW x, rb' = rb, xfer' = [xfer EXCEPT !["worker"] = x], worker.at # "write",
             UNCHANGED <<consumed, discard, cb, written>>, x.kind # "write"
      PROVE  StreamInv'
  <2>1. \A p \in Outputs : written'[p] = Put(p)
    BY <1>1, <1>2, <1>5
  <2> QED
    BY <1>5, <2>1, WorkerStream
<1>6. CASE Reference \/ Capture
  <2>1. ASSUME NEW r \in Rings, NEW count \in Nat, Transfer("read", r, Reading(r, count)) PROVE StreamInv'
    <3>1. /\ rb' = rb /\ xfer' = [xfer EXCEPT !["worker"] = Reading(r, count)]
          /\ UNCHANGED <<consumed, discard, cb, written>> /\ worker.at = "idle"
      BY <2>1 DEF Transfer, counters
    <3>2. Reading(r, count).kind = "read"
      BY SpecialTransfers
    <3> QED
      BY <1>5, <3>1, <3>2
  <2> QED
    BY <1>6, <2>1, Names, FrameFacts DEF Reference, Capture
<1>7. CASE ReadReturns
  BY <1>5, <1>7, SpecialTransfers DEF ReadReturns, counters
<1>8. CASE Discard
  <2>1. /\ UNCHANGED <<rb, xfer, cb, written, consumed>> /\ Output' = Output
        /\ \/ discard' = [discard EXCEPT !["playback"] = written["playback"]]
           \/ discard' = [discard EXCEPT !["monitor"] = written["monitor"]]
    BY <1>8 DEF Discard, Output
  <2>2. \A o \in Outputs : discard'[o] <= written'[o]
    <3> SUFFICES ASSUME NEW o \in Outputs PROVE discard'[o] <= written'[o]
      OBVIOUS
    <3>1. discard[o] <= written[o] /\ written[o] \in Nat /\ discard \in [Outputs -> Nat]
      BY <1>0, StreamFacts DEF StreamInv, StreamOf, CounterType
    <3> QED
      BY <2>1, <3>1, Names
  <2> QED
    BY <2>1, <2>2, StreamRests
<1>9. CASE SetEpoch
  <2>1. UNCHANGED <<rb, xfer, cb, written, consumed, discard>> /\ Output' = Output
    BY <1>9 DEF SetEpoch, counters, Output
  <2>2. \A o \in Outputs : discard'[o] <= written'[o]
    BY <2>1 DEF StreamInv, StreamOf
  <2> QED
    BY <2>1, <2>2, StreamRests
<1> QED
  BY <1>3, <1>4, <1>6, <1>7, <1>8, <1>9 DEF Working

(* What the output callback has taken when it is not reading, and when it  *)
(* is.                                                                     *)
LEMMA TakenNow ==
    ASSUME RingInv
    PROVE  /\ Output.at \notin {"skip", "play"} => \A o \in Outputs : consumed[o] = Taken(o)
           /\ Output.at \in {"skip", "play"} =>
                 /\ Taken(Output.ring) = consumed[Output.ring] + xfer["output"].done
                 /\ \A o \in Outputs :
                       [consumed EXCEPT ![Output.ring] = @ + xfer["output"].done][o] = Taken(o)
<1>0. BufferInv /\ PlaceInv /\ CounterType /\ Output.ring \in Outputs /\ xfer["output"].done \in Nat
  BY OutputState DEF RingInv
<1>1. ASSUME Output.at \notin {"skip", "play"}, NEW o \in Outputs PROVE consumed[o] = Taken(o)
  <2>1. xfer["output"].kind # "read"
    BY <1>0, <1>1, SpecialTransfers DEF PlaceInv, OutputPlace
  <2> QED
    BY <2>1, StreamFacts DEF Taken
<1>2. ASSUME Output.at \in {"skip", "play"}
      PROVE  /\ Taken(Output.ring) = consumed[Output.ring] + xfer["output"].done
             /\ \A o \in Outputs :
                   [consumed EXCEPT ![Output.ring] = @ + xfer["output"].done][o] = Taken(o)
  <2>1. xfer["output"].kind = "read" /\ xfer["output"].ring = Output.ring
    BY <1>0, <1>2 DEF PlaceInv, OutputPlace
  <2>2. Taken(Output.ring) = consumed[Output.ring] + xfer["output"].done
    BY <2>1 DEF Taken
  <2>3. ASSUME NEW o \in Outputs
        PROVE  [consumed EXCEPT ![Output.ring] = @ + xfer["output"].done][o] = Taken(o)
    <3>1. consumed \in [Outputs -> Nat] /\ consumed[o] \in Nat
      BY <1>0 DEF CounterType
    <3>2. CASE o = Output.ring
      BY <1>0, <2>2, <3>1, <3>2
    <3>3. CASE o # Output.ring
      BY <1>0, <2>1, <3>1, <3>3 DEF Taken
    <3> QED
      BY <3>2, <3>3
  <2> QED
    BY <2>2, <2>3
<1> QED
  BY <1>1, <1>2

LEMMA OutputRunsStream ==
    ASSUME ThreadInv, RingInv, StreamInv, OutputRuns \/ \E f \in Periods : OutputStarts(f)
    PROVE  StreamInv'
<1>0. BufferInv /\ PlaceInv /\ CounterType
  BY DEF RingInv
<1>o. /\ Output \in Callbacks /\ Output.ring \in Outputs /\ Output.left \in Nat /\ Output.until \in Nat
      /\ cb["output"] = Output /\ cb \in [Devices -> Callbacks] /\ "output" \in Devices
      /\ xfer["output"].done \in Nat /\ xfer["output"].want \in Nat
      /\ Output.ring \in Rings
  BY OutputState, Names DEF Callbacks
<1>1. ASSUME NEW f \in Periods, OutputStarts(f) PROVE StreamInv'
  <2>1. /\ rb' = rb /\ xfer' = xfer /\ UNCHANGED <<written, discard, consumed>>
        /\ cb' = [cb EXCEPT !["output"] = [at |-> "load", ring |-> "playback", frames |-> f, left |-> f,
                                           until |-> 0]]
        /\ Thread("output", "loop", "callback")
    BY <1>1 DEF OutputStarts, counters
  <2>2. dev["output"].thread = "loop"
    BY <2>1 DEF Thread
  <2>3. Output.at = "none"
    BY <1>0, <1>o, <2>2 DEF PlaceInv, CallbackPlace, Output
  <2>4. xfer["output"] = NoXfer
    BY <1>0, <2>3 DEF PlaceInv, OutputPlace
  <2>5. xfer' = [xfer EXCEPT !["output"] = NoXfer]
    BY <1>0, <2>1, <2>4, Names DEF BufferInv
  <2>6. BoundaryInv'
    BY <1>o, <2>1 DEF BoundaryInv, Output
  <2>7. \A o \in Outputs : consumed'[o] = Taken(o)
    BY <2>1, <2>3, TakenNow
  <2> QED
    BY <2>1, <2>5, <2>6, <2>7, SpecialTransfers, OutputStream
<1>2. CASE LoadBoundary
  <2> PICK o, count : o = Output.ring /\ count = IF consumed[o] < discard[o] THEN discard[o] - consumed[o] ELSE 0
    OBVIOUS
  <2>1. /\ rb' = rb /\ xfer' = [xfer EXCEPT !["output"] = Reading(o, count)]
        /\ UNCHANGED <<written, discard, consumed>> /\ Output.at = "load"
        /\ cb' = [cb EXCEPT !["output"].at = "skip", !["output"].until = discard[o]]
    BY <1>2 DEF LoadBoundary, counters
  <2>2. consumed[o] \in Nat /\ discard[o] \in Nat /\ written[o] \in Nat /\ discard[o] <= written[o]
    BY <1>o, StreamFacts DEF StreamInv, StreamOf
  <2>3. count \in Nat /\ discard[o] <= consumed[o] + count
    BY <2>2
  <2>4. Reading(o, count).done = 0 /\ Reading(o, count).want = count
    BY <1>o, <2>3, SpecialTransfers
  <2>5. Output'.at = "skip" /\ Output'.until = discard[o] /\ Output'.ring = o
    BY <1>o, <2>1 DEF Output, Callbacks
  <2>6. xfer'["output"].want = count
    BY <1>0, <2>1, <2>4, Names DEF BufferInv
  <2>7. BoundaryInv'
    BY <2>1, <2>2, <2>3, <2>5, <2>6 DEF BoundaryInv
  <2>8. \A p \in Outputs : consumed'[p] = Taken(p)
    BY <2>1, TakenNow
  <2> QED
    BY <2>1, <2>4, <2>7, <2>8, OutputStream
<1>3. CASE Skipped
  <2> PICK o, count : o = Output.ring
                      /\ count = IF o = "playback" THEN Output.left ELSE Least(Frame, Output.left)
    OBVIOUS
  <2>1. /\ rb' = rb /\ xfer' = [xfer EXCEPT !["output"] = Reading(o, count)]
        /\ UNCHANGED <<written, discard>> /\ Output.at = "skip" /\ Finished("output")
        /\ consumed' = [consumed EXCEPT ![o] = @ + xfer["output"].done]
        /\ cb' = [cb EXCEPT !["output"].at = "play"]
    BY <1>3 DEF Skipped
  <2>2. count \in Nat
    BY <1>o, FrameFacts DEF Least
  <2>3. Reading(o, count).done = 0
    BY <1>o, <2>2, SpecialTransfers
  <2>4. \A p \in Outputs : consumed'[p] = Taken(p)
    BY <2>1, TakenNow
  <2>5. Output'.at = "play" /\ Output'.until = Output.until /\ Output'.ring = o
    BY <1>o, <2>1 DEF Output, Callbacks
  <2>6. Output.until <= Taken(o)
    <3>1. /\ Output.until <= written[o] /\ Output.until <= consumed[o] + xfer["output"].want
          /\ Taken(o) + Distance(o) = Put(o)
      BY <1>o, <2>1 DEF StreamInv, BoundaryInv, StreamOf
    <3>2. /\ Taken(o) \in Nat /\ Put(o) \in Nat /\ Distance(o) \in Nat /\ written[o] \in Nat
          /\ written[o] <= Put(o) /\ consumed[o] \in Nat
      BY <1>o, StreamFacts
    <3>3. Taken(o) = consumed[o] + xfer["output"].done
      BY <2>1, TakenNow
    <3>4. xfer["output"].kind = "read" /\ xfer["output"].ring = o
      BY <1>0, <2>1 DEF PlaceInv, OutputPlace
    <3>5. xfer["output"].done = xfer["output"].want \/ Readable(o) = 0
      BY <2>1, <3>4 DEF Finished, Available
    <3>6. Readable(o) = 0 => Distance(o) = 0
      BY <1>0, <1>o, ItemsNow
    <3> QED
      BY <1>o, <3>1, <3>2, <3>3, <3>5, <3>6
  <2>7. BoundaryInv'
    BY <1>o, <2>4, <2>5, <2>6 DEF BoundaryInv
  <2> QED
    BY <2>1, <2>3, <2>4, <2>7, OutputStream
<1>4. CASE PlayedPlayback
  <2> PICK items : items = [i \in 1 .. Output.frames |->
                               IF i <= xfer["output"].done THEN xfer["output"].data[i] ELSE Silence]
    OBVIOUS
  <2>1. /\ rb' = rb /\ xfer' = [xfer EXCEPT !["output"] = Writing("reference", items)]
        /\ UNCHANGED <<written, discard>> /\ Output.at = "play" /\ Output.ring = "playback"
        /\ consumed' = [consumed EXCEPT !["playback"] = @ + xfer["output"].done]
        /\ cb' = [cb EXCEPT !["output"].at = "reference"]
    BY <1>4 DEF PlayedPlayback, Played
  <2>2. Writing("reference", items).kind = "write"
    BY DEF Writing, NoXfer
  <2>3. \A p \in Outputs : consumed'[p] = Taken(p)
    BY <2>1, TakenNow
  <2>4. Output'.at = "reference"
    BY <1>o, <2>1 DEF Output, Callbacks
  <2>5. BoundaryInv'
    BY <2>4 DEF BoundaryInv
  <2> QED
    BY <2>1, <2>2, <2>3, <2>5, OutputStream
<1>5. CASE Referenced
  <2>1. /\ rb' = rb /\ xfer' = [xfer EXCEPT !["output"] = NoXfer]
        /\ UNCHANGED <<written, discard, consumed>> /\ Output.at = "reference"
        /\ cb' = [cb EXCEPT !["output"].at = "load", !["output"].ring = "monitor"]
    BY <1>5 DEF Referenced, counters
  <2>2. Output'.at = "load"
    BY <1>o, <2>1 DEF Output, Callbacks
  <2>3. BoundaryInv'
    BY <2>2 DEF BoundaryInv
  <2>4. \A p \in Outputs : consumed'[p] = Taken(p)
    BY <2>1, TakenNow
  <2> QED
    BY <2>1, <2>3, <2>4, SpecialTransfers, OutputStream
<1>6. CASE PlayedMonitor
  <2> PICK left : left = Output.left - xfer["output"].want
    OBVIOUS
  <2>1. /\ rb' = rb /\ xfer' = [xfer EXCEPT !["output"] = NoXfer]
        /\ UNCHANGED <<written, discard>> /\ Output.at = "play" /\ Output.ring = "monitor"
        /\ consumed' = [consumed EXCEPT !["monitor"] = @ + xfer["output"].done]
        /\ \/ cb' = [cb EXCEPT !["output"].at = "load", !["output"].left = left]
           \/ cb' = [cb EXCEPT !["output"] = NoCallback]
    BY <1>6 DEF PlayedMonitor, Played
  <2>2. Output'.at \in {"load", "none"}
    BY <1>o, <2>1 DEF Output, Callbacks, NoCallback
  <2>3. BoundaryInv'
    BY <2>2 DEF BoundaryInv
  <2>4. \A p \in Outputs : consumed'[p] = Taken(p)
    BY <2>1, TakenNow
  <2> QED
    BY <2>1, <2>3, <2>4, SpecialTransfers, OutputStream
<1> QED
  BY <1>1, <1>2, <1>3, <1>4, <1>5, <1>6 DEF OutputRuns

(* The output callback commits a piece it has read.                        *)
LEMMA StreamTaken ==
    ASSUME RingInv, StreamInv, CommitRead("output"), NEW o \in Outputs, o = xfer["output"].ring,
           UNCHANGED <<written, consumed, discard, cb>>
    PROVE  StreamInv'
<1>p. PICK n, done : n = xfer["output"].n /\ done = xfer["output"].done
  OBVIOUS
<1>0. BufferInv /\ "output" \in Threads /\ "worker" \in Threads /\ "worker" # "output"
  BY Names DEF RingInv
<1>1. /\ n \in Nat /\ n > 0
      /\ Distance(o) \in Nat /\ Distance(o)' \in Nat /\ Distance(o) = Distance(o)' + n
      /\ \A i \in 1 .. Distance(o)' : Item(o, i)' = Item(o, i + n)
      /\ \A i \in 1 .. n : Piece("output")[i] = Item(o, i)
  BY <1>0, <1>p, ItemsTaken
<1>2. /\ xfer["output"].kind = "read" /\ xfer'["output"].kind = "read" /\ xfer'["output"].ring = o
      /\ xfer'["output"].done = done + n /\ xfer'["output"].want = xfer["output"].want
      /\ xfer'["output"].data = xfer["output"].data \o Piece("output")
      /\ xfer'["worker"] = xfer["worker"] /\ \A s \in Rings : s # o => rb'[s] = rb[s]
  BY <1>0, <1>p, CommitReadFacts
<1>3. done \in Nat /\ Len(xfer["output"].data) = done /\ xfer["output"].data \in Seq(Values)
  BY <1>0, <1>2, <1>p, HoldFacts
<1>4. Piece("output") \in Seq(Values) /\ Len(Piece("output")) = n
  BY <1>0, <1>2, <1>p, PieceFacts
<1>5. /\ Taken(o) = consumed[o] + done /\ Taken(o)' = consumed[o] + (done + n)
      /\ consumed[o] \in Nat /\ Put(o)' = Put(o) /\ Put(o) \in Nat
  BY <1>2, <1>p, StreamFacts DEF Taken, Put
<1>6. /\ Taken(o) + Distance(o) = Put(o) /\ (\A i \in 1 .. Distance(o) : Item(o, i) = Taken(o) + i)
      /\ discard[o] <= written[o]
  BY DEF StreamInv, StreamOf
<1>a. /\ n \in Nat /\ n > 0 /\ Distance(o) \in Nat /\ Distance(o)' \in Nat /\ Distance(o) = Distance(o)' + n
      /\ done \in Nat /\ Len(xfer["output"].data) = done /\ Len(Piece("output")) = n
      /\ Taken(o) + Distance(o) = Put(o)
  BY <1>1, <1>3, <1>4, <1>6
<1>7. StreamOf(o)'
  <2>1. Taken(o)' + Distance(o)' = Put(o)'
    BY <1>a, <1>5
  <2>2. ASSUME NEW i \in 1 .. Distance(o)' PROVE Item(o, i)' = Taken(o)' + i
    <3>1. i + n \in 1 .. Distance(o) /\ Item(o, i)' = Item(o, i + n)
      BY <1>1
    <3>2. Item(o, i + n) = Taken(o) + (i + n)
      BY <1>6, <3>1
    <3>3. Taken(o) + (i + n) = Taken(o)' + i
      BY <1>a, <1>5
    <3> QED
      BY <3>1, <3>2, <3>3
  <2> QED
    BY <1>6, <2>1, <2>2 DEF StreamOf
<1>8. ASSUME NEW p \in Outputs, p # o PROVE StreamOf(p)'
  <2>1. rb'[p] = rb[p] /\ Taken(p)' = Taken(p) /\ Put(p)' = Put(p) /\ discard'[p] <= written'[p]
    BY <1>2, <1>8, Names DEF Taken, Put, StreamInv, StreamOf
  <2> QED
    BY <2>1, StreamCarried
<1>9. ReadInv'
  <2> PICK a, b : a = xfer["output"].data /\ b = Piece("output")
    OBVIOUS
  <2>1. a \in Seq(Values) /\ b \in Seq(Values)
    BY <1>3, <1>4
  <2>2. /\ \A i \in 1 .. Len(a) : (a \o b)[i] = a[i]
        /\ \A i \in 1 .. Len(b) : (a \o b)[Len(a) + i] = b[i]
    BY <2>1, ConcatFacts
  <2>3. ASSUME NEW i \in 1 .. done + n PROVE xfer'["output"].data[i] = consumed[o] + i
    <3>1. CASE i <= done
      <4>1. i \in 1 .. Len(a) /\ i \in 1 .. done
        BY <1>1, <1>3, <3>1
      <4>2. a[i] = consumed[o] + i
        BY <1>2, <1>p, <4>1 DEF StreamInv, ReadInv
      <4> QED
        BY <1>2, <2>2, <4>1, <4>2
    <3>2. CASE i > done
      <4> PICK j : j = i - done
        OBVIOUS
      <4>1. j \in 1 .. n /\ j \in 1 .. Distance(o) /\ j \in 1 .. Len(b)
        BY <1>a, <3>2
      <4>2. b[j] = Taken(o) + j
        BY <1>1, <1>6, <4>1
      <4>3. Taken(o) + j = consumed[o] + i /\ Len(a) + j = i
        BY <1>a, <1>5, <3>2
      <4> QED
        BY <1>2, <2>2, <4>1, <4>2, <4>3
    <3> QED
      BY <1>1, <1>3, <3>1, <3>2
  <2> QED
    BY <1>2, <2>3 DEF ReadInv
<1>10. WrittenInv'
  BY <1>2 DEF StreamInv, WrittenInv
<1>11. BoundaryInv'
  BY <1>2 DEF StreamInv, BoundaryInv, Output
<1> QED
  BY <1>7, <1>8, <1>9, <1>10, <1>11 DEF StreamInv

(* The worker commits a piece it has written.                              *)
LEMMA StreamPut ==
    ASSUME RingInv, StreamInv, CommitWrite("worker"), NEW o \in Outputs, o = xfer["worker"].ring,
           UNCHANGED <<written, consumed, discard, cb>>
    PROVE  StreamInv'
<1>p. PICK n, done, data : n = xfer["worker"].n /\ done = xfer["worker"].done /\ data = xfer["worker"].data
  OBVIOUS
<1>0. BufferInv /\ "output" \in Threads /\ "worker" \in Threads /\ "worker" # "output"
  BY Names DEF RingInv
<1>1. /\ n \in Nat /\ n > 0 /\ Distance(o) \in Nat /\ Distance(o)' = Distance(o) + n
      /\ \A i \in 1 .. Distance(o) : Item(o, i)' = Item(o, i)
      /\ \A i \in Distance(o) + 1 .. Distance(o) + n : Item(o, i)' = data[done + (i - Distance(o))]
  BY <1>0, <1>p, ItemsPut
<1>2. /\ xfer["worker"].kind = "write" /\ xfer'["worker"].kind = "write" /\ xfer'["worker"].ring = o
      /\ xfer'["worker"].done = done + n /\ xfer'["worker"].data = data
      /\ xfer'["output"] = xfer["output"] /\ \A s \in Rings : s # o => rb'[s] = rb[s]
  BY <1>0, <1>p, CommitWriteFacts
<1>3. done \in Nat /\ Len(data) = xfer["worker"].want /\ done + n <= xfer["worker"].want
      /\ xfer["worker"].want \in Nat
  BY <1>0, <1>2, <1>p, HoldFacts
<1>5. /\ Put(o) = written[o] + done /\ Put(o)' = written[o] + (done + n)
      /\ written[o] \in Nat /\ Taken(o)' = Taken(o) /\ Taken(o) \in Nat
  BY <1>2, <1>p, StreamFacts DEF Taken, Put
<1>6. /\ Taken(o) + Distance(o) = Put(o) /\ (\A i \in 1 .. Distance(o) : Item(o, i) = Taken(o) + i)
      /\ discard[o] <= written[o]
  BY DEF StreamInv, StreamOf
<1>a. /\ n \in Nat /\ n > 0 /\ Distance(o) \in Nat /\ Distance(o)' = Distance(o) + n
      /\ done \in Nat /\ Len(data) \in Nat /\ done + n <= Len(data)
      /\ Taken(o) + Distance(o) = Put(o)
  BY <1>1, <1>3, <1>6
<1>7. StreamOf(o)'
  <2>1. Taken(o)' + Distance(o)' = Put(o)'
    BY <1>a, <1>5, SMTT(30)
  <2>2. ASSUME NEW i \in 1 .. Distance(o)' PROVE Item(o, i)' = Taken(o)' + i
    <3>1. CASE i <= Distance(o)
      BY <1>1, <1>5, <1>6, <3>1
    <3>2. CASE i > Distance(o)
      <4>j. PICK j : j = i - Distance(o)
        OBVIOUS
      <4>1. i \in Distance(o) + 1 .. Distance(o) + n /\ done + j \in 1 .. Len(data) /\ j \in 1 .. n
        BY <1>a, <3>2, <4>j
      <4>2. Item(o, i)' = data[done + j]
        BY <1>1, <4>1, <4>j
      <4>3. data[done + j] = written[o] + (done + j)
        BY <1>2, <1>p, <4>1 DEF StreamInv, WrittenInv
      <4>4. written[o] + (done + j) = Taken(o)' + i
        <5>1. j \in Nat /\ i = Distance(o) + j
          BY <1>a, <4>1, <4>j
        <5>2. Taken(o) + Distance(o) = written[o] + done
          BY <1>a, <1>5
        <5>3. /\ Taken(o) \in Nat /\ Distance(o) \in Nat /\ written[o] \in Nat /\ done \in Nat
              /\ j \in Nat /\ Taken(o)' = Taken(o)
          BY <1>a, <1>5, <5>1
        <5>4. Taken(o) + (Distance(o) + j) = written[o] + (done + j)
          BY <5>2, <5>3
        <5> QED
          BY <5>1, <5>3, <5>4
      <4> QED
        BY <4>2, <4>3, <4>4
    <3> QED
      BY <1>1, <3>1, <3>2
  <2> QED
    BY <1>6, <2>1, <2>2 DEF StreamOf
<1>8. ASSUME NEW p \in Outputs, p # o PROVE StreamOf(p)'
  <2>1. rb'[p] = rb[p] /\ Taken(p)' = Taken(p) /\ Put(p)' = Put(p) /\ discard'[p] <= written'[p]
    BY <1>2, <1>8, Names DEF Taken, Put, StreamInv, StreamOf
  <2> QED
    BY <2>1, StreamCarried
<1>9. ReadInv'
  BY <1>2 DEF StreamInv, ReadInv
<1>10. WrittenInv'
  BY <1>2, <1>p DEF StreamInv, WrittenInv
<1>11. BoundaryInv'
  BY <1>2 DEF StreamInv, BoundaryInv, Output
<1> QED
  BY <1>7, <1>8, <1>9, <1>10, <1>11 DEF StreamInv

LEMMA StreamStep == ASSUME RingInv, StreamInv, NEW t \in Threads, RingStep(t) PROVE StreamInv'
<1>0. BufferInv /\ xfer \in [Threads -> Transfers]
  BY DEF RingInv, BufferInv
<1>1. UNCHANGED <<written, consumed, discard, cb, Output>>
  BY DEF RingStep, counters, Output
<1>2. \A o \in Outputs : discard'[o] <= written'[o]
  BY <1>1 DEF StreamInv, StreamOf
<1>3. CASE Acquire(t)
  <2>1. rb' = rb
    BY <1>3 DEF Acquire
  <2>2. ASSUME NEW u \in Threads
        PROVE  /\ xfer'[u].kind = xfer[u].kind /\ xfer'[u].ring = xfer[u].ring
               /\ xfer'[u].want = xfer[u].want
               /\ xfer'[u].done = xfer[u].done /\ xfer'[u].data = xfer[u].data
    <3>1. xfer[u] \in Transfers /\ xfer[t] \in Transfers
      BY <1>0
    <3> QED
      BY <1>0, <1>3, <3>1 DEF Acquire, Transfers
  <2> QED
    BY <1>1, <1>2, <2>1, <2>2, Names, StreamRests
<1>4. CASE CommitRead(t)
  <2> PICK r : r = xfer[t].ring
    OBVIOUS
  <2>1. /\ xfer[t].kind = "read" /\ r \in Rings /\ t = Reader(r)
    BY <1>0, <1>4, CommitReadFacts, HoldFacts
  <2>2. CASE r \in Outputs
    <3>1. t = "output"
      BY <2>1, <2>2, Names
    <3> QED
      BY <1>1, <1>4, <2>2, <3>1, StreamTaken
  <2>3. CASE r \notin Outputs
    <3>1. t = "worker"
      BY <2>1, <2>3 DEF Reader
    <3>2. /\ \A o \in Outputs : rb'[o] = rb[o] /\ \A u \in Threads : u # t => xfer'[u] = xfer[u]
          /\ xfer'[t].kind = "read" /\ xfer'[t].ring = r /\ xfer'[t].want = xfer[t].want
      BY <1>0, <1>4, <2>3, Names, CommitReadFacts
    <3> QED
      BY <1>1, <1>2, <2>1, <3>1, <3>2, Names, StreamRests
  <2> QED
    BY <2>2, <2>3
<1>5. CASE CommitWrite(t)
  <2> PICK r : r = xfer[t].ring
    OBVIOUS
  <2>1. /\ xfer[t].kind = "write" /\ r \in Rings /\ t = Writer(r)
    BY <1>0, <1>5, CommitWriteFacts, HoldFacts
  <2>2. CASE r \in Outputs
    <3>1. t = "worker"
      BY <2>1, <2>2, Names
    <3> QED
      BY <1>1, <1>5, <2>2, <3>1, StreamPut
  <2>3. CASE r \notin Outputs
    <3>1. t = "output" \/ t = "input"
      BY <2>1, <2>3 DEF Writer
    <3>2. /\ \A o \in Outputs : rb'[o] = rb[o] /\ \A u \in Threads : u # t => xfer'[u] = xfer[u]
          /\ xfer'[t].kind = "write" /\ xfer'[t].ring = r /\ xfer'[t].want = xfer[t].want
      BY <1>0, <1>5, <2>3, Names, CommitWriteFacts
    <3> QED
      BY <1>1, <1>2, <2>1, <3>1, <3>2, Names, StreamRests
  <2> QED
    BY <2>2, <2>3
<1> QED
  BY <1>3, <1>4, <1>5 DEF RingStep

LEMMA NextStream == ASSUME ThreadInv, RingInv, StreamInv, [Next]_vars PROVE StreamInv'
<1>0. xfer \in [Threads -> Transfers] /\ cb \in [Devices -> Callbacks]
  BY DEF RingInv, BufferInv, CounterType
<1>1. CASE \/ Opening \/ Closing \/ InputRuns
           \/ (\E d \in Devices : DeviceStep(d))
           \/ (\E f \in Periods : InputStarts(f))
           \/ UNCHANGED vars
  <2>1. UNCHANGED <<rb, written, consumed, discard>>
    BY <1>1 DEF Opening, Open, OpenDevice, OpenDeviceFails, DeviceReady, DeviceStarted, Opened,
         Closing, CloseCalled, CloseBegins, UninitDevice, JoinDevice, Free, DeviceStep,
         InputRuns, InputCopies, InputPushed, InputReturns, InputStarts, vars, counters
  <2>2. xfer' = xfer \/ \E x : xfer' = [xfer EXCEPT !["input"] = x]
    BY <1>1 DEF Opening, Open, OpenDevice, OpenDeviceFails, DeviceReady, DeviceStarted, Opened,
         Closing, CloseCalled, CloseBegins, UninitDevice, JoinDevice, Free, DeviceStep,
         InputRuns, InputCopies, InputPushed, InputReturns, InputStarts, vars
  <2>3. xfer'["worker"] = xfer["worker"] /\ xfer'["output"] = xfer["output"]
    BY <1>0, <2>2, Names
  <2>4. Output' = Output
    <3>1. CASE InputCopies
      BY <1>0, <3>1, CopyFacts, Names DEF Output
    <3>2. CASE InputPushed \/ InputReturns \/ \E f \in Periods : InputStarts(f)
      BY <1>0, <3>2, Names DEF InputPushed, InputReturns, InputStarts, Output
    <3>3. CASE Opening \/ Closing \/ (\E d \in Devices : DeviceStep(d)) \/ UNCHANGED vars
      BY <3>3 DEF Opening, Open, OpenDevice, OpenDeviceFails, DeviceReady, DeviceStarted, Opened,
         Closing, CloseCalled, CloseBegins, UninitDevice, JoinDevice, Free, DeviceStep, vars, Output
    <3> QED
      BY <1>1, <3>1, <3>2, <3>3 DEF InputRuns
  <2>5. \A o \in Outputs : discard'[o] <= written'[o]
    BY <2>1 DEF StreamInv, StreamOf
  <2> QED
    BY <2>1, <2>3, <2>4, <2>5, StreamRests
<1>2. CASE Working
  BY <1>2, WorkingStream
<1>3. CASE OutputRuns \/ \E f \in Periods : OutputStarts(f)
  BY <1>3, OutputRunsStream
<1>4. CASE \E t \in Threads : RingStep(t)
  BY <1>4, StreamStep
<1> QED
  BY <1>1, <1>2, <1>3, <1>4 DEF Next

(* What the output callback plays lies behind the boundary it loaded and   *)
(* is the stream the worker wrote, without a gap or a repetition, for any  *)
(* frame size, ring capacity, callback period and number of calls, and     *)
(* wherever ra_device_discard moves the boundary.                          *)
THEOREM OutputIsExact == Spec => []OutputExact
<1>1. Init => StreamInv
  <2> SUFFICES ASSUME Init PROVE StreamInv
    OBVIOUS
  <2>1. /\ rb = [r \in Rings |-> [read |-> Start, write |-> Start, last |-> <<>>,
                                  mem |-> [i \in 0 .. Size(r) - 1 |-> 0]]]
        /\ xfer["worker"] = NoXfer /\ xfer["output"] = NoXfer /\ cb["output"] = NoCallback
        /\ written = [o \in Outputs |-> 0] /\ consumed = [o \in Outputs |-> 0]
        /\ discard = [o \in Outputs |-> 0]
    BY Names DEF Init, RingInit
  <2>2. ASSUME NEW o \in Outputs PROVE StreamOf(o)
    <3>1. rb[o].read = Start /\ rb[o].write = Start /\ Start.off = 0
      BY <2>1, Names DEF Start
    <3>2. Distance(o) = 0
      BY <3>1 DEF Distance
    <3>3. Taken(o) = 0 /\ Put(o) = 0
      BY <2>1, SpecialTransfers DEF Taken, Put
    <3> QED
      BY <2>1, <3>2, <3>3 DEF StreamOf
  <2>3. WrittenInv /\ ReadInv
    BY <2>1, SpecialTransfers DEF WrittenInv, ReadInv
  <2>4. BoundaryInv
    BY <2>1 DEF BoundaryInv, Output, NoCallback
  <2> QED
    BY <2>2, <2>3, <2>4 DEF StreamInv
<1>2. ThreadInv /\ RingInv /\ StreamInv /\ [Next]_vars => StreamInv'
  BY NextStream
<1>3. RingInv /\ StreamInv => OutputExact
  <2> SUFFICES ASSUME RingInv, StreamInv, Output.at = "play" PROVE OutputExact
    BY DEF OutputExact
  <2> PICK done, data : done = xfer["output"].done /\ data = xfer["output"].data
    OBVIOUS
  <2>1. xfer["output"].kind = "read" /\ xfer["output"].ring = Output.ring
    BY DEF RingInv, PlaceInv, OutputPlace
  <2>2. data \in Seq(Values) /\ Len(data) = done /\ done \in Nat
    BY <2>1, Names, HoldFacts DEF RingInv
  <2>3. \A i \in 1 .. done : data[i] = consumed[Output.ring] + i
    BY <2>1 DEF StreamInv, ReadInv
  <2>4. data = [i \in 1 .. done |-> consumed[Output.ring] + i]
    BY <2>2, <2>3
  <2>5. consumed[Output.ring] >= Output.until
    <3>1. Output.ring \in Outputs /\ Output.until \in Nat /\ consumed[Output.ring] \in Nat
      BY OutputState DEF Callbacks
    <3> QED
      BY <3>1 DEF StreamInv, BoundaryInv
  <2> QED
    BY <2>4, <2>5 DEF OutputExact
<1> QED
  BY <1>1, <1>2, <1>3, RingsHold, PTL DEF Spec
=============================================================================

-------------------------- MODULE AudioEngineProofs --------------------------
(***************************************************************************)
(* Proofs about the client's audio engine for any settings, any number of  *)
(* moves, connections, key presses, frames and failures, and a queue of    *)
(* any length: what the slow worker has in hand against what the core has  *)
(* changed meanwhile.  Epochs and revisions do not wrap here.              *)
(***************************************************************************)
EXTENDS AudioEngine, TLAPS

Routes == [generation : Nat, epoch : Nat]

Gates == [epoch : Nat, pressed : BOOLEAN, enabled : BOOLEAN, route : Routes, sender : BOOLEAN,
          revision : Nat]

Applies == [op : Nat, scope : Routes, config : Configs]

Replies == [op : Nat, ok : BOOLEAN]

Samples == [n : Nat, epoch : Nat, recorded : Nat]

Pipelines == [config : Configs, route : Routes]

Streams == [epoch : Nat, frames : Seq(Samples)]

Cores == [at : {"idle", "asked", "configure", "numbered", "waiting", "failed", "closed"},
          request : Configs, generation : Nat, before : Nat, safe : BOOLEAN, previous : Configs,
          restore : Configs \cup {None}, heard : BOOLEAN]

(* Where the worker has nothing in hand but a frame.                       *)
LoopPlaces == {"top", "tick", "encoded", "recheck", "nap", "park", "done", "ended"}

(* Where it carries out a setting.                                         *)
ApplyPlaces == {"configure", "open", "applied", "update"}

Workers == [at : LoopPlaces \cup ApplyPlaces \cup {"reopen", "failing", "enable"},
            apply : Applies \cup {None}, from : {"loop", "configure", "repair"},
            retired : BOOLEAN, ok : BOOLEAN, route : Routes, epoch : Nat, revision : Nat,
            pressed : BOOLEAN, frame : Samples, packet : BOOLEAN, taken : Nat]

States == [operation : Nat, busy : BOOLEAN, config : Configs]

TypeInv ==
    /\ gate \in Gates /\ operation \in Nat /\ cancelled \in BOOLEAN
    /\ commands \in Seq(Applies) /\ token \in BOOLEAN /\ reply \in Replies
    /\ core \in Cores /\ ready \in Nat /\ restore \in Configs \cup {None}
    /\ generation \in Nat /\ late \in SUBSET Nat /\ leaving \in BOOLEAN
    /\ worker \in Workers /\ state \in States
    /\ pipeline \in Pipelines \cup {None} /\ device \in Streams \cup {None}
    /\ monitor \in BOOLEAN /\ routeRevision \in Int /\ captureEpoch \in Nat
    /\ sent \in Samples /\ wanted \in BOOLEAN /\ events \in Nat

(* What the worker has in hand at each of its places.                      *)
HandInv ==
    /\ worker.at \in LoopPlaces => worker.from = "loop"
    /\ worker.at = "update" => worker.from # "loop"
    /\ worker.at \in ApplyPlaces \/ worker.from # "loop" => worker.apply # None
    /\ worker.at \in {"reopen", "encoded"} \/ device # None => pipeline # None

(* A route that was read is the gate's while the gate keeps its revision.  *)
RevisionInv ==
    /\ routeRevision <= gate.revision
    /\ pipeline # None /\ routeRevision = gate.revision => pipeline.route = gate.route
    /\ worker.at = "reopen" =>
          /\ worker.revision <= gate.revision
          /\ worker.revision = gate.revision => pipeline.route = gate.route

(* No frame is tagged with an epoch that began after it was recorded.      *)
Tagged(f) == f.epoch <= f.recorded /\ f.recorded <= gate.epoch

EpochInv ==
    /\ worker.at \in {"reopen", "enable"} => worker.epoch <= gate.epoch
    /\ device # None => /\ device.epoch <= gate.epoch
                        /\ \A i \in 1 .. Len(device.frames) : Tagged(device.frames[i])
    /\ worker.at = "encoded" => Tagged(worker.frame)

(* The microphone as the worker has it.                                    *)
PipelineLive == pipeline.config.enabled /\ ~pipeline.config.muted /\ ~monitor

(* An encoded packet was allowed, and by a key that is down in its epoch.  *)
PacketInv ==
    worker.at = "encoded" /\ worker.packet =>
        /\ PipelineLive
        /\ pipeline.config.ptt /\ gate.epoch = worker.frame.epoch => gate.pressed

(* Generations are never used again.                                       *)
GenerationInv ==
    /\ gate.route.generation \in {0, generation} /\ (leaving => gate.route.generation = 0)
    /\ pipeline # None => pipeline.route.generation <= generation
    /\ worker.at = "open" => worker.route.generation <= generation
    /\ ready <= generation /\ core.before <= generation /\ core.generation <= generation

(* A sender is at hand only while no setting is under way.                 *)
SenderInv ==
    /\ ready # 0 /\ ready = gate.route.generation => core.at = "idle"
    /\ gate.sender => core.at = "idle" /\ gate.route.generation # 0

(* A setting that may still be applied opens the microphone only if the    *)
(* user wants that in this generation.                                     *)
Wants(a) ==
    a.op = operation /\ a.scope.generation = gate.route.generation /\ gate.route.generation # 0 /\ Live(a.config)
        => wanted

FlightOf(a) ==
    /\ a.op <= operation /\ a.scope.generation <= generation
    /\ core.at = "numbered" => a.op < operation
    /\ Wants(a)

FlightInv ==
    /\ \A i \in 1 .. Len(commands) : FlightOf(commands[i])
    /\ worker.apply # None => FlightOf(worker.apply)

(* Once the setting is in the pipeline, the pipeline is no more open than  *)
(* the setting.                                                            *)
Configured ==
    \/ worker.at \in {"update", "reopen", "enable"} /\ worker.from = "configure"
    \/ worker.at = "applied" /\ worker.ok

ApplyInv == Configured => pipeline # None /\ (PipelineLive => Live(worker.apply.config))

(* The others could hear the user in this generation if a frame were sent. *)
Hearable ==
    /\ pipeline # None /\ PipelineLive
    /\ gate.route.generation # 0 /\ pipeline.route.generation = gate.route.generation

ReplyInv ==
    /\ reply.op <= operation /\ (core.at = "numbered" => reply.op < operation)
    /\ reply.ok /\ reply.op = operation /\ core.at = "waiting" => (Hearable => wanted)

(* The microphone is open because the user wants it, or had wanted it and  *)
(* the setting that closes it has not succeeded.                           *)
WantedInv ==
    /\ core.at \in {"asked", "configure", "numbered"} /\ ~Here => ~wanted
    /\ Hearable => wanted \/ (core.at \in {"waiting", "failed"} /\ Here /\ core.heard)

Inv ==
    /\ TypeInv /\ HandInv /\ AsleepOnlyIfIdle /\ RevisionInv /\ EpochInv /\ PacketInv
    /\ GenerationInv /\ SenderInv /\ FlightInv /\ ApplyInv /\ ReplyInv /\ WantedInv
-----------------------------------------------------------------------------
(* Facts about the records of the model.                                   *)

LEMMA NoneFacts ==
    None \notin Configs /\ None \notin Applies /\ None \notin Pipelines /\ None \notin Streams
BY DEF None, Configs, Applies, Pipelines, Streams

LEMMA ConfigFacts ==
    /\ Silent \in Configs
    /\ \A c \in Configs : Devices(c) \in Configs /\ [c EXCEPT !.muted = TRUE] \in Configs
BY DEF Silent, Configs, Devices

LEMMA RecordFacts ==
    /\ Offline \in Routes /\ NoFrame \in Samples /\ NoReply \in Replies
    /\ Idle \in Cores /\ [Idle EXCEPT !.at = "closed"] \in Cores
BY ConfigFacts DEF Offline, Routes, NoFrame, Samples, NoReply, Replies, Idle, Cores

LEMMA AtFacts ==
    ASSUME NEW p \in LoopPlaces \cup ApplyPlaces \cup {"reopen", "failing", "enable"}
    PROVE  /\ At(p) \in Workers /\ At(p).at = p /\ At(p).from = "loop" /\ At(p).apply = None
           /\ At(p).packet = FALSE /\ At(p).ok = TRUE
           /\ \A n \in Nat : LET w == [At(p) EXCEPT !.taken = n]
                             IN  w \in Workers /\ w.at = p /\ w.from = "loop" /\ w.apply = None
BY RecordFacts DEF At, Workers

GateOK(q, r, s, n, m, x) ==
    /\ q \in Gates /\ q.route = r /\ q.sender = s /\ q.revision = n /\ q.epoch = m /\ q.pressed = x

LEMMA GateFields ==
    ASSUME NEW g \in Gates, NEW r \in Routes, NEW s \in BOOLEAN, NEW x \in BOOLEAN,
           NEW y \in BOOLEAN, NEW m \in Nat, NEW n \in Nat
    PROVE  GateOK([g EXCEPT !.route = r, !.sender = s, !.revision = n, !.enabled = y, !.epoch = m,
                            !.pressed = x], r, s, n, m, x)
BY DEF Gates, GateOK

LEMMA GateEdits ==
    ASSUME NEW g \in Gates, NEW e \in Nat, NEW x \in BOOLEAN, NEW y \in BOOLEAN
    PROVE  /\ GateOK([g EXCEPT !.pressed = x, !.epoch = e], g.route, g.sender, g.revision, e, x)
           /\ GateOK([g EXCEPT !.enabled = y, !.epoch = e], g.route, g.sender, g.revision, e, g.pressed)
           /\ GateOK([g EXCEPT !.enabled = y, !.epoch = e, !.pressed = x],
                     g.route, g.sender, g.revision, e, x)
           /\ GateOK([g EXCEPT !.pressed = x], g.route, g.sender, g.revision, g.epoch, x)
           /\ GateOK([g EXCEPT !.enabled = y], g.route, g.sender, g.revision, g.epoch, g.pressed)
BY DEF Gates, GateOK

LEMMA RoutedFacts ==
    ASSUME NEW g \in Gates, NEW r \in Routes, NEW s \in BOOLEAN
    PROVE  /\ Routed(g, r, s) \in Gates /\ Routed(g, r, s).route = r /\ Routed(g, r, s).sender = s
           /\ Routed(g, r, s).revision = g.revision + 1
           /\ g.epoch <= Routed(g, r, s).epoch
           /\ Routed(g, r, s).epoch = g.epoch => Routed(g, r, s).pressed = g.pressed
<1> DEFINE changed == g.route # r \/ g.sender # s
           e == IF changed THEN g.epoch + 1 ELSE g.epoch
           p == g.pressed /\ ~changed
           b == g.enabled /\ ~changed
<1>0. PICK n \in Nat : n = g.revision + 1
  BY DEF Gates
<1>1. Routed(g, r, s) = [g EXCEPT !.route = r, !.sender = s, !.revision = n,
                                  !.enabled = b, !.epoch = e, !.pressed = p]
  BY <1>0, Zenon DEF Routed
<1>2. e \in Nat /\ g.epoch <= e
  BY DEF Gates
<1>3. e = g.epoch => ~changed
  BY DEF Gates
<1>4. ~changed => p = g.pressed
  BY Zenon DEF Gates
<1>5. p \in BOOLEAN /\ b \in BOOLEAN
  OBVIOUS
<1> HIDE DEF changed, e, p, b
<1>6. GateOK([g EXCEPT !.route = r, !.sender = s, !.revision = n, !.enabled = b,
                       !.epoch = e, !.pressed = p], r, s, n, e, p)
  BY <1>2, <1>5, GateFields, Zenon
<1>7. GateOK(Routed(g, r, s), r, s, n, e, p)
  BY <1>1, <1>6, Zenon
<1> QED
  BY <1>0, <1>2, <1>3, <1>4, <1>7, Zenon DEF GateOK

LEMMA RefreshedFacts ==
    ASSUME NEW g \in Gates, NEW r \in Routes, NEW n \in Nat, NEW c \in Configs \cup {None}
    PROVE  /\ Refreshed(g, r, n, c) \in Gates /\ Refreshed(g, r, n, c).route = r
           /\ Refreshed(g, r, n, c).sender => r.generation # 0 /\ n = r.generation
           /\ Refreshed(g, r, n, c).revision = g.revision + 1
           /\ g.epoch <= Refreshed(g, r, n, c).epoch
           /\ Refreshed(g, r, n, c).epoch = g.epoch => Refreshed(g, r, n, c).pressed = g.pressed
<1> DEFINE s == r.generation # 0 /\ n = r.generation /\ c = None
<1>1. s \in BOOLEAN /\ Refreshed(g, r, n, c) = Routed(g, r, s)
  BY DEF Refreshed
<1> HIDE DEF s
<1>2. s => r.generation # 0 /\ n = r.generation
  BY DEF s
<1> QED
  BY <1>1, <1>2, RoutedFacts
-----------------------------------------------------------------------------
(* Steps of the core: the worker keeps what it has in hand.                *)

GateGrows ==
    /\ gate.epoch <= gate'.epoch /\ gate.revision <= gate'.revision
    /\ gate'.revision = gate.revision => gate'.route = gate.route
    /\ gate'.epoch = gate.epoch => gate'.pressed = gate.pressed

LEMMA WorkerWaits ==
    ASSUME Inv, gate' \in Gates, GateGrows, UNCHANGED <<worker, state, owned, sent>>
    PROVE  HandInv' /\ RevisionInv' /\ EpochInv' /\ PacketInv' /\ ApplyInv'
<1>0. TypeInv /\ HandInv /\ RevisionInv /\ EpochInv /\ PacketInv /\ ApplyInv
  BY DEF Inv
<1>1. /\ worker' = worker /\ pipeline' = pipeline /\ device' = device /\ monitor' = monitor
      /\ routeRevision' = routeRevision
  BY DEF owned
<1>2. /\ gate.epoch \in Nat /\ gate'.epoch \in Nat /\ gate.revision \in Nat /\ gate'.revision \in Nat
      /\ routeRevision \in Int /\ worker.revision \in Nat /\ worker.epoch \in Nat
  BY <1>0 DEF TypeInv, Gates, Workers
<1>3. HandInv'
  BY <1>0, <1>1 DEF HandInv
<1>4. RevisionInv'
  BY <1>0, <1>1, <1>2 DEF RevisionInv, GateGrows
<1>5. EpochInv'
  <2>1. device # None => device \in Streams
    BY <1>0 DEF TypeInv
  <2>2. ASSUME NEW f \in Samples, Tagged(f) PROVE Tagged(f)'
    BY <1>2, <2>2 DEF Tagged, Samples, GateGrows
  <2>3. worker.frame \in Samples
    BY <1>0 DEF TypeInv, Workers
  <2>4. device # None => device.epoch \in Nat /\ device.frames \in Seq(Samples)
    BY <2>1 DEF Streams
  <2>5. device # None => \A i \in 1 .. Len(device.frames) : Tagged(device.frames[i])'
    <3> SUFFICES ASSUME device # None, NEW i \in 1 .. Len(device.frames)
                 PROVE  Tagged(device.frames[i])'
      BY <1>1
    <3>1. device.frames[i] \in Samples /\ Tagged(device.frames[i])
      BY <1>0, <2>4 DEF EpochInv
    <3>2. PICK f \in Samples : f = device.frames[i]
      BY <3>1
    <3>3. Tagged(f)'
      BY <2>2, <3>1, <3>2
    <3> QED
      BY <1>1, <3>2, <3>3 DEF Tagged
  <2> QED
    BY <1>0, <1>1, <1>2, <2>2, <2>3, <2>4, <2>5 DEF EpochInv, GateGrows
<1>6. PacketInv'
  <2>1. worker.at = "encoded" => worker.frame.epoch <= gate.epoch /\ worker.frame.epoch \in Nat
    BY <1>0, <1>2 DEF EpochInv, Tagged, TypeInv, Workers, Samples
  <2> QED
    BY <1>0, <1>1, <1>2, <2>1 DEF PacketInv, PipelineLive, GateGrows
<1>7. ApplyInv'
  BY <1>0, <1>1 DEF ApplyInv, Configured, PipelineLive
<1> QED
  BY <1>3, <1>4, <1>5, <1>6, <1>7

(* It is woken if the step leaves it something to do.                      *)
Wakened ==
    \/ token'
    \/ /\ UNCHANGED <<token, commands, cancelled>>
       /\ gate'.revision = gate.revision /\ gate'.epoch = gate.epoch

LEMMA CoreStep ==
    ASSUME Inv, TypeInv', GateGrows, Wakened, UNCHANGED <<worker, state, owned, sent>>,
           GenerationInv', SenderInv', FlightInv', ReplyInv', WantedInv'
    PROVE  Inv'
<1>1. gate' \in Gates /\ token' \in BOOLEAN
  BY DEF TypeInv
<1>2. HandInv' /\ RevisionInv' /\ EpochInv' /\ PacketInv' /\ ApplyInv'
  BY <1>1, WorkerWaits
<1>3. AsleepOnlyIfIdle'
  BY <1>1 DEF Inv, Wakened, AsleepOnlyIfIdle, owned
<1> QED
  BY <1>2, <1>3 DEF Inv

(* The route is refreshed: what was wanted stays so in this generation.    *)
LEMMA RefreshInv ==
    ASSUME Inv, NEW r \in Routes, Refresh(r), r.generation \in {0, gate.route.generation}
    PROVE  Inv'
<1>0. TypeInv /\ GenerationInv /\ SenderInv /\ FlightInv /\ ReplyInv /\ WantedInv
  BY DEF Inv
<1>1. /\ gate \in Gates /\ ready \in Nat /\ restore \in Configs \cup {None}
      /\ gate' = Refreshed(gate, r, ready, restore) /\ token' = TRUE
      /\ wanted' = (wanted /\ r.generation = gate.route.generation) /\ events' = events + 1
  BY <1>0 DEF TypeInv, Refresh, Event
<1>2. /\ UNCHANGED <<operation, cancelled, commands, reply, core, ready, restore, late, leaving, generation>>
      /\ UNCHANGED <<worker, state, pipeline, device, monitor, routeRevision, captureEpoch,
                     transmitting, sent>>
  BY DEF Refresh, callers, owned
<1>3. /\ gate' \in Gates /\ gate'.route = r /\ gate'.revision = gate.revision + 1
      /\ gate'.sender => r.generation # 0 /\ ready = r.generation
      /\ gate.epoch <= gate'.epoch /\ (gate'.epoch = gate.epoch => gate'.pressed = gate.pressed)
  BY <1>1, RefreshedFacts
<1>4. TypeInv'
  BY <1>0, <1>1, <1>2, <1>3 DEF TypeInv
<1>5. GateGrows /\ Wakened
  BY <1>1, <1>3 DEF GateGrows, Wakened, Gates
<1>6. GenerationInv' /\ SenderInv'
  BY <1>0, <1>2, <1>3 DEF GenerationInv, SenderInv
<1>7. Hearable' => Hearable /\ r.generation = gate.route.generation
  BY <1>2, <1>3 DEF Hearable, PipelineLive
<1>w. /\ wanted' => wanted /\ r.generation = gate.route.generation
      /\ wanted /\ r.generation = gate.route.generation => wanted'
  BY <1>1
<1>8. WantedInv' /\ ReplyInv'
  <2>1. WantedInv'
    BY <1>0, <1>2, <1>3, <1>7, <1>w DEF WantedInv, Here
  <2>2. ReplyInv'
    BY <1>0, <1>2, <1>3, <1>7, <1>w DEF ReplyInv
  <2> QED
    BY <2>1, <2>2
<1>9. ASSUME NEW a, FlightOf(a) PROVE FlightOf(a)'
  BY <1>0, <1>1, <1>2, <1>3, <1>9 DEF FlightOf, Wants
<1>10. FlightInv'
  BY <1>0, <1>2, <1>9 DEF FlightInv
<1> QED
  BY <1>2, <1>4, <1>5, <1>6, <1>8, <1>10, CoreStep DEF owned

LEMMA RouteInv == ASSUME Inv, SameRoute \/ Moved \/ Lost PROVE Inv'
<1>0. TypeInv
  BY DEF Inv
<1>1. gate.route \in Routes
  BY <1>0 DEF TypeInv, Gates
<1>2. CASE SameRoute
  BY <1>1, <1>2, RefreshInv DEF SameRoute
<1>3. CASE Moved
  <2>1. PICK r : r = [gate.route EXCEPT !.epoch = @ + 1]
    OBVIOUS
  <2>2. r \in Routes /\ r.generation = gate.route.generation
    BY <1>1, <2>1 DEF Routes
  <2> QED
    BY <1>3, <2>1, <2>2, RefreshInv DEF Moved
<1>4. CASE Lost
  <2>1. Offline \in Routes /\ Offline.generation = 0
    BY RecordFacts DEF Offline
  <2> QED
    BY <1>4, <2>1, RefreshInv DEF Lost
<1> QED
  BY <1>2, <1>3, <1>4

LEMMA ConnectedInv == ASSUME Inv, Connected PROVE Inv'
<1>0. TypeInv /\ GenerationInv /\ SenderInv /\ FlightInv /\ ReplyInv /\ WantedInv
  BY DEF Inv
<1>p. PICK r : r = [generation |-> generation', epoch |-> 1]
  OBVIOUS
<1>1. /\ gate \in Gates /\ ready \in Nat /\ restore \in Configs \cup {None}
      /\ generation \in Nat /\ generation' = generation + 1
      /\ gate' = Refreshed(gate, r, ready, restore) /\ token' = TRUE
      /\ wanted' = FALSE /\ events' \in {events, events + 1} /\ restore' = None
  BY <1>0, <1>p DEF TypeInv, Connected, Event
<1>2. /\ UNCHANGED <<operation, cancelled, commands, reply, core, ready, leaving, late>> /\ ~leaving
      /\ UNCHANGED <<worker, state, pipeline, device, monitor, routeRevision, captureEpoch,
                     transmitting, sent>>
  BY DEF Connected, owned
<1>a. r \in Routes /\ r.generation = generation + 1
  BY <1>1, <1>p DEF Routes
<1>3. /\ gate' \in Gates /\ gate'.route = r /\ gate'.revision = gate.revision + 1
      /\ gate'.sender => r.generation # 0 /\ ready = r.generation
      /\ gate.epoch <= gate'.epoch /\ (gate'.epoch = gate.epoch => gate'.pressed = gate.pressed)
  BY <1>1, <1>a, RefreshedFacts
<1>4. TypeInv'
  <2>1. generation' \in Nat /\ events' \in Nat
    BY <1>0, <1>1 DEF TypeInv
  <2>2. wanted' \in BOOLEAN /\ token' \in BOOLEAN /\ restore' \in Configs \cup {None}
    BY <1>1, Zenon
  <2> HIDE <1>1
  <2> QED
    BY <1>0, <1>2, <1>3, <2>1, <2>2 DEF TypeInv
<1>5. GateGrows /\ Wakened
  BY <1>1, <1>3 DEF GateGrows, Wakened, Gates
<1>b. /\ ready <= generation /\ core.before <= generation /\ core.generation <= generation
      /\ ready \in Nat /\ core.before \in Nat /\ core.generation \in Nat
      /\ pipeline # None => pipeline.route.generation <= generation /\ pipeline.route.generation \in Nat
      /\ worker.route.generation \in Nat
  BY <1>0 DEF TypeInv, GenerationInv, Cores, Pipelines, Routes, Workers
<1>6. GenerationInv' /\ SenderInv'
  BY <1>0, <1>1, <1>2, <1>3, <1>a, <1>b DEF GenerationInv, SenderInv
<1>7. ~Hearable'
  BY <1>1, <1>2, <1>3, <1>a, <1>b DEF Hearable
<1>8. WantedInv' /\ ReplyInv'
  BY <1>0, <1>1, <1>2, <1>7 DEF WantedInv, ReplyInv
<1>9. ASSUME NEW a \in Applies, FlightOf(a) PROVE FlightOf(a)'
  <2>1. a.scope.generation \in Nat
    BY DEF Applies, Routes
  <2>2. a.scope.generation # gate'.route.generation
    BY <1>1, <1>3, <1>9, <1>a, <2>1 DEF FlightOf
  <2> QED
    BY <1>1, <1>2, <1>9, <2>1, <2>2 DEF FlightOf, Wants
<1>10. FlightInv'
  <2>1. commands \in Seq(Applies) /\ worker.apply \in Applies \cup {None}
    BY <1>0 DEF TypeInv, Workers
  <2> QED
    BY <1>0, <1>2, <1>9, <2>1 DEF FlightInv
<1> QED
  BY <1>2, <1>4, <1>5, <1>6, <1>8, <1>10, CoreStep DEF owned

(* The core lets go of a setting.                                          *)
LEMMA SettledInv ==
    ASSUME Inv, NEW n \in Nat, n <= generation, NEW c \in Configs \cup {None}, Settled(n, c),
           UNCHANGED <<operation, cancelled, commands, late, leaving, generation, worker, state, owned, sent>>,
           reply' \in {reply, NoReply}, events' \in Nat, wanted' \in BOOLEAN,
           wanted => wanted', Hearable => wanted'
    PROVE  Inv'
<1>0. TypeInv /\ GenerationInv /\ SenderInv /\ FlightInv /\ ReplyInv /\ WantedInv
  BY DEF Inv
<1> PICK r : r = gate.route
  OBVIOUS
<1>1. /\ gate \in Gates /\ r \in Routes
      /\ gate' = Refreshed(gate, r, n, c) /\ token' = TRUE
      /\ core' = Idle /\ ready' = n /\ restore' = c
  BY <1>0 DEF TypeInv, Settled, Gates
<1>2. UNCHANGED <<pipeline, device, monitor, routeRevision, captureEpoch, transmitting>>
  BY DEF owned
<1>3. /\ gate' \in Gates /\ gate'.route = r /\ gate'.revision = gate.revision + 1
      /\ gate'.sender => r.generation # 0 /\ n = r.generation
      /\ gate.epoch <= gate'.epoch /\ (gate'.epoch = gate.epoch => gate'.pressed = gate.pressed)
  BY <1>1, RefreshedFacts
<1>i. Idle \in Cores /\ Idle.at = "idle" /\ Idle.before = 0 /\ Idle.generation = 0
  BY RecordFacts DEF Idle
<1>r. reply' \in Replies /\ reply'.op <= operation
  <2>1. NoReply \in Replies /\ NoReply.op = 0 /\ operation \in Nat
    BY <1>0, RecordFacts DEF NoReply, TypeInv
  <2> QED
    BY <1>0, <2>1 DEF ReplyInv, TypeInv
<1>4. TypeInv'
  BY <1>0, <1>1, <1>2, <1>3, <1>i, <1>r DEF TypeInv
<1>5. GateGrows /\ Wakened
  BY <1>1, <1>3 DEF GateGrows, Wakened, Gates
<1>6. GenerationInv' /\ SenderInv'
  BY <1>0, <1>1, <1>2, <1>3, <1>i DEF GenerationInv, SenderInv, TypeInv
<1>7. Hearable' => Hearable
  BY <1>2, <1>3 DEF Hearable, PipelineLive
<1>8. WantedInv' /\ ReplyInv'
  BY <1>1, <1>7, <1>i, <1>r DEF WantedInv, ReplyInv
<1>9. ASSUME NEW a, FlightOf(a) PROVE FlightOf(a)'
  BY <1>1, <1>3, <1>9, <1>i DEF FlightOf, Wants
<1>10. FlightInv'
  BY <1>0, <1>9 DEF FlightInv
<1> QED
  BY <1>4, <1>5, <1>6, <1>8, <1>10, CoreStep

LEMMA PttInv == ASSUME Inv, NEW pressed \in BOOLEAN, Ptt(pressed) PROVE Inv'
<1>0. TypeInv /\ GenerationInv /\ SenderInv /\ FlightInv /\ ReplyInv /\ WantedInv
  BY DEF Inv
<1>1. /\ gate \in Gates /\ token' = TRUE /\ events' = events + 1
      /\ gate' = [gate EXCEPT !.pressed = pressed, !.epoch = @ + 1]
  BY <1>0 DEF TypeInv, Ptt, Event
<1>2. /\ UNCHANGED <<operation, cancelled, commands, reply, core, ready, restore, late, leaving, generation>>
      /\ UNCHANGED <<worker, state, pipeline, device, monitor, routeRevision, captureEpoch,
                     transmitting, sent, wanted>>
  BY DEF Ptt, callers, owned
<1>3. /\ gate' \in Gates /\ gate'.route = gate.route /\ gate'.sender = gate.sender
      /\ gate'.revision = gate.revision /\ gate'.epoch = gate.epoch + 1
  <2>1. gate.epoch + 1 \in Nat
    BY <1>1 DEF Gates
  <2>2. PICK e \in Nat : e = gate.epoch + 1
    BY <2>1
  <2>3. gate' = [gate EXCEPT !.pressed = pressed, !.epoch = e]
    BY <1>1, <2>2
  <2>4. GateOK(gate', gate.route, gate.sender, gate.revision, e, pressed)
    BY <1>1, <2>3, GateEdits
  <2> QED
    BY <2>2, <2>4 DEF GateOK
<1>4. TypeInv'
  BY <1>0, <1>1, <1>2, <1>3 DEF TypeInv
<1>5. GateGrows /\ Wakened
  BY <1>1, <1>3 DEF GateGrows, Wakened, Gates
<1>6. GenerationInv' /\ SenderInv'
  BY <1>0, <1>2, <1>3 DEF GenerationInv, SenderInv
<1>7. Hearable' => Hearable
  BY <1>2, <1>3 DEF Hearable, PipelineLive
<1>8. WantedInv' /\ ReplyInv'
  BY <1>0, <1>2, <1>3, <1>7 DEF WantedInv, ReplyInv, Here
<1>9. ASSUME NEW a, FlightOf(a) PROVE FlightOf(a)'
  BY <1>2, <1>3, <1>9 DEF FlightOf, Wants
<1>10. FlightInv'
  BY <1>0, <1>2, <1>9 DEF FlightInv
<1> QED
  BY <1>2, <1>4, <1>5, <1>6, <1>8, <1>10, CoreStep DEF owned

LEMMA DisconnectInv == ASSUME Inv, Disconnect PROVE Inv'
<1>0. TypeInv /\ GenerationInv /\ SenderInv /\ FlightInv /\ ReplyInv /\ WantedInv
  BY DEF Inv
<1>p. PICK h : h = IF gate.pressed THEN [gate EXCEPT !.pressed = FALSE, !.epoch = @ + 1] ELSE gate
  OBVIOUS
<1>1. /\ gate \in Gates /\ token' = TRUE /\ events' = events + 1
      /\ gate' = Routed(h, Offline, FALSE) /\ ready' = 0 /\ restore' = None /\ leaving' = TRUE
      /\ wanted' = (wanted /\ gate.route.generation = 0)
  BY <1>0, <1>p DEF TypeInv, Disconnect, Event
<1>2. /\ UNCHANGED <<operation, cancelled, commands, reply, core, late, generation>>
      /\ UNCHANGED <<worker, state, pipeline, device, monitor, routeRevision, captureEpoch,
                     transmitting, sent>>
  BY DEF Disconnect, owned
<1>h. /\ h \in Gates /\ h.revision = gate.revision /\ gate.epoch <= h.epoch
      /\ h.epoch = gate.epoch => h.pressed = gate.pressed
  <2>1. CASE gate.pressed
    <3>1. gate.epoch + 1 \in Nat
      BY <1>1 DEF Gates
    <3>2. PICK e \in Nat : e = gate.epoch + 1
      BY <3>1
    <3>3. h = [gate EXCEPT !.pressed = FALSE, !.epoch = e]
      BY <1>p, <2>1, <3>2
    <3>4. GateOK(h, gate.route, gate.sender, gate.revision, e, FALSE)
      BY <1>1, <3>3, GateEdits
    <3>5. h \in Gates /\ h.revision = gate.revision /\ h.epoch = e
      BY <3>4 DEF GateOK
    <3>6. gate.epoch \in Nat
      BY <1>1 DEF Gates
    <3> QED
      BY <3>2, <3>5, <3>6
  <2>2. CASE ~gate.pressed
    BY <1>1, <1>p, <2>2 DEF Gates
  <2> QED
    BY <2>1, <2>2
<1>o. Offline \in Routes /\ Offline.generation = 0
  BY RecordFacts DEF Offline
<1>3. /\ gate' \in Gates /\ gate'.route = Offline /\ ~gate'.sender
      /\ gate'.revision = gate.revision + 1 /\ gate.epoch <= gate'.epoch
      /\ gate'.epoch = gate.epoch => gate'.pressed = gate.pressed
  <2>1. \A s \in BOOLEAN : LET q == Routed(h, Offline, s)
                           IN  /\ q \in Gates /\ q.route = Offline /\ q.sender = s
                               /\ q.revision = h.revision + 1 /\ h.epoch <= q.epoch
                               /\ q.epoch = h.epoch => q.pressed = h.pressed
    BY <1>h, <1>o, RoutedFacts
  <2>2. /\ gate' \in Gates /\ gate'.route = Offline /\ gate'.sender = FALSE
        /\ gate'.revision = h.revision + 1 /\ h.epoch <= gate'.epoch
        /\ gate'.epoch = h.epoch => gate'.pressed = h.pressed
    BY <1>1, <2>1, Zenon
  <2>3. ~gate'.sender
    BY <2>2, Zenon
  <2>4. gate.epoch \in Nat /\ h.epoch \in Nat /\ gate'.epoch \in Nat
    BY <1>1, <1>h, <2>2 DEF Gates
  <2>5. gate'.epoch = gate.epoch => gate'.epoch = h.epoch /\ h.epoch = gate.epoch
    BY <1>h, <2>2, <2>4
  <2> QED
    BY <1>h, <2>2, <2>3, <2>4, <2>5
<1>4. TypeInv'
  <2>1. ready' \in Nat /\ events' \in Nat
    BY <1>0, <1>1 DEF TypeInv
  <2>2. /\ leaving' \in BOOLEAN /\ token' \in BOOLEAN /\ wanted' \in BOOLEAN
        /\ restore' \in Configs \cup {None}
    BY <1>1, Zenon
  <2> HIDE <1>1
  <2> QED
    BY <1>0, <1>2, <1>3, <2>1, <2>2 DEF TypeInv
<1>a. token' /\ ready' = 0 /\ gate \in Gates
  BY <1>1, Zenon
<1>5. GateGrows /\ Wakened
  <2>1. gate.revision \in Nat
    BY <1>a DEF Gates
  <2> QED
    BY <1>3, <1>a, <2>1 DEF GateGrows, Wakened
<1>6. GenerationInv' /\ SenderInv'
  BY <1>0, <1>2, <1>3, <1>a, <1>o DEF GenerationInv, SenderInv, TypeInv
<1>7. ~Hearable'
  BY <1>3, <1>o DEF Hearable
<1>w. wanted' => wanted /\ gate.route.generation = 0
  BY <1>1
<1>8. WantedInv' /\ ReplyInv'
  <2>1. WantedInv'
    BY <1>0, <1>2, <1>3, <1>7, <1>o, <1>w DEF WantedInv, Here
  <2>2. ReplyInv'
    BY <1>0, <1>2, <1>7 DEF ReplyInv
  <2> QED
    BY <2>1, <2>2
<1>9. ASSUME NEW a, FlightOf(a) PROVE FlightOf(a)'
  BY <1>2, <1>3, <1>9, <1>o DEF FlightOf, Wants
<1>10. FlightInv'
  BY <1>0, <1>2, <1>9 DEF FlightInv
<1> QED
  BY <1>2, <1>4, <1>5, <1>6, <1>8, <1>10, CoreStep DEF owned

LEMMA LeaveInv == ASSUME Inv, Leave PROVE Inv'
<1>0. /\ TypeInv /\ GenerationInv /\ SenderInv /\ FlightInv /\ ReplyInv /\ WantedInv
      /\ gate \in Gates /\ state.config \in Configs /\ generation \in Nat
  BY DEF Inv, TypeInv, States
<1>1. /\ UNCHANGED <<gate, operation, cancelled, commands, token, reply, ready, restore, late>>
      /\ UNCHANGED <<generation, worker, state, pipeline, device, monitor, routeRevision>>
      /\ UNCHANGED <<captureEpoch, transmitting, sent, wanted>> /\ events' = events + 1
      /\ core.at = "idle" /\ leaving /\ leaving' = FALSE
  BY DEF Leave, Event, shared, owned
<1>2. gate.route.generation = 0
  BY <1>0, <1>1 DEF GenerationInv
<1>3. PICK c \in Configs : c = [state.config EXCEPT !.enabled = FALSE, !.muted = TRUE]
  <2>1. [state.config EXCEPT !.enabled = FALSE, !.muted = TRUE] \in Configs
    BY <1>0 DEF Configs
  <2> QED
    BY <2>1
<1>4. /\ core' \in Cores /\ core'.at = "configure" /\ core'.before = 0 /\ core'.generation = 0
  <2>1. core' = [Idle EXCEPT !.at = "configure", !.safe = TRUE, !.request = c, !.generation = 0]
    BY <1>2, <1>3 DEF Leave
  <2>2. Idle \in Cores /\ Idle.before = 0
    BY RecordFacts DEF Idle
  <2> QED
    BY <2>1, <2>2 DEF Cores
<1>5. TypeInv'
  <2>1. leaving' \in BOOLEAN
    BY <1>1, Zenon
  <2> QED
    BY <1>0, <1>1, <1>4, <2>1 DEF TypeInv
<1>6. GateGrows /\ Wakened
  BY <1>0, <1>1 DEF GateGrows, Wakened, Gates
<1>7. GenerationInv' /\ SenderInv'
  BY <1>0, <1>1, <1>2, <1>4 DEF GenerationInv, SenderInv
<1>8. ~Hearable'
  BY <1>1, <1>2 DEF Hearable
<1>9. WantedInv' /\ ReplyInv'
  BY <1>0, <1>1, <1>2, <1>4, <1>8 DEF WantedInv, ReplyInv, Here
<1>10. ASSUME NEW a, FlightOf(a) PROVE FlightOf(a)'
  BY <1>1, <1>4, <1>10 DEF FlightOf, Wants
<1>11. FlightInv'
  BY <1>0, <1>1, <1>10 DEF FlightInv
<1> QED
  BY <1>1, <1>5, <1>6, <1>7, <1>9, <1>11, CoreStep DEF owned

LEMMA StopInv == ASSUME Inv, Stop PROVE Inv'
<1>0. TypeInv /\ GenerationInv /\ SenderInv /\ FlightInv /\ ReplyInv /\ WantedInv
  BY DEF Inv
<1>p. PICK h : h = [gate EXCEPT !.pressed = FALSE]
  OBVIOUS
<1>q. PICK g : g = Routed(h, Offline, FALSE)
  OBVIOUS
<1>1. /\ gate \in Gates /\ token' = TRUE /\ events' = events + 1 /\ cancelled' = TRUE
      /\ gate' = [g EXCEPT !.enabled = FALSE, !.epoch = @ + 1] /\ ready' = 0
      /\ core' = [Idle EXCEPT !.at = "closed"] /\ late' = 1 .. operation
  BY <1>0, <1>p, <1>q DEF TypeInv, Stop, Event
<1>2. /\ UNCHANGED <<operation, commands, reply, restore, leaving, generation>>
      /\ UNCHANGED <<worker, state, pipeline, device, monitor, routeRevision, captureEpoch,
                     transmitting, sent, wanted>>
  BY DEF Stop, owned
<1>h. h \in Gates /\ h.epoch = gate.epoch /\ h.revision = gate.revision
  <2>1. GateOK(h, gate.route, gate.sender, gate.revision, gate.epoch, FALSE)
    BY <1>1, <1>p, GateEdits
  <2> QED
    BY <2>1 DEF GateOK
<1>o. Offline \in Routes /\ Offline.generation = 0
  BY RecordFacts DEF Offline
<1>g. /\ g \in Gates /\ g.route = Offline /\ ~g.sender /\ g.revision = gate.revision + 1
      /\ gate.epoch <= g.epoch
  <2>1. \A s \in BOOLEAN : LET q == Routed(h, Offline, s)
                           IN  /\ q \in Gates /\ q.route = Offline /\ q.sender = s
                               /\ q.revision = h.revision + 1 /\ h.epoch <= q.epoch
    BY <1>h, <1>o, RoutedFacts
  <2>2. /\ g \in Gates /\ g.route = Offline /\ g.sender = FALSE /\ g.revision = h.revision + 1
        /\ h.epoch <= g.epoch
    BY <1>q, <2>1, Zenon
  <2>3. ~g.sender
    BY <2>2, Zenon
  <2> QED
    BY <1>h, <2>2, <2>3
<1>3. /\ gate' \in Gates /\ gate'.route = Offline /\ ~gate'.sender
      /\ gate'.revision = gate.revision + 1 /\ gate'.epoch = g.epoch + 1
  <2>1. g.epoch + 1 \in Nat
    BY <1>g DEF Gates
  <2>2. PICK e \in Nat : e = g.epoch + 1
    BY <2>1
  <2>3. gate' = [g EXCEPT !.enabled = FALSE, !.epoch = e]
    BY <1>1, <2>2
  <2>4. GateOK(gate', g.route, g.sender, g.revision, e, g.pressed)
    BY <1>g, <2>3, GateEdits
  <2> QED
    BY <1>g, <2>2, <2>4 DEF GateOK
<1>c. /\ core' \in Cores /\ core'.at = "closed" /\ core'.before = 0 /\ core'.generation = 0
  BY <1>1, RecordFacts DEF Idle
<1>4. TypeInv'
  <2>1. late' \in SUBSET Nat /\ ready' \in Nat /\ events' \in Nat
    BY <1>0, <1>1 DEF TypeInv
  <2>2. cancelled' \in BOOLEAN /\ token' \in BOOLEAN
    BY <1>1, Zenon
  <2> QED
    BY <1>0, <1>2, <1>3, <1>c, <2>1, <2>2 DEF TypeInv
<1>5. GateGrows /\ Wakened
  BY <1>1, <1>3, <1>g DEF GateGrows, Wakened, Gates
<1>6. GenerationInv' /\ SenderInv'
  BY <1>0, <1>1, <1>2, <1>3, <1>c, <1>o DEF GenerationInv, SenderInv, TypeInv
<1>7. ~Hearable'
  BY <1>3, <1>o DEF Hearable
<1>8. WantedInv' /\ ReplyInv'
  BY <1>0, <1>2, <1>7, <1>c DEF WantedInv, ReplyInv
<1>9. ASSUME NEW a, FlightOf(a) PROVE FlightOf(a)'
  BY <1>2, <1>3, <1>9, <1>c, <1>o DEF FlightOf, Wants
<1>10. FlightInv'
  BY <1>0, <1>2, <1>9 DEF FlightInv
<1> QED
  BY <1>2, <1>4, <1>5, <1>6, <1>8, <1>10, CoreStep DEF owned

LEMMA AskInv ==
    ASSUME Inv, NEW c \in Configs, Ask(c) PROVE Inv'
<1>0. TypeInv /\ GenerationInv /\ SenderInv /\ FlightInv /\ ReplyInv /\ WantedInv
  BY DEF Inv
<1>p. PICK r : r = gate.route
  OBVIOUS
<1>q. PICK k : k = restore'
  OBVIOUS
<1>1. /\ gate \in Gates /\ r \in Routes /\ token' = TRUE /\ events' = events + 1
      /\ gate' = Refreshed(gate, r, 0, k) /\ ready' = 0 /\ core.at = "idle"
  BY <1>0, <1>p, <1>q DEF TypeInv, Gates, Ask, Event
<1>2. /\ UNCHANGED <<operation, cancelled, commands, reply, late, leaving, generation>>
      /\ UNCHANGED <<worker, state, pipeline, device, monitor, routeRevision, captureEpoch,
                     transmitting, sent, wanted>>
  BY DEF Ask, owned
<1>k. k \in Configs \cup {None}
  <2>1. state.config \in Configs /\ restore \in Configs \cup {None}
    BY <1>0 DEF TypeInv, States
  <2>2. restore' = state.config \/ restore' = restore
    BY DEF Ask
  <2> QED
    BY <1>q, <2>1, <2>2
<1>3. /\ gate' \in Gates /\ gate'.route = r /\ gate'.revision = gate.revision + 1
      /\ gate'.sender => r.generation # 0 /\ 0 = r.generation
      /\ gate.epoch <= gate'.epoch /\ (gate'.epoch = gate.epoch => gate'.pressed = gate.pressed)
  <2>1. 0 \in Nat /\ gate \in Gates /\ r \in Routes /\ gate' = Refreshed(gate, r, 0, k)
    BY <1>1
  <2> HIDE <1>1
  <2> QED
    BY <1>k, <2>1, RefreshedFacts
<1>c. /\ core' \in Cores /\ core'.at \in {"asked", "configure"} /\ core'.before = ready
      /\ core'.generation = gate.route.generation
  <2>1. /\ state.config \in Configs /\ ready \in Nat /\ core \in Cores
        /\ gate.route.generation \in Nat /\ restore \in Configs \cup {None}
    BY <1>0 DEF TypeInv, States, Gates, Routes
  <2>2. PICK p \in {"asked", "configure"} :
            core' = [core EXCEPT !.at = p, !.request = c, !.generation = gate.route.generation,
                         !.before = ready, !.safe = FALSE, !.previous = state.config,
                         !.restore = restore]
    BY DEF Ask
  <2>3. PICK n \in Nat : n = gate.route.generation
    BY <2>1
  <2>4. PICK e \in Configs : e = state.config
    BY <2>1
  <2>5. core' = [core EXCEPT !.at = p, !.request = c, !.generation = n, !.before = ready,
                             !.safe = FALSE, !.previous = e, !.restore = restore]
    BY <2>2, <2>3, <2>4
  <2>6. core' \in Cores /\ core'.at = p /\ core'.before = ready /\ core'.generation = n
    <3> HIDE <2>3, <2>4
    <3> QED
      BY <2>1, <2>5 DEF Cores
  <2> QED
    BY <2>3, <2>6
<1>4. TypeInv'
  <2>1. ready' \in Nat /\ events' \in Nat /\ token' \in BOOLEAN /\ restore' \in Configs \cup {None}
    BY <1>0, <1>1, <1>k, <1>q DEF TypeInv
  <2> QED
    BY <1>0, <1>2, <1>3, <1>c, <2>1 DEF TypeInv
<1>5. GateGrows /\ Wakened
  BY <1>1, <1>3, <1>p DEF GateGrows, Wakened, Gates
<1>6. GenerationInv' /\ SenderInv'
  BY <1>0, <1>1, <1>2, <1>3, <1>c, <1>p DEF GenerationInv, SenderInv, TypeInv
<1>7. Hearable' => Hearable
  BY <1>2, <1>3, <1>p DEF Hearable, PipelineLive
<1>8. WantedInv' /\ ReplyInv'
  BY <1>0, <1>1, <1>2, <1>3, <1>7, <1>c, <1>p DEF WantedInv, ReplyInv, Here
<1>9. ASSUME NEW a, FlightOf(a) PROVE FlightOf(a)'
  BY <1>2, <1>3, <1>9, <1>c, <1>p DEF FlightOf, Wants
<1>10. FlightInv'
  BY <1>0, <1>2, <1>9 DEF FlightInv
<1> QED
  BY <1>2, <1>4, <1>5, <1>6, <1>8, <1>10, CoreStep DEF owned

(* A step of the core that the worker does not notice.                     *)
LEMMA CoreMoves ==
    ASSUME Inv, core.at # "idle", core' \in Cores, core'.before <= generation,
           core'.generation <= generation,
           UNCHANGED <<gate, cancelled, commands, token, ready, leaving, generation, worker, state, owned, sent>>,
           operation' \in Nat, restore' \in Configs \cup {None}, late' \in SUBSET Nat,
           reply' \in Replies, wanted' \in BOOLEAN, events' \in Nat,
           FlightInv', ReplyInv', WantedInv'
    PROVE  Inv'
<1>0. TypeInv /\ GenerationInv /\ SenderInv
  BY DEF Inv
<1>1. UNCHANGED <<pipeline, device, monitor, routeRevision, captureEpoch>>
  BY DEF owned
<1>2. TypeInv'
  BY <1>0, <1>1 DEF TypeInv
<1>3. GateGrows /\ Wakened
  BY <1>0 DEF GateGrows, Wakened, TypeInv, Gates
<1>4. GenerationInv' /\ SenderInv'
  BY <1>0, <1>1 DEF GenerationInv, SenderInv
<1> QED
  BY <1>2, <1>3, <1>4, CoreStep

LEMMA CoreAt ==
    ASSUME core \in Cores, NEW p \in {"configure", "numbered", "waiting", "failed"}
    PROVE  LET c == [core EXCEPT !.at = p]
           IN  /\ c \in Cores /\ c.at = p /\ c.before = core.before
               /\ c.generation = core.generation /\ c.heard = core.heard
BY DEF Cores

LEMMA IdleFacts ==
    Idle \in Cores /\ Idle.at = "idle" /\ Idle.before = 0 /\ Idle.generation = 0
BY RecordFacts DEF Idle

LEMMA ServerAnswersInv == ASSUME Inv, ServerAnswers PROVE Inv'
<1>0. /\ TypeInv /\ GenerationInv /\ FlightInv /\ ReplyInv /\ WantedInv
      /\ core \in Cores /\ core.before \in Nat /\ generation \in Nat
      /\ core.before <= generation /\ core.generation <= generation
  BY DEF Inv, TypeInv, Cores, GenerationInv
<1>1. /\ UNCHANGED <<operation, cancelled, commands, reply, late, leaving, generation, worker, state, owned, sent>>
      /\ UNCHANGED <<wanted, events>> /\ core.at = "asked"
  BY DEF ServerAnswers, history
<1>2. UNCHANGED <<pipeline, monitor>>
  BY <1>1 DEF owned
<1>3. Unrestored \in Configs \cup {None}
  BY <1>0 DEF Unrestored, TypeInv, Cores
<1>t. /\ operation' \in Nat /\ late' \in SUBSET Nat /\ reply' \in Replies /\ wanted' \in BOOLEAN
      /\ events' \in Nat /\ restore \in Configs \cup {None}
  BY <1>0, <1>1 DEF TypeInv
<1>4. CASE Settled(core.before, Unrestored)
  <2>1. Hearable => wanted
    BY <1>0, <1>1 DEF WantedInv
  <2> QED
    BY <1>0, <1>1, <1>3, <1>4, <1>t, <2>1, SettledInv
<1>5. ASSUME UNCHANGED <<ready, gate, token>>, core' \in Cores, core'.at \in {"configure", "idle"},
             core'.before <= generation, core'.generation <= generation,
             core'.at = "configure" => core'.generation = core.generation,
             restore' \in Configs \cup {None}
      PROVE  Inv'
  <2>1. ASSUME NEW a, FlightOf(a) PROVE FlightOf(a)'
    BY <1>1, <1>5, <2>1 DEF FlightOf, Wants
  <2>2. FlightInv'
    BY <1>0, <1>1, <2>1 DEF FlightInv
  <2>3. ReplyInv'
    BY <1>0, <1>1, <1>5 DEF ReplyInv
  <2>4. WantedInv'
    BY <1>0, <1>1, <1>2, <1>5 DEF WantedInv, Here, Hearable, PipelineLive
  <2> QED
    BY <1>1, <1>5, <1>t, <2>2, <2>3, <2>4, CoreMoves
<1>6. CASE core' = [core EXCEPT !.at = "configure"] /\ UNCHANGED <<ready, restore, gate, token>>
  BY <1>0, <1>5, <1>6, <1>t, CoreAt
<1>7. CASE /\ core' = [core EXCEPT !.at = "configure", !.safe = TRUE,
                               !.request = [core.previous EXCEPT !.muted = TRUE]]
           /\ restore' = Unrestored /\ UNCHANGED <<ready, gate, token>>
  <2>1. [core.previous EXCEPT !.muted = TRUE] \in Configs
    BY <1>0, ConfigFacts DEF Cores
  <2>2. PICK q \in Configs : q = [core.previous EXCEPT !.muted = TRUE]
    BY <2>1
  <2>3. core' = [core EXCEPT !.at = "configure", !.safe = TRUE, !.request = q]
    BY <1>7, <2>2
  <2>4. /\ core' \in Cores /\ core'.at = "configure" /\ core'.before = core.before
        /\ core'.generation = core.generation
    BY <1>0, <2>3 DEF Cores
  <2> QED
    BY <1>0, <1>3, <1>5, <1>7, <2>4
<1>8. CASE core' = Idle /\ UNCHANGED <<ready, restore, gate, token>>
  BY <1>0, <1>5, <1>8, <1>t, IdleFacts
<1> QED
  BY <1>4, <1>6, <1>7, <1>8 DEF ServerAnswers

LEMMA NumberInv == ASSUME Inv, Number PROVE Inv'
<1>0. /\ TypeInv /\ GenerationInv /\ FlightInv /\ ReplyInv /\ WantedInv
      /\ core \in Cores /\ core.before <= generation /\ core.generation <= generation
      /\ operation \in Nat
  BY DEF Inv, TypeInv, GenerationInv
<1>1. /\ UNCHANGED <<gate, cancelled, commands, token, reply, ready, restore, late, leaving, generation, worker>>
      /\ UNCHANGED <<state, owned, sent, wanted, events>> /\ core.at = "configure"
  BY DEF Number, history
<1>2. UNCHANGED <<pipeline, monitor>>
  BY <1>1 DEF owned
<1>3. \/ operation' = operation + 1 /\ core' = [core EXCEPT !.at = "numbered"]
      \/ operation' = operation /\ core' = [core EXCEPT !.at = "failed"]
  BY DEF Number
<1>4. /\ core' \in Cores /\ core'.before <= generation /\ core'.generation = core.generation
      /\ core'.generation <= generation
      /\ \/ core'.at = "numbered" /\ operation' = operation + 1
         \/ core'.at = "failed" /\ operation' = operation
  BY <1>0, <1>3, CoreAt
<1>5. ASSUME NEW a \in Applies, FlightOf(a) PROVE FlightOf(a)'
  BY <1>0, <1>1, <1>4, <1>5 DEF FlightOf, Wants, Applies
<1>6. FlightInv'
  <2>1. commands \in Seq(Applies) /\ worker.apply \in Applies \cup {None}
    BY <1>0 DEF TypeInv, Workers
  <2> QED
    BY <1>0, <1>1, <1>5, <2>1 DEF FlightInv
<1>7. ReplyInv'
  <2>1. reply.op \in Nat
    BY <1>0 DEF TypeInv, Replies
  <2> QED
    BY <1>0, <1>1, <1>4, <2>1 DEF ReplyInv
<1>8. WantedInv'
  BY <1>0, <1>1, <1>2, <1>4 DEF WantedInv, Here, Hearable, PipelineLive
<1>9. /\ operation' \in Nat /\ late' \in SUBSET Nat /\ reply' \in Replies /\ wanted' \in BOOLEAN
      /\ events' \in Nat /\ restore' \in Configs \cup {None}
  BY <1>0, <1>1, <1>4 DEF TypeInv
<1> QED
  BY <1>1, <1>4, <1>6, <1>7, <1>8, <1>9, CoreMoves

LEMMA AppendFacts ==
    ASSUME NEW S, NEW s \in Seq(S), NEW x \in S
    PROVE  /\ Append(s, x) \in Seq(S) /\ Len(Append(s, x)) = Len(s) + 1
           /\ \A i \in 1 .. Len(s) : Append(s, x)[i] = s[i]
           /\ Append(s, x)[Len(s) + 1] = x
OBVIOUS

LEMMA SubmitInv == ASSUME Inv, Submit PROVE Inv'
<1>0. /\ TypeInv /\ GenerationInv /\ SenderInv /\ FlightInv /\ ReplyInv /\ WantedInv
      /\ core \in Cores /\ gate \in Gates /\ operation \in Nat
      /\ commands \in Seq(Applies) /\ worker.apply \in Applies \cup {None}
      /\ wanted \in BOOLEAN /\ generation \in Nat
  BY DEF Inv, TypeInv, Workers
<1>1. /\ UNCHANGED <<operation, cancelled, reply, ready, restore, late, leaving, generation>>
      /\ UNCHANGED <<worker, state, pipeline, device, monitor, routeRevision, captureEpoch,
                     transmitting, sent, events>>
      /\ token' = TRUE /\ core.at = "numbered"
      /\ core' = [core EXCEPT !.at = "waiting", !.heard = wanted]
      /\ wanted' = Live(core.request)
  BY DEF Submit, owned
<1>a. PICK a : a = [op |-> operation, scope |-> gate.route, config |-> core.request]
  OBVIOUS
<1>2. /\ a \in Applies /\ a.op = operation /\ a.scope = gate.route /\ a.config = core.request
      /\ commands' = Append(commands, a)
  BY <1>0, <1>a DEF Submit, Applies, Cores, Gates
<1>3. /\ gate' \in Gates /\ gate'.route = gate.route /\ gate'.revision = gate.revision
      /\ gate'.sender = gate.sender /\ gate'.epoch = gate.epoch + 1
  <2>1. gate.epoch + 1 \in Nat
    BY <1>0 DEF Gates
  <2>2. PICK e \in Nat : e = gate.epoch + 1
    BY <2>1
  <2> DEFINE p == /\ gate.pressed /\ core.request.enabled /\ ~core.request.muted
                  /\ core.request.ptt = state.config.ptt
  <2>3. p \in BOOLEAN
    OBVIOUS
  <2>4. gate' = [gate EXCEPT !.enabled = FALSE, !.epoch = e, !.pressed = p]
    BY <2>2 DEF Submit
  <2> HIDE DEF p
  <2>5. GateOK(gate', gate.route, gate.sender, gate.revision, e, p)
    BY <1>0, <2>3, <2>4, GateEdits
  <2> QED
    BY <2>2, <2>5 DEF GateOK
<1>4. /\ core' \in Cores /\ core'.at = "waiting" /\ core'.before = core.before
      /\ core'.generation = core.generation /\ core'.heard = wanted
  <2>1. PICK w \in BOOLEAN : w = wanted
    BY <1>0
  <2>2. core' = [core EXCEPT !.at = "waiting", !.heard = w]
    BY <1>1, <2>1
  <2>3. /\ core' \in Cores /\ core'.at = "waiting" /\ core'.before = core.before
        /\ core'.generation = core.generation /\ core'.heard = w
    BY <1>0, <2>2 DEF Cores
  <2> QED
    BY <2>1, <2>3
<1>5. wanted' \in BOOLEAN
  BY <1>1 DEF Live
<1>6. TypeInv'
  <2>1. commands' \in Seq(Applies) /\ token' \in BOOLEAN
    BY <1>0, <1>1, <1>2, AppendFacts
  <2> QED
    BY <1>0, <1>1, <1>3, <1>4, <1>5, <2>1 DEF TypeInv
<1>7. GateGrows /\ Wakened
  BY <1>0, <1>1, <1>3 DEF GateGrows, Wakened, Gates
<1>8. GenerationInv' /\ SenderInv'
  BY <1>0, <1>1, <1>3, <1>4 DEF GenerationInv, SenderInv
<1>9. FlightInv'
  <2>1. ASSUME NEW b \in Applies, FlightOf(b) PROVE FlightOf(b)'
    BY <1>0, <1>1, <1>3, <1>4, <2>1 DEF FlightOf, Wants, Applies
  <2>2. FlightOf(a)'
    <3>2. Live(a.config) => wanted'
      BY <1>1, <1>2
    <3>3. a.scope.generation <= generation
      BY <1>0, <1>2 DEF GenerationInv
    <3> QED
      BY <1>0, <1>1, <1>2, <1>4, <3>2, <3>3 DEF FlightOf, Wants
  <2>3. \A i \in 1 .. Len(commands) : commands'[i] = commands[i] /\ commands[i] \in Applies
    BY <1>0, <1>2, AppendFacts
  <2>4. Len(commands') = Len(commands) + 1 /\ commands'[Len(commands) + 1] = a /\ Len(commands) \in Nat
    BY <1>0, <1>2, AppendFacts
  <2>5. ASSUME NEW i \in 1 .. Len(commands') PROVE FlightOf(commands[i])'
    <3>1. CASE i \in 1 .. Len(commands)
      <4>1. PICK b \in Applies : b = commands[i]
        BY <2>3, <3>1
      <4>2. FlightOf(b)'
        BY <1>0, <2>1, <3>1, <4>1 DEF FlightInv
      <4>3. commands'[i] = b
        BY <2>3, <3>1, <4>1
      <4> QED
        BY <4>2, <4>3
    <3>2. CASE i = Len(commands) + 1
      <4>1. commands'[i] = a
        BY <2>4, <3>2
      <4> QED
        BY <2>2, <4>1
    <3> QED
      BY <2>4, <3>1, <3>2
  <2> QED
    BY <1>0, <1>1, <2>1, <2>5 DEF FlightInv
<1>10. ReplyInv'
  <2>1. reply.op < operation /\ reply.op \in Nat
    BY <1>0, <1>1 DEF ReplyInv, TypeInv, Replies
  <2> QED
    BY <1>0, <1>1, <2>1 DEF ReplyInv
<1>11. WantedInv'
  <2>1. Hearable' => Hearable
    BY <1>1, <1>3 DEF Hearable, PipelineLive
  <2>2. Hearable => wanted
    BY <1>0, <1>1 DEF WantedInv
  <2>3. wanted => Here
    BY <1>0, <1>1 DEF WantedInv
  <2>4. Here => Here'
    BY <1>3, <1>4 DEF Here
  <2> QED
    BY <1>4, <2>1, <2>2, <2>3, <2>4 DEF WantedInv
<1> QED
  BY <1>1, <1>6, <1>7, <1>8, <1>9, <1>10, <1>11, CoreStep DEF owned

LEMMA FailedInv ==
    ASSUME Inv, core.at \in {"waiting", "failed"}, core' \in Cores, core'.at \in {"failed", "idle"},
           core'.before <= generation, core'.generation <= generation,
           core'.at = "failed" => core'.generation = core.generation /\ core'.heard = core.heard,
           core'.at = "idle" => (Hearable => wanted),
           UNCHANGED <<gate, cancelled, commands, token, ready, leaving, generation, operation, restore, worker>>,
           UNCHANGED <<state, owned, sent, wanted>>,
           late' \in SUBSET Nat, reply' \in {reply, NoReply}, events' \in Nat
    PROVE  Inv'
<1>0. /\ TypeInv /\ FlightInv /\ ReplyInv /\ WantedInv
      /\ operation \in Nat /\ wanted \in BOOLEAN /\ restore \in Configs \cup {None}
  BY DEF Inv, TypeInv
<1>1. UNCHANGED <<pipeline, monitor>>
  BY DEF owned
<1>2. ASSUME NEW a, FlightOf(a) PROVE FlightOf(a)'
  BY <1>2 DEF FlightOf, Wants
<1>3. FlightInv'
  BY <1>0, <1>2 DEF FlightInv
<1>4. NoReply \in Replies /\ NoReply.op = 0 /\ reply \in Replies
  BY <1>0, RecordFacts DEF NoReply, TypeInv
<1>5. ReplyInv'
  BY <1>0, <1>4 DEF ReplyInv
<1>6. Hearable' => Hearable
  BY <1>1 DEF Hearable, PipelineLive
<1>7. WantedInv'
  BY <1>0, <1>6 DEF WantedInv, Here
<1> QED
  BY <1>0, <1>3, <1>4, <1>5, <1>7, CoreMoves

LEMMA AnsweredInv == ASSUME Inv, Answered PROVE Inv'
<1>0. /\ TypeInv /\ GenerationInv /\ ReplyInv /\ WantedInv /\ core \in Cores
      /\ core.generation \in Nat /\ core.generation <= generation /\ core.before <= generation
      /\ restore \in Configs \cup {None} /\ wanted \in BOOLEAN /\ events \in Nat
      /\ late \in SUBSET Nat
  BY DEF Inv, TypeInv, Cores, GenerationInv
<1>1. /\ core.at = "waiting" /\ reply.op = operation /\ reply' = NoReply
      /\ UNCHANGED <<operation, cancelled, commands, late, leaving, generation, worker, state, owned, sent>>
      /\ UNCHANGED <<wanted, events>>
  BY DEF Answered, history
<1>2. CASE reply.ok /\ Here /\ ~core.safe
  <2>1. PICK c \in Configs \cup {None} : Settled(core.generation, c)
    BY <1>0, <1>2 DEF Answered
  <2>2. Hearable => wanted
    BY <1>0, <1>1, <1>2 DEF ReplyInv
  <2> QED
    BY <1>0, <1>1, <2>1, <2>2, SettledInv
<1>3. CASE ~(reply.ok /\ Here /\ ~core.safe)
  <2>1. core' = [core EXCEPT !.at = "failed"] /\ UNCHANGED <<ready, restore, gate, token>>
    BY <1>3 DEF Answered
  <2>2. /\ core' \in Cores /\ core'.at = "failed" /\ core'.before = core.before
        /\ core'.generation = core.generation /\ core'.heard = core.heard
    BY <1>0, <2>1, CoreAt
  <2> QED
    BY <1>0, <1>1, <2>1, <2>2, FailedInv
<1> QED
  BY <1>2, <1>3

LEMMA TimesOutInv == ASSUME Inv, TimesOut PROVE Inv'
<1>0. /\ TypeInv /\ GenerationInv /\ core \in Cores
      /\ core.generation <= generation /\ core.before <= generation
  BY DEF Inv, TypeInv, GenerationInv
<1>1. /\ core.at = "waiting" /\ core' = [core EXCEPT !.at = "failed"]
      /\ UNCHANGED <<gate, operation, cancelled, commands, token, reply, ready, restore, leaving, generation>>
      /\ UNCHANGED <<worker, state, owned, sent, wanted>>
      /\ late' = late \cup {operation} /\ events' = events + 1
  BY DEF TimesOut, shared, Event
<1>2. late' \in SUBSET Nat /\ events' \in Nat
  BY <1>0, <1>1 DEF TypeInv
<1>3. /\ core' \in Cores /\ core'.at = "failed" /\ core'.before = core.before
      /\ core'.generation = core.generation /\ core'.heard = core.heard
  BY <1>0, <1>1, CoreAt
<1> QED
  BY <1>0, <1>1, <1>2, <1>3, FailedInv

LEMMA RolledBackInv == ASSUME Inv, RolledBack PROVE Inv'
<1>0. /\ TypeInv /\ GenerationInv /\ WantedInv /\ core \in Cores
      /\ core.generation \in Nat /\ core.generation <= generation
      /\ restore \in Configs \cup {None} /\ wanted \in BOOLEAN /\ core.heard \in BOOLEAN
      /\ events \in Nat /\ ready \in Nat /\ ready <= generation /\ late \in SUBSET Nat
      /\ generation \in Nat
  BY DEF Inv, TypeInv, Cores, GenerationInv
<1>1. /\ core.at = "failed" /\ wanted' = (wanted \/ (Here /\ core.heard))
      /\ UNCHANGED <<operation, cancelled, commands, reply, late, leaving, generation, worker, state, owned, sent, events>>
  BY DEF RolledBack
<1>2. Unrestored \in Configs \cup {None}
  BY <1>0 DEF Unrestored, Cores
<1>3. wanted' \in BOOLEAN /\ (wanted => wanted')
  BY <1>1
<1>4. Hearable => wanted'
  BY <1>0, <1>1 DEF WantedInv
<1>5. CASE \E n \in {core.generation, ready} : Settled(n, Unrestored)
  BY <1>0, <1>1, <1>2, <1>3, <1>4, <1>5, SettledInv
<1>6. CASE ~Here /\ core' = Idle /\ UNCHANGED <<ready, restore, gate, token>>
  <2>1. wanted' = wanted /\ (Hearable => wanted)
    BY <1>0, <1>1, <1>6 DEF WantedInv
  <2> QED
    BY <1>0, <1>1, <1>6, <2>1, IdleFacts, FailedInv
<1> QED
  BY <1>5, <1>6 DEF RolledBack

LEMMA CoreInv == ASSUME Inv, Core PROVE Inv'
<1>1. ASSUME NEW c \in Requests \cup ({restore} \ {None}), Ask(c) PROVE Inv'
  <2>1. c \in Configs
    BY EngineAssumption DEF Inv, TypeInv
  <2> QED
    BY <1>1, <2>1, AskInv
<1> QED
  BY <1>1, RouteInv, ConnectedInv, DisconnectInv, LeaveInv, StopInv, PttInv, ServerAnswersInv, NumberInv, SubmitInv,
     AnsweredInv, TimesOutInv, RolledBackInv DEF Core
-----------------------------------------------------------------------------
(* Steps of the worker: the core keeps its place, the gate all but its     *)
(* enabled flag.                                                           *)

LEMMA StateFields ==
    ASSUME state \in States, NEW n \in Nat, NEW c \in Configs, NEW b \in BOOLEAN
    PROVE  /\ [state EXCEPT !.busy = FALSE] \in States
           /\ [state EXCEPT !.operation = n, !.busy = TRUE] \in States
           /\ [state EXCEPT !.busy = FALSE, !.config = c] \in States
           /\ [state EXCEPT !.config.muted = b] \in States
BY DEF States, Configs

SameGate ==
    /\ gate' \in Gates /\ gate'.route = gate.route /\ gate'.revision = gate.revision
    /\ gate'.epoch = gate.epoch /\ gate'.pressed = gate.pressed /\ gate'.sender = gate.sender

LEMMA HeadTail ==
    ASSUME NEW S, NEW s \in Seq(S), s # <<>>
    PROVE  /\ Head(s) \in S /\ Head(s) = s[1] /\ Tail(s) \in Seq(S) /\ Len(s) \in Nat /\ 1 <= Len(s)
           /\ Len(Tail(s)) = Len(s) - 1
           /\ \A i \in 1 .. Len(Tail(s)) : Tail(s)[i] = s[i + 1] /\ i + 1 \in 1 .. Len(s)
OBVIOUS

(* What the worker's steps have in common.                                 *)
LEMMA WorkerStep ==
    ASSUME Inv, TypeInv', SameGate, UNCHANGED <<operation, core, ready, leaving, generation, wanted>>,
           commands' = commands \/ (commands # <<>> /\ commands' = Tail(commands)),
           worker'.apply # None =>
               worker'.apply = worker.apply \/ (commands # <<>> /\ worker'.apply = Head(commands)),
           pipeline' # None => pipeline'.route.generation <= generation,
           worker'.at = "open" => worker'.route.generation <= generation,
           Hearable' => Hearable \/ wanted,
           HandInv', AsleepOnlyIfIdle', RevisionInv', EpochInv', PacketInv', ApplyInv', ReplyInv'
    PROVE  Inv'
<1>0. TypeInv /\ GenerationInv /\ SenderInv /\ FlightInv /\ WantedInv
  BY DEF Inv
<1>1. GenerationInv' /\ SenderInv'
  BY <1>0 DEF GenerationInv, SenderInv, SameGate
<1>2. WantedInv'
  BY <1>0 DEF WantedInv, Here, SameGate
<1>3. ASSUME NEW a, FlightOf(a) PROVE FlightOf(a)'
  BY <1>3 DEF FlightOf, Wants, SameGate
<1>4. commands \in Seq(Applies)
  BY <1>0 DEF TypeInv
<1>5. commands # <<>> => FlightOf(Head(commands))
  BY <1>0, <1>4, HeadTail DEF FlightInv
<1>6. ASSUME NEW i \in 1 .. Len(commands') PROVE FlightOf(commands[i])'
  <2>1. PICK b : b = commands'[i] /\ FlightOf(b)
    BY <1>0, <1>4, HeadTail DEF FlightInv
  <2>2. FlightOf(b)'
    BY <1>3, <2>1
  <2> QED
    BY <2>1, <2>2
<1>7. worker'.apply # None => FlightOf(worker.apply)'
  <2> SUFFICES ASSUME worker'.apply # None PROVE FlightOf(worker.apply)'
    OBVIOUS
  <2>1. PICK b : b = worker'.apply /\ FlightOf(b)
    BY <1>0, <1>5 DEF FlightInv
  <2>2. FlightOf(b)'
    BY <1>3, <2>1
  <2> QED
    BY <2>1, <2>2
<1> QED
  BY <1>1, <1>2, <1>6, <1>7 DEF Inv, FlightInv

(* Places where the worker holds nothing that the invariant speaks of.     *)
Empty(w) == w.at \notin {"reopen", "enable", "encoded", "park"}

(* A step that leaves the pipeline alone and ends at such a place.         *)
LEMMA QuietStep ==
    ASSUME Inv, TypeInv', SameGate,
           UNCHANGED <<operation, core, ready, leaving, generation, wanted, pipeline, monitor, routeRevision>>,
           device' \in {device, None}, worker'.at = "open" => worker'.route.generation <= generation,
           commands' = commands \/ (commands # <<>> /\ commands' = Tail(commands)),
           worker'.apply # None =>
               worker'.apply = worker.apply \/ (commands # <<>> /\ worker'.apply = Head(commands)),
           Empty(worker'), HandInv', ApplyInv', ReplyInv'
    PROVE  Inv'
<1>0. TypeInv /\ GenerationInv /\ RevisionInv /\ EpochInv
  BY DEF Inv
<1>1. AsleepOnlyIfIdle' /\ PacketInv'
  BY DEF Empty, AsleepOnlyIfIdle, PacketInv
<1>2. RevisionInv' /\ EpochInv'
  BY <1>0 DEF Empty, RevisionInv, EpochInv, SameGate, Tagged
<1>3. Hearable' => Hearable
  BY DEF Hearable, PipelineLive, SameGate
<1>4. pipeline' # None => pipeline'.route.generation <= generation
  BY <1>0 DEF GenerationInv
<1> QED
  BY <1>1, <1>2, <1>3, <1>4, WorkerStep

(* The answer to a setting that did not succeed.                           *)
LEMMA AnswerFacts ==
    ASSUME Inv, NEW a \in Applies, FlightOf(a), Answer(a, FALSE), UNCHANGED <<operation, core>>,
           SameGate, wanted' = wanted, Hearable' => Hearable \/ wanted
    PROVE  reply' \in Replies /\ ReplyInv'
<1>0. TypeInv /\ ReplyInv
  BY DEF Inv
<1>1. CASE a.op \in late
  <2>1. reply' = reply
    BY <1>1 DEF Answer
  <2> QED
    BY <1>0, <2>1 DEF ReplyInv, TypeInv
<1>2. CASE a.op \notin late
  <2>1. reply' = [op |-> a.op, ok |-> FALSE]
    BY <1>2 DEF Answer
  <2>2. reply' \in Replies /\ reply'.op = a.op /\ ~reply'.ok
    BY <2>1 DEF Replies, Applies
  <2> QED
    BY <2>2 DEF ReplyInv, FlightOf
<1> QED
  BY <1>1, <1>2

LEMMA TakeCommandInv == ASSUME Inv, TakeCommand PROVE Inv'
<1>0. /\ TypeInv /\ HandInv /\ ApplyInv /\ ReplyInv /\ FlightInv /\ gate \in Gates
      /\ commands \in Seq(Applies)
  BY DEF Inv, TypeInv
<1>p. PICK a : a = Head(commands)
  OBVIOUS
<1>1. /\ worker.at = "top" /\ commands # <<>> /\ commands' = Tail(commands)
      /\ UNCHANGED <<gate, operation, cancelled, token, core, ready, restore, late, leaving, generation>>
      /\ UNCHANGED <<pipeline, device, monitor, routeRevision, captureEpoch, transmitting, sent, wanted, events>>
  BY DEF TakeCommand, shared, callers, owned, history
<1>2. a \in Applies /\ FlightOf(a) /\ commands' \in Seq(Applies)
  BY <1>0, <1>1, <1>p, HeadTail DEF FlightInv
<1>3. SameGate
  BY <1>0, <1>1 DEF SameGate
<1>4. Hearable' => Hearable
  BY <1>1 DEF Hearable, PipelineLive
<1>5. CASE Current(a)
  <2>1. /\ state' = [state EXCEPT !.operation = a.op, !.busy = TRUE]
        /\ worker' = [At("configure") EXCEPT !.apply = a] /\ reply' = reply
    BY <1>5, <1>p DEF TakeCommand
  <2>2. worker' \in Workers /\ worker'.at = "configure" /\ worker'.from = "loop" /\ worker'.apply = a
    <3>1. At("configure") \in Workers /\ At("configure").at = "configure" /\ At("configure").from = "loop"
      BY AtFacts DEF ApplyPlaces
    <3>2. PICK w \in Workers : w = At("configure") /\ w.at = "configure" /\ w.from = "loop"
      BY <3>1
    <3>3. worker' = [w EXCEPT !.apply = a]
      BY <2>1, <3>2
    <3>4. w.at = "configure" /\ w.from = "loop"
      BY <3>2
    <3> HIDE <3>2
    <3> QED
      BY <1>2, <3>3, <3>4 DEF Workers
  <2>3. state' \in States
    BY <1>0, <1>2, <2>1, StateFields DEF TypeInv, Applies
  <2>4. TypeInv'
    BY <1>0, <1>1, <1>2, <2>1, <2>2, <2>3 DEF TypeInv
  <2>5. HandInv' /\ ApplyInv' /\ Empty(worker')
    BY <1>0, <1>1, <1>2, <2>2, NoneFacts DEF HandInv, ApplyInv, Configured, Empty, LoopPlaces
  <2>6. ReplyInv'
    BY <1>0, <1>1, <1>4, <2>1 DEF ReplyInv
  <2> QED
    BY <1>1, <1>3, <1>p, <2>2, <2>4, <2>5, <2>6, QuietStep
<1>6. CASE ~Current(a)
  <2>1. Answer(a, FALSE) /\ UNCHANGED <<state, worker>>
    BY <1>6, <1>p DEF TakeCommand
  <2>2. reply' \in Replies /\ ReplyInv'
    BY <1>1, <1>2, <1>3, <1>4, <2>1, AnswerFacts
  <2>3. TypeInv'
    BY <1>0, <1>1, <1>2, <2>1, <2>2 DEF TypeInv
  <2>4. HandInv' /\ ApplyInv' /\ Empty(worker')
    BY <1>0, <1>1, <2>1 DEF HandInv, ApplyInv, Configured, PipelineLive, Empty
  <2> QED
    BY <1>1, <1>3, <2>1, <2>2, <2>3, <2>4, QuietStep
<1> QED
  BY <1>5, <1>6

(* A failure closes the device and the gate.                               *)
LEMMA FailStep ==
    ASSUME Inv, Fails, UNCHANGED <<token, core, ready, restore, late, leaving, generation, sent, wanted>>,
           NEW p \in {"top", "recheck"}, worker' = At(p),
           reply' = reply \/ (worker.apply # None /\ Answer(worker.apply, FALSE)), events' \in Nat
    PROVE  Inv'
<1>0. /\ TypeInv /\ HandInv /\ ReplyInv /\ FlightInv /\ gate \in Gates /\ state \in States
      /\ worker \in Workers
  BY DEF Inv, TypeInv
<1>1. /\ device' = None /\ state' = [state EXCEPT !.busy = FALSE]
      /\ gate' = [gate EXCEPT !.enabled = FALSE]
      /\ UNCHANGED <<operation, cancelled, commands, pipeline, monitor, routeRevision, captureEpoch>>
  BY DEF Fails
<1>2. SameGate
  BY <1>0, <1>1 DEF SameGate, Gates
<1>3. /\ worker' \in Workers /\ worker'.at = p /\ worker'.from = "loop" /\ worker'.apply = None
  BY AtFacts DEF LoopPlaces
<1>4. Hearable' => Hearable
  BY <1>1, <1>2 DEF Hearable, PipelineLive, SameGate
<1>5. reply' \in Replies /\ ReplyInv'
  <2>1. CASE reply' = reply
    BY <1>0, <1>1, <1>4, <2>1 DEF ReplyInv, TypeInv
  <2>2. CASE worker.apply # None /\ Answer(worker.apply, FALSE)
    <3>1. worker.apply \in Applies /\ FlightOf(worker.apply)
      BY <1>0, <2>2 DEF Workers, FlightInv
    <3> QED
      BY <1>1, <1>2, <1>4, <2>2, <3>1, AnswerFacts
  <2> QED
    BY <2>1, <2>2
<1>6. state' \in States
  BY <1>0, <1>1, StateFields, ConfigFacts
<1>7. TypeInv'
  BY <1>0, <1>1, <1>2, <1>3, <1>5, <1>6 DEF TypeInv, SameGate
<1>8. HandInv' /\ ApplyInv' /\ Empty(worker')
  BY <1>1, <1>3 DEF HandInv, ApplyInv, Configured, Empty, LoopPlaces, ApplyPlaces
<1> QED
  BY <1>1, <1>2, <1>3, <1>5, <1>7, <1>8, QuietStep

LEMMA ConfigureInv == ASSUME Inv, Configure PROVE Inv'
<1>0. /\ TypeInv /\ HandInv /\ ReplyInv /\ FlightInv /\ RevisionInv /\ EpochInv /\ GenerationInv
      /\ gate \in Gates /\ worker \in Workers
      /\ pipeline \in Pipelines \cup {None}
  BY DEF Inv, TypeInv
<1>1. /\ worker.at = "configure"
      /\ UNCHANGED <<gate, operation, cancelled, commands, token, reply, core, ready, restore, late>>
      /\ UNCHANGED <<leaving, generation, state, sent, wanted>>
  BY DEF Configure, shared, callers
<1>2. worker.apply \in Applies /\ worker.apply # None /\ worker.apply.config \in Configs
  BY <1>0, <1>1 DEF HandInv, ApplyPlaces, Workers, Applies
<1>3. SameGate
  BY <1>0, <1>1 DEF SameGate
<1>4. CASE /\ Event /\ worker' = [worker EXCEPT !.at = "applied", !.ok = FALSE] /\ UNCHANGED owned
  <2>1. UNCHANGED <<pipeline, device, monitor, routeRevision, captureEpoch>> /\ events' = events + 1
    BY <1>4 DEF owned, Event
  <2>2. /\ worker' \in Workers /\ worker'.at = "applied" /\ ~worker'.ok
        /\ worker'.from = worker.from /\ worker'.apply = worker.apply
    BY <1>0, <1>4 DEF Workers, ApplyPlaces
  <2>3. TypeInv'
    BY <1>0, <1>1, <2>1, <2>2 DEF TypeInv
  <2>4. HandInv' /\ ApplyInv' /\ Empty(worker')
    BY <1>0, <1>1, <1>2, <2>1, <2>2 DEF HandInv, ApplyInv, Configured, Empty, LoopPlaces
  <2>5. ReplyInv'
    BY <1>0, <1>1, <2>1 DEF ReplyInv, Hearable, PipelineLive
  <2> QED
    BY <1>1, <1>3, <2>1, <2>2, <2>3, <2>4, <2>5, QuietStep
<1>5. CASE /\ device' = None
           /\ worker' = [worker EXCEPT !.at = "open", !.retired = TRUE, !.route = gate.route]
           /\ UNCHANGED <<pipeline, monitor, routeRevision, captureEpoch, events>>
  <2>1. gate.route \in Routes
    BY <1>0 DEF Gates
  <2>2. PICK r \in Routes : r = gate.route
    BY <2>1
  <2>3. /\ worker' \in Workers /\ worker'.at = "open" /\ worker'.route = r
        /\ worker'.from = worker.from /\ worker'.apply = worker.apply
    BY <1>0, <1>5, <2>2 DEF Workers, ApplyPlaces
  <2>4. worker'.route.generation <= generation
    BY <1>0, <2>2, <2>3 DEF GenerationInv, TypeInv
  <2>5. TypeInv'
    BY <1>0, <1>1, <1>5, <2>3 DEF TypeInv
  <2>6. HandInv' /\ ApplyInv' /\ Empty(worker')
    BY <1>0, <1>1, <1>2, <1>5, <2>3 DEF HandInv, ApplyInv, Configured, Empty, LoopPlaces
  <2>7. ReplyInv'
    BY <1>0, <1>1, <1>5 DEF ReplyInv, Hearable, PipelineLive
  <2> QED
    BY <1>1, <1>3, <1>5, <2>3, <2>4, <2>5, <2>6, <2>7, QuietStep
<1>6. CASE /\ pipeline # None /\ Devices(pipeline.config) = Devices(worker.apply.config)
           /\ monitor = worker.apply.config.monitor
           /\ pipeline' = [pipeline EXCEPT !.config = worker.apply.config]
           /\ monitor' = worker.apply.config.monitor /\ routeRevision' = Unset
           /\ worker' = [worker EXCEPT !.at = "update", !.from = "configure"]
           /\ UNCHANGED <<device, captureEpoch, transmitting, events>>
  <2>1. PICK c \in Configs : c = worker.apply.config
    BY <1>2
  <2>2. pipeline \in Pipelines /\ pipeline.config \in Configs
    BY <1>0, <1>6 DEF Pipelines
  <2>3. pipeline.config.enabled = c.enabled /\ pipeline.config.muted = c.muted
    <3>1. Devices(pipeline.config) = Devices(c)
      BY <1>6, <2>1
    <3>2. \A d \in Configs : Devices(d).enabled = d.enabled /\ Devices(d).muted = d.muted
      BY DEF Devices, Configs
    <3> QED
      BY <2>2, <3>1, <3>2
  <2>4. /\ pipeline' \in Pipelines /\ pipeline'.config = c /\ pipeline'.route = pipeline.route
    BY <1>6, <2>1, <2>2 DEF Pipelines
  <2>5. /\ worker' \in Workers /\ worker'.at = "update" /\ worker'.from = "configure"
        /\ worker'.apply = worker.apply
    BY <1>0, <1>6 DEF Workers, ApplyPlaces
  <2>6. monitor' = c.monitor /\ monitor = c.monitor /\ routeRevision' = -1 /\ pipeline' # None
    BY <1>6, <2>1, <2>4, NoneFacts DEF Unset
  <2>7. TypeInv'
    <3>1. monitor' \in BOOLEAN /\ routeRevision' \in Int
      BY <2>6 DEF Configs
    <3> QED
      BY <1>0, <1>1, <1>6, <2>4, <2>5, <3>1 DEF TypeInv
  <2>8. Hearable' => Hearable
    BY <1>1, <1>6, <2>3, <2>4, <2>6 DEF Hearable, PipelineLive
  <2>9. HandInv'
    BY <1>0, <1>2, <1>6, <2>5, <2>6 DEF HandInv, LoopPlaces
  <2>10. ApplyInv'
    BY <2>1, <2>4, <2>5, <2>6 DEF ApplyInv, PipelineLive, Live
  <2>11. RevisionInv' /\ EpochInv' /\ PacketInv' /\ AsleepOnlyIfIdle'
    BY <1>0, <1>1, <1>6, <2>5, <2>6 DEF RevisionInv, EpochInv, PacketInv, AsleepOnlyIfIdle, Tagged, Gates
  <2>12. ReplyInv'
    BY <1>0, <1>1, <2>8 DEF ReplyInv
  <2>13. pipeline'.route.generation <= generation
    BY <1>0, <1>6, <2>4 DEF GenerationInv
  <2> QED
    BY <1>1, <1>3, <2>5, <2>7, <2>8, <2>9, <2>10, <2>11, <2>12, <2>13, WorkerStep
<1> QED
  BY <1>4, <1>5, <1>6, Zenon DEF Configure, Ended

LEMMA OpenReturnsInv == ASSUME Inv, OpenReturns PROVE Inv'
<1>0. /\ TypeInv /\ HandInv /\ ReplyInv /\ FlightInv /\ RevisionInv /\ GenerationInv
      /\ gate \in Gates /\ worker \in Workers /\ worker.route \in Routes /\ gate.epoch \in Nat
  BY DEF Inv, TypeInv, Workers, Gates
<1>1. /\ worker.at = "open" /\ token' \in {token, FALSE}
      /\ UNCHANGED <<gate, operation, cancelled, commands, reply, core, ready, restore, late>>
      /\ UNCHANGED <<leaving, generation, state, captureEpoch, sent, wanted, events>>
  BY DEF OpenReturns, shared, callers, history
<1>2. token' \in BOOLEAN
  BY <1>0, <1>1 DEF TypeInv
<1>3. PICK a \in Applies : a = worker.apply /\ a # None
  BY <1>0, <1>1, NoneFacts DEF HandInv, ApplyPlaces, Workers
<1>4. FlightOf(a) /\ a.config \in Configs
  BY <1>0, <1>3 DEF FlightInv, Applies
<1>5. SameGate
  BY <1>0, <1>1 DEF SameGate
<1>6. CASE Current(a)
  <2>1. PICK c \in Configs : c = a.config
    BY <1>4
  <2>2. /\ device' = IF Needed(c, worker.route) THEN Opened(gate.epoch) ELSE None
        /\ pipeline' = [config |-> c, route |-> worker.route]
        /\ monitor' = c.monitor /\ routeRevision' = Unset
        /\ worker' = [worker EXCEPT !.at = "update", !.from = "configure"]
    BY <1>3, <1>6, <2>1 DEF OpenReturns
  <2>3. /\ worker' \in Workers /\ worker'.at = "update" /\ worker'.from = "configure"
        /\ worker'.apply = worker.apply
    BY <1>0, <2>2 DEF Workers, ApplyPlaces
  <2>4. /\ pipeline' \in Pipelines /\ pipeline'.config = c /\ pipeline'.route = worker.route
        /\ pipeline' # None
    BY <1>0, <2>2, NoneFacts DEF Pipelines
  <2>5. device' = None \/ (device' \in Streams /\ device'.epoch = gate.epoch /\ device'.frames = <<>>)
    <3>1. /\ Opened(gate.epoch) \in Streams /\ Opened(gate.epoch).epoch = gate.epoch
          /\ Opened(gate.epoch).frames = <<>>
      BY <1>0 DEF Opened, Streams
    <3> QED
      BY <2>2, <3>1
  <2>6. monitor' = c.monitor /\ routeRevision' = -1
    BY <2>2 DEF Unset
  <2>7. TypeInv'
    <3>1. monitor' \in BOOLEAN /\ routeRevision' \in Int
      BY <2>6 DEF Configs
    <3> QED
      BY <1>0, <1>1, <1>2, <2>3, <2>4, <2>5, <3>1 DEF TypeInv
  <2>8. Hearable' => wanted
    <3>1. a.op = operation /\ gate.route = a.scope
      BY <1>6 DEF Current
    <3>2. Hearable' => Live(a.config) /\ gate.route.generation # 0
      BY <1>1, <2>1, <2>4, <2>6 DEF Hearable, PipelineLive, Live
    <3> QED
      BY <1>4, <3>1, <3>2 DEF FlightOf, Wants
  <2>9. HandInv' /\ AsleepOnlyIfIdle' /\ PacketInv'
    BY <1>0, <1>3, <2>3, <2>4 DEF HandInv, LoopPlaces, AsleepOnlyIfIdle, PacketInv
  <2>10. ApplyInv'
    BY <1>3, <2>1, <2>3, <2>4, <2>6 DEF ApplyInv, PipelineLive, Live
  <2>11. RevisionInv'
    BY <1>0, <1>1, <2>3, <2>6 DEF RevisionInv, Gates
  <2>12. EpochInv'
    BY <1>0, <1>1, <2>3, <2>5 DEF EpochInv
  <2>13. ReplyInv'
    BY <1>0, <1>1, <2>8 DEF ReplyInv
  <2>14. pipeline'.route.generation <= generation
    BY <1>0, <1>1, <2>4 DEF GenerationInv
  <2> QED
    BY <1>1, <1>5, <2>3, <2>7, <2>8, <2>9, <2>10, <2>11, <2>12, <2>13, <2>14, WorkerStep
<1>7. CASE ~Current(a)
  <2>1. /\ worker' = [worker EXCEPT !.at = "applied", !.ok = FALSE]
        /\ UNCHANGED <<device, pipeline, monitor, routeRevision>>
    BY <1>3, <1>7 DEF OpenReturns
  <2>2. /\ worker' \in Workers /\ worker'.at = "applied" /\ ~worker'.ok
        /\ worker'.from = worker.from /\ worker'.apply = worker.apply
    BY <1>0, <2>1 DEF Workers, ApplyPlaces
  <2>3. TypeInv'
    BY <1>0, <1>1, <1>2, <2>1, <2>2 DEF TypeInv
  <2>4. HandInv' /\ ApplyInv' /\ Empty(worker')
    BY <1>0, <1>1, <1>3, <2>1, <2>2 DEF HandInv, ApplyInv, Configured, Empty, LoopPlaces
  <2>5. ReplyInv'
    BY <1>0, <1>1, <2>1 DEF ReplyInv, Hearable, PipelineLive
  <2> QED
    BY <1>1, <1>5, <2>1, <2>2, <2>3, <2>4, <2>5, QuietStep
<1> QED
  BY <1>6, <1>7

(* The setting has failed and the worker keeps what it has.                *)
LEMMA NotAppliedStep ==
    ASSUME Inv, worker.at \in {"open", "failing"}, worker.apply # None, events' \in Nat,
           worker' = [worker EXCEPT !.at = "applied", !.ok = FALSE],
           UNCHANGED <<shared, commands, token, reply, callers, state, owned, sent, wanted>>
    PROVE  Inv'
<1>0. TypeInv /\ HandInv /\ ReplyInv /\ gate \in Gates /\ worker \in Workers
  BY DEF Inv, TypeInv
<1>1. /\ UNCHANGED <<gate, operation, cancelled, core, ready, restore, late, leaving, generation>>
      /\ UNCHANGED <<pipeline, device, monitor, routeRevision, captureEpoch>>
  BY DEF shared, callers, owned
<1>2. /\ worker' \in Workers /\ worker'.at = "applied" /\ ~worker'.ok
      /\ worker'.from = worker.from /\ worker'.apply = worker.apply
  BY <1>0 DEF Workers, ApplyPlaces
<1>3. SameGate
  BY <1>0, <1>1 DEF SameGate
<1>4. TypeInv'
  BY <1>0, <1>1, <1>2 DEF TypeInv
<1>5. HandInv' /\ ApplyInv' /\ Empty(worker')
  BY <1>0, <1>1, <1>2 DEF HandInv, ApplyInv, Configured, Empty, LoopPlaces
<1>6. ReplyInv'
  BY <1>0, <1>1 DEF ReplyInv, Hearable, PipelineLive
<1> QED
  BY <1>1, <1>2, <1>3, <1>4, <1>5, <1>6, QuietStep

LEMMA OpenFailsInv == ASSUME Inv, OpenFails PROVE Inv'
BY NotAppliedStep DEF Inv, TypeInv, OpenFails, Event, HandInv, ApplyPlaces

LEMMA ReopenFailsInv == ASSUME Inv, ReopenFails PROVE Inv'
<1>0. TypeInv /\ HandInv /\ ReplyInv /\ gate \in Gates /\ worker \in Workers
  BY DEF Inv, TypeInv
<1>1. /\ UNCHANGED <<gate, operation, cancelled, commands, token, reply, core, ready, restore, late>>
      /\ UNCHANGED <<leaving, generation, state, pipeline, device, monitor, routeRevision>>
      /\ UNCHANGED <<captureEpoch, sent, wanted>> /\ events' = events + 1 /\ worker.at = "reopen"
  BY DEF ReopenFails, Event, shared, callers, owned
<1>2. /\ worker' \in Workers /\ worker'.at = "failing"
      /\ worker'.from = worker.from /\ worker'.apply = worker.apply
  BY <1>0 DEF ReopenFails, Workers
<1>3. SameGate
  BY <1>0, <1>1 DEF SameGate
<1>4. TypeInv'
  BY <1>0, <1>1, <1>2 DEF TypeInv
<1>5. HandInv' /\ ApplyInv' /\ Empty(worker')
  BY <1>0, <1>1, <1>2 DEF HandInv, ApplyInv, Configured, Empty, LoopPlaces, ApplyPlaces
<1>6. ReplyInv'
  BY <1>0, <1>1 DEF ReplyInv, Hearable, PipelineLive
<1> QED
  BY <1>1, <1>2, <1>3, <1>4, <1>5, <1>6, QuietStep

(* A refused route may mute the pipeline, and never opens it.              *)
LEMMA RouteFailsInv == ASSUME Inv, RouteFails PROVE Inv'
<1>0. /\ TypeInv /\ HandInv /\ ReplyInv /\ RevisionInv /\ GenerationInv /\ EpochInv
      /\ gate \in Gates /\ worker \in Workers /\ state \in States
  BY DEF Inv, TypeInv
<1>1. /\ UNCHANGED <<gate, operation, cancelled, commands, token, reply, core, ready, restore, late>>
      /\ UNCHANGED <<leaving, generation, device, monitor, routeRevision, captureEpoch, sent, wanted>>
      /\ events' = events + 1 /\ worker.at \in {"update", "top"} /\ pipeline # None
  BY DEF RouteFails, Updating, Event, shared, callers
<1>2. /\ worker' \in Workers /\ worker'.at = "failing"
      /\ worker'.from = worker.from /\ worker'.apply = worker.apply
  BY <1>0 DEF RouteFails, Workers
<1>3. PICK b \in BOOLEAN :
          b = (pipeline.config.muted \/ pipeline.route.generation # gate.route.generation)
  OBVIOUS
<1>4. /\ pipeline' \in Pipelines /\ pipeline'.route = pipeline.route /\ pipeline' # None
      /\ pipeline'.config.enabled = pipeline.config.enabled /\ pipeline'.config.muted = b
  <2>1. pipeline \in Pipelines
    BY <1>0, <1>1 DEF TypeInv
  <2>2. pipeline' = [pipeline EXCEPT !.config.muted = b]
    BY <1>3 DEF RouteFails
  <2>3. /\ pipeline' \in Pipelines /\ pipeline'.route = pipeline.route
        /\ pipeline'.config.enabled = pipeline.config.enabled /\ pipeline'.config.muted = b
    BY <2>1, <2>2 DEF Pipelines, Configs
  <2> QED
    BY <2>3, NoneFacts
<1>5. state' \in States
  <2>1. PICK m \in BOOLEAN :
            m = (state.config.muted \/ pipeline.route.generation # gate.route.generation)
    OBVIOUS
  <2>2. state' = [state EXCEPT !.config.muted = m]
    BY <2>1 DEF RouteFails
  <2> QED
    BY <1>0, <2>2, StateFields, ConfigFacts
<1>6. Hearable' => Hearable
  BY <1>1, <1>3, <1>4 DEF Hearable, PipelineLive
<1>7. SameGate
  BY <1>0, <1>1 DEF SameGate
<1>8. TypeInv'
  BY <1>0, <1>1, <1>2, <1>4, <1>5 DEF TypeInv
<1>9. HandInv' /\ ApplyInv' /\ AsleepOnlyIfIdle' /\ PacketInv'
  BY <1>0, <1>1, <1>2, <1>4 DEF HandInv, ApplyInv, Configured, AsleepOnlyIfIdle, PacketInv,
                               LoopPlaces, ApplyPlaces
<1>10. RevisionInv' /\ EpochInv'
  BY <1>0, <1>1, <1>2, <1>4 DEF RevisionInv, EpochInv, Tagged
<1>11. ReplyInv'
  BY <1>0, <1>1, <1>6 DEF ReplyInv
<1>12. pipeline'.route.generation <= generation
  BY <1>0, <1>1, <1>4 DEF GenerationInv
<1> QED
  BY <1>1, <1>2, <1>6, <1>7, <1>8, <1>9, <1>10, <1>11, <1>12, WorkerStep

LEMMA UpdateFailsInv == ASSUME Inv, UpdateFails PROVE Inv'
<1>1. /\ worker.at = "failing" /\ events' \in Nat
      /\ UNCHANGED <<token, callers, sent, wanted>>
  BY DEF UpdateFails, history, Inv, TypeInv
<1>2. UNCHANGED <<core, ready, restore, late, leaving, generation>>
  BY <1>1 DEF callers
<1>3. worker.from # "loop" => worker.apply # None
  BY DEF Inv, HandInv
<1>4. CASE /\ worker.from = "configure" /\ worker' = [worker EXCEPT !.at = "applied", !.ok = FALSE]
           /\ UNCHANGED <<shared, commands, reply, state, owned>>
  BY <1>1, <1>3, <1>4, NotAppliedStep
<1>5. CASE worker.from = "repair" /\ Fails /\ Answer(worker.apply, FALSE) /\ worker' = At("top")
  BY <1>1, <1>2, <1>3, <1>5, FailStep
<1>6. CASE worker.from = "loop" /\ Fails /\ UNCHANGED reply /\ worker' = At("recheck")
  BY <1>1, <1>2, <1>6, FailStep
<1> QED
  BY <1>4, <1>5, <1>6 DEF UpdateFails

LEMMA TickFailsInv == ASSUME Inv, TickFails PROVE Inv'
<1>1. events' \in Nat /\ UNCHANGED <<core, ready, restore, late, leaving, generation>>
  BY DEF TickFails, Event, Inv, TypeInv, callers
<1> QED
  BY <1>1, FailStep DEF TickFails

LEMMA AppliedInv == ASSUME Inv, Applied PROVE Inv'
<1>0. /\ TypeInv /\ HandInv /\ ReplyInv /\ FlightInv /\ ApplyInv /\ GenerationInv
      /\ gate \in Gates /\ worker \in Workers /\ state \in States
  BY DEF Inv, TypeInv
<1>1. /\ worker.at = "applied" /\ UNCHANGED <<token, core, ready, restore, late, leaving, generation>>
      /\ UNCHANGED <<sent, wanted, events>> /\ events' \in Nat
  BY <1>0 DEF Applied, callers, history, TypeInv
<1>2. PICK a \in Applies : a = worker.apply /\ a # None
  BY <1>0, <1>1, NoneFacts DEF HandInv, ApplyPlaces, Workers
<1>3. FlightOf(a) /\ a.config \in Configs /\ Devices(a.config) \in Configs
  BY <1>0, <1>2, ConfigFacts DEF FlightInv, Applies
<1>4. CASE Fails /\ Answer(a, FALSE) /\ worker' = At("top")
  BY <1>1, <1>2, <1>4, FailStep
<1>5. CASE /\ Current(a) /\ worker.ok
           /\ state' = [state EXCEPT !.busy = FALSE, !.config = Devices(a.config)]
           /\ Answer(a, TRUE) /\ worker' = At("top")
           /\ UNCHANGED <<shared, commands, owned>>
  <2>1. /\ UNCHANGED <<gate, operation, cancelled, commands>>
        /\ UNCHANGED <<pipeline, device, monitor, routeRevision, captureEpoch>>
    BY <1>5 DEF shared, owned
  <2>2. worker' \in Workers /\ worker'.at = "top" /\ worker'.from = "loop" /\ worker'.apply = None
    BY <1>5, AtFacts DEF LoopPlaces
  <2>3. state' \in States
    BY <1>0, <1>3, <1>5, StateFields
  <2>4. reply' = [op |-> a.op, ok |-> TRUE] /\ a.op = operation /\ gate.route = a.scope
    BY <1>5 DEF Current, Answer
  <2>5. reply' \in Replies /\ reply'.op = a.op
    BY <2>4 DEF Replies, Applies
  <2>6. Hearable => wanted
    <3>1. PipelineLive => Live(a.config)
      BY <1>0, <1>1, <1>2, <1>5 DEF ApplyInv, Configured
    <3> QED
      BY <1>3, <2>4, <3>1 DEF Hearable, FlightOf, Wants
  <2>7. ReplyInv'
    BY <1>1, <1>3, <2>1, <2>5, <2>6 DEF ReplyInv, FlightOf, Hearable, PipelineLive
  <2>8. TypeInv'
    BY <1>0, <1>1, <2>1, <2>2, <2>3, <2>5 DEF TypeInv
  <2>9. HandInv' /\ ApplyInv' /\ Empty(worker') /\ SameGate
    BY <1>0, <2>1, <2>2 DEF HandInv, ApplyInv, Configured, Empty, LoopPlaces, ApplyPlaces, SameGate
  <2> QED
    BY <1>1, <2>1, <2>2, <2>7, <2>8, <2>9, QuietStep
<1>6. CASE /\ state' = [state EXCEPT !.busy = FALSE]
           /\ worker' = [worker EXCEPT !.at = "update", !.from = "repair"]
           /\ UNCHANGED <<shared, commands, reply, owned>>
  <2>1. /\ UNCHANGED <<gate, operation, cancelled, commands, reply>>
        /\ UNCHANGED <<pipeline, device, monitor, routeRevision, captureEpoch>>
    BY <1>6 DEF shared, owned
  <2>2. /\ worker' \in Workers /\ worker'.at = "update" /\ worker'.from = "repair"
        /\ worker'.apply = worker.apply
    BY <1>0, <1>6 DEF Workers, ApplyPlaces
  <2>3. state' \in States
    BY <1>0, <1>6, ConfigFacts, StateFields
  <2>4. TypeInv'
    BY <1>0, <1>1, <2>1, <2>2, <2>3 DEF TypeInv
  <2>5. HandInv' /\ ApplyInv' /\ Empty(worker') /\ SameGate
    BY <1>0, <1>2, <2>1, <2>2 DEF HandInv, ApplyInv, Configured, Empty, LoopPlaces, SameGate
  <2>6. ReplyInv'
    BY <1>0, <1>1, <2>1 DEF ReplyInv, Hearable, PipelineLive
  <2> QED
    BY <1>1, <2>1, <2>2, <2>4, <2>5, <2>6, QuietStep
<1> QED
  BY <1>2, <1>4, <1>5, <1>6, Zenon DEF Applied

(* The places of update_route: an apply in hand stays in hand.             *)
LEMMA UpdateFacts ==
    ASSUME Inv, worker.at = "update" \/ worker.at = "top", NEW p \in {"reopen", "enable"},
           worker' = [worker EXCEPT !.at = p, !.epoch = gate.epoch, !.pressed = gate.pressed,
                          !.revision = gate.revision],
           gate' = gate
    PROVE  /\ worker' \in Workers /\ worker'.at = p /\ worker'.epoch = gate.epoch
           /\ worker'.revision = gate.revision /\ worker'.from = worker.from
           /\ worker'.apply = worker.apply /\ SameGate
           /\ worker'.from # "loop" => worker'.apply # None
           /\ worker'.from = "configure" =>
                 Configured /\ pipeline # None /\ (PipelineLive => Live(worker.apply.config))
<1>1. /\ TypeInv /\ HandInv /\ ApplyInv /\ gate \in Gates /\ worker \in Workers
      /\ gate.epoch \in Nat /\ gate.pressed \in BOOLEAN /\ gate.revision \in Nat
  BY DEF Inv, TypeInv, Gates
<1>2. /\ worker' \in Workers /\ worker'.at = p /\ worker'.epoch = gate.epoch
      /\ worker'.revision = gate.revision /\ worker'.from = worker.from
      /\ worker'.apply = worker.apply
  BY <1>1 DEF Workers
<1>3. SameGate
  BY <1>1 DEF SameGate
<1>4. worker'.from # "loop" => worker'.apply # None
  BY <1>1, <1>2 DEF HandInv
<1>5. worker'.from = "configure" =>
          Configured /\ pipeline # None /\ (PipelineLive => Live(worker.apply.config))
  BY <1>1, <1>2 DEF HandInv, LoopPlaces, ApplyInv, Configured
<1> QED
  BY <1>2, <1>3, <1>4, <1>5

LEMMA UpdateInv == ASSUME Inv, Update PROVE Inv'
<1>0. /\ TypeInv /\ HandInv /\ ReplyInv /\ RevisionInv /\ GenerationInv /\ EpochInv
      /\ gate \in Gates /\ state \in States /\ monitor \in BOOLEAN
      /\ gate.route \in Routes /\ gate.revision \in Nat /\ gate.epoch \in Nat
  BY DEF Inv, TypeInv, Gates
<1>1. /\ worker.at = "update" \/ worker.at = "top"
      /\ UNCHANGED <<gate, operation, cancelled, commands, token, reply, core, ready, restore, late>>
      /\ UNCHANGED <<leaving, generation, sent, wanted, events>>
  BY DEF Update, Updating, shared, callers, history
<1>2. CASE gate.revision = routeRevision \/ pipeline = None
  <2>1. /\ routeRevision' = gate.revision
        /\ worker' = [worker EXCEPT !.at = "enable", !.epoch = gate.epoch,
                          !.pressed = gate.pressed, !.revision = gate.revision]
        /\ UNCHANGED <<state, pipeline, device, monitor, captureEpoch, transmitting>>
    BY <1>2 DEF Update
  <2>2. /\ worker' \in Workers /\ worker'.at = "enable" /\ worker'.epoch = gate.epoch
        /\ worker'.revision = gate.revision /\ worker'.from = worker.from
        /\ worker'.apply = worker.apply /\ SameGate
        /\ worker'.from # "loop" => worker'.apply # None
        /\ worker'.from = "configure" =>
              Configured /\ pipeline # None /\ (PipelineLive => Live(worker.apply.config))
    BY <1>1, <2>1, UpdateFacts
  <2>3. TypeInv'
    BY <1>0, <1>1, <2>1, <2>2 DEF TypeInv
  <2>4. HandInv' /\ AsleepOnlyIfIdle' /\ PacketInv'
    BY <1>0, <2>1, <2>2 DEF HandInv, AsleepOnlyIfIdle, PacketInv, LoopPlaces, ApplyPlaces
  <2>5. ApplyInv'
    BY <2>1, <2>2 DEF ApplyInv, Configured, PipelineLive
  <2>6. RevisionInv'
    BY <1>0, <1>1, <1>2, <2>1, <2>2 DEF RevisionInv
  <2>7. EpochInv'
    BY <1>0, <1>1, <2>1, <2>2 DEF EpochInv, Tagged
  <2>8. Hearable' => Hearable
    BY <1>1, <2>1 DEF Hearable, PipelineLive
  <2>9. ReplyInv'
    BY <1>0, <1>1, <2>8 DEF ReplyInv
  <2>10. pipeline' # None => pipeline'.route.generation <= generation
    BY <1>0, <2>1 DEF GenerationInv
  <2> QED
    BY <1>1, <2>2, <2>3, <2>4, <2>5, <2>6, <2>7, <2>8, <2>9, <2>10, WorkerStep
<1>3. CASE gate.revision # routeRevision /\ pipeline # None
  <2>1. PICK r \in Routes : r = gate.route
    BY <1>0
  <2>2. PICK c \in Configs : /\ c = Entering(pipeline, r) /\ c.enabled = pipeline.config.enabled
                             /\ ~c.muted => ~pipeline.config.muted
                             /\ pipeline.route.generation # r.generation => c.muted
    <3>1. pipeline.config \in Configs
      BY <1>0, <1>3 DEF TypeInv, Pipelines
    <3>2. PICK d \in Configs : d = pipeline.config
      BY <3>1
    <3>3. PICK e \in Configs : e = [d EXCEPT !.muted = TRUE]
      BY ConfigFacts
    <3>4. e.muted = TRUE /\ e.enabled = d.enabled
      BY <3>3 DEF Configs
    <3>5. CASE pipeline.route.generation # r.generation \/ (pipeline.route # r /\ monitor)
      BY <3>2, <3>3, <3>4, <3>5 DEF Entering
    <3>6. CASE ~(pipeline.route.generation # r.generation \/ (pipeline.route # r /\ monitor))
      BY <3>2, <3>6 DEF Entering
    <3> QED
      BY <3>5, <3>6
  <2>3. PICK test \in BOOLEAN : test = (monitor /\ ~(pipeline.route # r))
    OBVIOUS
  <2>4. PICK wants \in BOOLEAN : wants = (NeedsDevice(c, test) /\ (r # Offline \/ test))
    OBVIOUS
  <2>5. PICK p \in {"reopen", "enable"} : p = IF wants /\ device = None THEN "reopen" ELSE "enable"
    OBVIOUS
  <2>6. /\ pipeline' = [config |-> c, route |-> r]
        /\ monitor' = test /\ device' = (IF wants THEN device ELSE None) /\ UNCHANGED captureEpoch
        /\ routeRevision' = (IF wants /\ device = None THEN routeRevision ELSE gate.revision)
        /\ worker' = [worker EXCEPT !.at = p, !.epoch = gate.epoch, !.pressed = gate.pressed,
                          !.revision = gate.revision]
    BY <1>3, <2>1, <2>2, <2>3, <2>4, <2>5, Zenon DEF Update
  <2>7. state' \in States
    <3>1. PICK b \in BOOLEAN : b = (state.config.muted \/ pipeline.route.generation # gate.route.generation
                                       \/ (pipeline.route # gate.route /\ monitor))
      OBVIOUS
    <3>2. state' = [state EXCEPT !.config.muted = b]
      BY <1>3, <3>1 DEF Update
    <3> QED
      BY <1>0, <3>2, StateFields
  <2>8. /\ worker' \in Workers /\ worker'.at = p /\ worker'.epoch = gate.epoch
        /\ worker'.revision = gate.revision /\ worker'.from = worker.from
        /\ worker'.apply = worker.apply /\ SameGate
        /\ worker'.from # "loop" => worker'.apply # None
        /\ worker'.from = "configure" =>
              Configured /\ pipeline # None /\ (PipelineLive => Live(worker.apply.config))
    BY <1>1, <2>6, UpdateFacts
  <2>9. pipeline' \in Pipelines /\ pipeline'.config = c /\ pipeline'.route = r /\ pipeline' # None
    BY <2>6, NoneFacts DEF Pipelines
  <2>10. TypeInv'
    BY <1>0, <1>1, <2>6, <2>7, <2>8, <2>9 DEF TypeInv
  <2>11. HandInv' /\ AsleepOnlyIfIdle' /\ PacketInv'
    BY <2>8, <2>9 DEF HandInv, AsleepOnlyIfIdle, PacketInv, LoopPlaces, ApplyPlaces
  <2>12. Hearable' => Hearable
    <3>1. Hearable' => /\ c.enabled /\ ~c.muted /\ ~test /\ gate.route.generation # 0
      BY <1>1, <2>1, <2>6, <2>9 DEF Hearable, PipelineLive
    <3>2. c.enabled /\ ~c.muted /\ ~test => ~monitor
      BY <1>0, <2>2, <2>3 DEF Entering
    <3> QED
      BY <1>3, <2>1, <2>2, <3>1, <3>2 DEF Hearable, PipelineLive
  <2>13. PipelineLive' => PipelineLive
    <3>1. PipelineLive' => c.enabled /\ ~c.muted /\ ~test
      BY <2>6, <2>9 DEF PipelineLive
    <3>2. c.enabled /\ ~c.muted /\ ~test => ~monitor
      BY <1>0, <2>2, <2>3 DEF Entering
    <3> QED
      BY <2>2, <3>1, <3>2 DEF PipelineLive
  <2>14. ApplyInv'
    BY <2>8, <2>9, <2>13 DEF ApplyInv, Configured
  <2>15. RevisionInv'
    BY <1>0, <1>1, <2>1, <2>6, <2>8, <2>9 DEF RevisionInv
  <2>16. EpochInv'
    BY <1>0, <1>1, <2>6, <2>8 DEF EpochInv, Tagged
  <2>17. ReplyInv'
    BY <1>0, <1>1, <2>12 DEF ReplyInv
  <2>18. pipeline'.route.generation <= generation
    BY <1>0, <2>1, <2>9 DEF GenerationInv, TypeInv
  <2> QED
    BY <1>1, <2>8, <2>10, <2>11, <2>12, <2>14, <2>15, <2>16, <2>17, <2>18, WorkerStep
<1> QED
  BY <1>2, <1>3

LEMMA ReopenReturnsInv == ASSUME Inv, ReopenReturns PROVE Inv'
<1>0. /\ TypeInv /\ HandInv /\ ReplyInv /\ RevisionInv /\ GenerationInv /\ EpochInv /\ ApplyInv
      /\ gate \in Gates /\ worker \in Workers /\ worker.epoch \in Nat /\ worker.revision \in Nat
  BY DEF Inv, TypeInv, Workers
<1>1. /\ worker.at = "reopen" /\ token' \in {token, FALSE}
      /\ UNCHANGED <<gate, operation, cancelled, commands, reply, core, ready, restore, late>>
      /\ UNCHANGED <<leaving, generation, state, pipeline, monitor, captureEpoch, sent, wanted, events>>
      /\ device' = IF cancelled \/ gate.route # pipeline.route THEN None ELSE Opened(worker.epoch)
      /\ routeRevision' = worker.revision /\ worker' = [worker EXCEPT !.at = "enable"]
  BY DEF ReopenReturns, shared, callers, history
<1>2. /\ worker' \in Workers /\ worker'.at = "enable" /\ worker'.from = worker.from
      /\ worker'.apply = worker.apply /\ worker'.epoch = worker.epoch
  BY <1>0, <1>1 DEF Workers
<1>3. device' = None \/ (device' \in Streams /\ device'.epoch = worker.epoch /\ device'.frames = <<>>)
  <2>1. /\ Opened(worker.epoch) \in Streams /\ Opened(worker.epoch).epoch = worker.epoch
        /\ Opened(worker.epoch).frames = <<>>
    BY <1>0 DEF Opened, Streams
  <2> QED
    BY <1>1, <2>1
<1>4. SameGate
  BY <1>0, <1>1 DEF SameGate
<1>5. token' \in BOOLEAN
  BY <1>0, <1>1 DEF TypeInv
<1>6. TypeInv'
  BY <1>0, <1>1, <1>2, <1>3, <1>5 DEF TypeInv
<1>7. HandInv' /\ AsleepOnlyIfIdle' /\ PacketInv'
  BY <1>0, <1>1, <1>2 DEF HandInv, AsleepOnlyIfIdle, PacketInv, LoopPlaces, ApplyPlaces
<1>8. ApplyInv'
  BY <1>0, <1>1, <1>2 DEF ApplyInv, Configured, PipelineLive
<1>9. RevisionInv'
  BY <1>0, <1>1, <1>2 DEF RevisionInv
<1>10. EpochInv'
  BY <1>0, <1>1, <1>2, <1>3 DEF EpochInv
<1>11. Hearable' => Hearable
  BY <1>1 DEF Hearable, PipelineLive
<1>12. ReplyInv'
  BY <1>0, <1>1, <1>11 DEF ReplyInv
<1>13. pipeline' # None => pipeline'.route.generation <= generation
  BY <1>0, <1>1 DEF GenerationInv
<1> QED
  BY <1>1, <1>2, <1>4, <1>6, <1>7, <1>8, <1>9, <1>10, <1>11, <1>12, <1>13, WorkerStep

LEMMA EnableInv == ASSUME Inv, Enable PROVE Inv'
<1>0. /\ TypeInv /\ HandInv /\ ReplyInv /\ RevisionInv /\ GenerationInv /\ EpochInv /\ ApplyInv
      /\ FlightInv /\ gate \in Gates /\ worker \in Workers /\ worker.epoch \in Nat
  BY DEF Inv, TypeInv, Workers
<1>1. /\ worker.at = "enable" /\ captureEpoch' = worker.epoch
      /\ UNCHANGED <<operation, cancelled, commands, token, core, ready, restore, late>>
      /\ UNCHANGED <<leaving, generation, state, pipeline, monitor, routeRevision, sent, wanted, events>>
      /\ device' = IF captureEpoch # worker.epoch /\ device # None
                   THEN [device EXCEPT !.epoch = worker.epoch] ELSE device
  BY DEF Enable, callers, history
<1>2. SameGate
  <2>1. CASE gate' = gate
    BY <1>0, <2>1 DEF SameGate
  <2>2. CASE gate' # gate
    <3>1. PICK y \in BOOLEAN : y = (/\ device # None /\ ~monitor
                                    /\ pipeline.config.enabled /\ ~pipeline.config.muted)
      OBVIOUS
    <3>2. gate' = [gate EXCEPT !.enabled = y]
      BY <2>2, <3>1 DEF Enable
    <3> QED
      BY <1>0, <3>2 DEF SameGate, Gates
  <2> QED
    BY <2>1, <2>2
<1>3. /\ device' # None => device # None
      /\ device = None => device' = None
      /\ device' # None => /\ device' \in Streams /\ device'.frames = device.frames
                           /\ device'.epoch \in {device.epoch, worker.epoch}
  <2>1. CASE device = None
    BY <1>1, <2>1
  <2>2. CASE device # None
    <3>1. device \in Streams
      BY <1>0, <2>2 DEF TypeInv
    <3>2. PICK e \in Nat : e = worker.epoch
      BY <1>0
    <3>3. device' = device \/ device' = [device EXCEPT !.epoch = e]
      BY <1>1, <3>2
    <3>4. /\ device' \in Streams /\ device'.frames = device.frames
          /\ device'.epoch \in {device.epoch, e}
      BY <3>1, <3>3 DEF Streams
    <3> QED
      BY <2>2, <3>2, <3>4
  <2> QED
    BY <2>1, <2>2
<1>4. Hearable' => Hearable
  BY <1>1, <1>2 DEF Hearable, PipelineLive, SameGate
<1>5. /\ reply' \in Replies /\ ReplyInv' /\ worker' \in Workers
      /\ \/ worker'.at = "applied" /\ worker'.apply = worker.apply /\ worker'.from = "configure"
            /\ worker.from = "configure"
         \/ worker'.at \in {"top", "tick"} /\ worker'.apply = None /\ worker'.from = "loop"
  <2>1. CASE worker.from = "configure" /\ worker' = [worker EXCEPT !.at = "applied", !.ok = TRUE] /\ UNCHANGED reply
    <3>1. /\ worker' \in Workers /\ worker'.at = "applied" /\ worker'.from = worker.from
          /\ worker'.apply = worker.apply
      BY <1>0, <2>1 DEF Workers, ApplyPlaces
    <3>2. reply' \in Replies /\ ReplyInv'
      BY <1>0, <1>1, <1>4, <2>1 DEF ReplyInv, TypeInv
    <3> QED
      BY <2>1, <3>1, <3>2
  <2>2. CASE worker.from = "repair" /\ Answer(worker.apply, FALSE) /\ worker' = At("top")
    <3>1. worker.apply \in Applies /\ FlightOf(worker.apply)
      BY <1>0, <2>2 DEF Workers, FlightInv, HandInv
    <3>2. reply' \in Replies /\ ReplyInv'
      BY <1>1, <1>2, <1>4, <2>2, <3>1, AnswerFacts
    <3> QED
      BY <2>2, <3>2, AtFacts DEF LoopPlaces
  <2>3. CASE worker.from = "loop" /\ worker' = At("tick") /\ UNCHANGED reply
    <3>1. reply' \in Replies /\ ReplyInv'
      BY <1>0, <1>1, <1>4, <2>3 DEF ReplyInv, TypeInv
    <3> QED
      BY <2>3, <3>1, AtFacts DEF LoopPlaces
  <2> QED
    BY <2>1, <2>2, <2>3 DEF Enable
<1>6. TypeInv'
  BY <1>0, <1>1, <1>2, <1>3, <1>5 DEF TypeInv, SameGate
<1>7. HandInv' /\ AsleepOnlyIfIdle' /\ PacketInv'
  BY <1>0, <1>1, <1>3, <1>5 DEF HandInv, AsleepOnlyIfIdle, PacketInv, LoopPlaces, ApplyPlaces
<1>8. ApplyInv'
  BY <1>0, <1>1, <1>5 DEF ApplyInv, Configured, PipelineLive
<1>9. RevisionInv'
  BY <1>0, <1>1, <1>2, <1>5 DEF RevisionInv, SameGate
<1>10. EpochInv'
  BY <1>0, <1>1, <1>2, <1>3, <1>5 DEF EpochInv, SameGate, Tagged
<1>11. pipeline' # None => pipeline'.route.generation <= generation
  BY <1>0, <1>1 DEF GenerationInv
<1>12. /\ worker'.apply # None => worker'.apply = worker.apply
       /\ worker'.at # "open"
  BY <1>5
<1> QED
  BY <1>1, <1>2, <1>4, <1>5, <1>6, <1>7, <1>8, <1>9, <1>10, <1>11, <1>12, WorkerStep

LEMMA CaptureInv == ASSUME Inv, Capture PROVE Inv'
<1>0. /\ TypeInv /\ HandInv /\ ReplyInv /\ RevisionInv /\ GenerationInv /\ EpochInv /\ ApplyInv
      /\ gate \in Gates /\ worker \in Workers
  BY DEF Inv, TypeInv
<1>1. /\ worker.at = "tick" /\ device # None /\ device.frames # <<>>
      /\ device' = [device EXCEPT !.frames = Tail(device.frames)]
      /\ UNCHANGED <<gate, operation, cancelled, commands, token, reply, core, ready, restore, late>>
      /\ UNCHANGED <<leaving, generation, state, pipeline, monitor, routeRevision, captureEpoch, sent>>
      /\ UNCHANGED <<wanted, events>>
  BY DEF Capture, Frames, shared, callers, history
<1>2. device \in Streams /\ device.frames \in Seq(Samples)
  BY <1>0, <1>1 DEF TypeInv, Streams
<1>3. PICK q \in Seq(Samples) : q = Tail(device.frames)
  <2>1. Tail(device.frames) \in Seq(Samples)
    BY <1>1, <1>2, HeadTail
  <2> QED
    BY <2>1
<1>4. device' \in Streams /\ device'.frames = q /\ device'.epoch = device.epoch /\ device' # None
  BY <1>1, <1>2, <1>3, NoneFacts DEF Streams
<1>5. \A i \in 1 .. Len(q) : Tagged(q[i])
  BY <1>0, <1>1, <1>2, <1>3, HeadTail DEF EpochInv
<1>6. PICK f \in Samples : f = Head(device.frames) /\ Tagged(f)
  BY <1>0, <1>1, <1>2, HeadTail DEF EpochInv
<1>7. SameGate
  BY <1>0, <1>1 DEF SameGate
<1>8. Hearable' => Hearable
  BY <1>1 DEF Hearable, PipelineLive
<1>9. ReplyInv'
  BY <1>0, <1>1, <1>8 DEF ReplyInv
<1>10. pipeline' # None => pipeline'.route.generation <= generation
  BY <1>0, <1>1 DEF GenerationInv
<1>11. PICK b \in BOOLEAN : b = (/\ pipeline.config.enabled /\ ~pipeline.config.muted /\ ~monitor
                                 /\ (pipeline.config.ptt => gate.pressed))
  OBVIOUS
<1>12. /\ worker' \in Workers /\ worker'.from = worker.from /\ worker'.apply = worker.apply
       /\ \/ worker'.at = "tick"
          \/ worker'.at = "encoded" /\ worker'.frame = f /\ worker'.packet = b
  <2>0. worker.taken + 1 \in Nat
    BY <1>0 DEF Workers
  <2>n. PICK n \in Nat : n = worker.taken + 1
    BY <2>0
  <2>1. CASE worker' = [worker EXCEPT !.taken = n]
    BY <1>0, <1>1, <2>1 DEF Workers
  <2>2. CASE worker' # [worker EXCEPT !.taken = n]
    <3>1. worker' = [worker EXCEPT !.at = "encoded", !.frame = f, !.taken = n, !.packet = b]
      BY <1>6, <1>11, <2>2, <2>n, Zenon DEF Capture
    <3> QED
      BY <1>0, <3>1 DEF Workers, LoopPlaces
  <2> QED
    BY <2>1, <2>2
<1>13. TypeInv'
  BY <1>0, <1>1, <1>4, <1>12 DEF TypeInv
<1>14. pipeline' # None
  BY <1>0, <1>1 DEF HandInv
<1>15. HandInv' /\ AsleepOnlyIfIdle' /\ ApplyInv'
  BY <1>0, <1>1, <1>12, <1>14 DEF HandInv, AsleepOnlyIfIdle, ApplyInv, Configured, LoopPlaces, ApplyPlaces
<1>16. RevisionInv'
  BY <1>0, <1>1, <1>12 DEF RevisionInv
<1>17. EpochInv'
  BY <1>0, <1>1, <1>4, <1>5, <1>6, <1>12 DEF EpochInv, Tagged
<1>18. PacketInv'
  BY <1>1, <1>11, <1>12 DEF PacketInv, PipelineLive
<1> QED
  BY <1>1, <1>7, <1>8, <1>9, <1>10, <1>12, <1>13, <1>15, <1>16, <1>17, <1>18, WorkerStep

(* A step of the worker's loop that leaves the engine's state alone.       *)
LEMMA LoopStep ==
    ASSUME Inv, worker' \in Workers, worker'.at \in LoopPlaces \ {"encoded"}, worker'.from = "loop",
           worker'.apply \in {worker.apply, None}, AsleepOnlyIfIdle',
           token' \in BOOLEAN, sent' \in Samples, state' \in States, device' \in {device, None},
           UNCHANGED <<gate, operation, cancelled, commands, reply, core, ready, restore, late>>,
           UNCHANGED <<leaving, generation, pipeline, monitor, routeRevision, captureEpoch, wanted, events>>
    PROVE  Inv'
<1>0. /\ TypeInv /\ HandInv /\ ReplyInv /\ RevisionInv /\ GenerationInv /\ EpochInv
      /\ gate \in Gates
  BY DEF Inv, TypeInv
<1>1. SameGate
  BY <1>0 DEF SameGate
<1>2. TypeInv'
  BY <1>0 DEF TypeInv
<1>3. HandInv' /\ PacketInv' /\ ApplyInv'
  BY <1>0 DEF HandInv, PacketInv, ApplyInv, Configured, LoopPlaces, ApplyPlaces
<1>4. RevisionInv' /\ EpochInv'
  BY <1>0 DEF RevisionInv, EpochInv, Tagged, LoopPlaces
<1>5. Hearable' => Hearable
  BY DEF Hearable, PipelineLive
<1>6. ReplyInv'
  BY <1>0, <1>5 DEF ReplyInv
<1>7. pipeline' # None => pipeline'.route.generation <= generation
  BY <1>0 DEF GenerationInv
<1>8. worker'.at # "open"
  BY DEF LoopPlaces
<1> QED
  BY <1>1, <1>2, <1>3, <1>4, <1>5, <1>6, <1>7, <1>8, WorkerStep

LEMMA SendInv == ASSUME Inv, Send PROVE Inv'
<1>1. /\ worker' = [At("tick") EXCEPT !.taken = worker.taken]
      /\ UNCHANGED <<gate, operation, cancelled, commands, token, reply, core, ready, restore, late>>
      /\ UNCHANGED <<leaving, generation, state, pipeline, device, monitor, routeRevision, captureEpoch>>
      /\ UNCHANGED <<wanted, events>>
  BY DEF Send, shared, callers, history
<1>2. /\ worker' \in Workers /\ worker'.at = "tick" /\ worker'.from = "loop" /\ worker'.apply = None
  <2>1. PICK n \in Nat : n = worker.taken
    BY DEF Inv, TypeInv, Workers
  <2> QED
    BY <1>1, <2>1, AtFacts DEF LoopPlaces
<1>3. sent' \in Samples
  BY DEF Send, Inv, TypeInv, Workers
<1>4. token' \in BOOLEAN /\ state' \in States
  BY <1>1 DEF Inv, TypeInv
<1> QED
  BY <1>1, <1>2, <1>3, <1>4, LoopStep DEF AsleepOnlyIfIdle, LoopPlaces

LEMMA RecheckInv == ASSUME Inv, Recheck PROVE Inv'
<1> DEFINE work == commands # <<>> \/ gate.revision # routeRevision \/ gate.epoch # captureEpoch
<1>1. /\ UNCHANGED <<gate, operation, cancelled, commands, token, reply, core, ready, restore, late>>
      /\ UNCHANGED <<leaving, generation, state, pipeline, device, monitor, routeRevision, captureEpoch>>
      /\ UNCHANGED <<sent, wanted, events>>
  BY DEF Recheck, shared, callers, owned, history
<1>2. PICK p \in {"done", "top", "nap", "park"} :
          /\ worker' = At(p) /\ (p = "park" => ~cancelled /\ ~work)
  BY DEF Recheck
<1>3. /\ worker' \in Workers /\ worker'.at = p /\ worker'.from = "loop" /\ worker'.apply = None
  BY <1>2, AtFacts DEF LoopPlaces
<1>4. token' \in BOOLEAN /\ state' \in States /\ sent' \in Samples
  BY <1>1 DEF Inv, TypeInv
<1>5. AsleepOnlyIfIdle'
  BY <1>1, <1>2, <1>3 DEF AsleepOnlyIfIdle
<1> QED
  BY <1>1, <1>3, <1>4, <1>5, LoopStep DEF LoopPlaces

LEMMA WakesInv == ASSUME Inv, Wakes PROVE Inv'
<1>1. /\ UNCHANGED <<gate, operation, cancelled, commands, reply, core, ready, restore, late>>
      /\ UNCHANGED <<leaving, generation, state, pipeline, device, monitor, routeRevision, captureEpoch>>
      /\ UNCHANGED <<sent, wanted, events>>
      /\ worker' = [worker EXCEPT !.at = "top"] /\ token' = FALSE /\ worker.at \in LoopPlaces
  BY DEF Wakes, shared, callers, owned, history, LoopPlaces
<1>2. worker \in Workers /\ worker.from = "loop"
  BY <1>1 DEF Inv, TypeInv, HandInv
<1>3. /\ worker' \in Workers /\ worker'.at = "top" /\ worker'.from = "loop"
      /\ worker'.apply = worker.apply
  BY <1>1, <1>2 DEF Workers, LoopPlaces
<1>4. state' \in States /\ sent' \in Samples
  BY <1>1 DEF Inv, TypeInv
<1>5. token' \in BOOLEAN
  BY <1>1
<1> QED
  BY <1>1, <1>3, <1>4, <1>5, LoopStep DEF LoopPlaces, AsleepOnlyIfIdle

LEMMA FinishInv == ASSUME Inv, Finish PROVE Inv'
<1>1. /\ UNCHANGED <<gate, operation, cancelled, commands, token, reply, core, ready, restore, late>>
      /\ UNCHANGED <<leaving, generation, pipeline, monitor, routeRevision, captureEpoch>>
      /\ UNCHANGED <<sent, wanted, events>>
      /\ worker' = At("ended") /\ device' = None /\ state' = [state EXCEPT !.busy = FALSE]
  BY DEF Finish, shared, callers, history
<1>2. /\ worker' \in Workers /\ worker'.at = "ended" /\ worker'.from = "loop" /\ worker'.apply = None
  BY <1>1, AtFacts DEF LoopPlaces
<1>3. token' \in BOOLEAN /\ sent' \in Samples /\ state \in States
  BY <1>1 DEF Inv, TypeInv
<1>4. state' \in States
  BY <1>1, <1>3, ConfigFacts, StateFields
<1> QED
  BY <1>1, <1>2, <1>3, <1>4, LoopStep DEF LoopPlaces, AsleepOnlyIfIdle

LEMMA CapturesInv == ASSUME Inv, Captures PROVE Inv'
<1>0. /\ TypeInv /\ HandInv /\ ReplyInv /\ RevisionInv /\ GenerationInv /\ EpochInv /\ ApplyInv
      /\ AsleepOnlyIfIdle /\ PacketInv
      /\ gate \in Gates /\ worker \in Workers /\ gate.epoch \in Nat /\ events \in Nat
  BY DEF Inv, TypeInv, Gates
<1>1. /\ device # None /\ events' = events + 1
      /\ device' = [device EXCEPT !.frames = Append(device.frames, [n |-> events',
                        epoch |-> device.epoch, recorded |-> gate.epoch])]
      /\ UNCHANGED <<gate, operation, cancelled, commands, token, reply, core, ready, restore, late>>
      /\ UNCHANGED <<leaving, generation, state, worker, pipeline, monitor, routeRevision, captureEpoch, sent, wanted>>
  BY DEF Captures, Event, shared, callers
<1>2. device \in Streams /\ device.frames \in Seq(Samples) /\ device.epoch \in Nat
  BY <1>0, <1>1 DEF TypeInv, Streams
<1>3. PICK f : f = [n |-> events', epoch |-> device.epoch, recorded |-> gate.epoch]
  OBVIOUS
<1>4. f \in Samples /\ Tagged(f)
  BY <1>0, <1>1, <1>2, <1>3 DEF Samples, Tagged, EpochInv
<1>5. PICK q \in Seq(Samples) : q = Append(device.frames, f)
  <2>1. Append(device.frames, f) \in Seq(Samples)
    BY <1>2, <1>4
  <2> QED
    BY <2>1
<1>6. device' = [device EXCEPT !.frames = q]
  BY <1>1, <1>3, <1>5
<1>7. device' \in Streams /\ device'.frames = q /\ device'.epoch = device.epoch /\ device' # None
  BY <1>2, <1>6, NoneFacts DEF Streams
<1>8. \A i \in 1 .. Len(q) : Tagged(q[i])
  <2> SUFFICES ASSUME NEW i \in 1 .. Len(q) PROVE Tagged(q[i])
    OBVIOUS
  <2>1. q[i] = f \/ (i \in 1 .. Len(device.frames) /\ q[i] = device.frames[i])
    BY <1>2, <1>4, <1>5
  <2> QED
    BY <1>0, <1>1, <1>4, <2>1 DEF EpochInv
<1>9. SameGate
  BY <1>0, <1>1 DEF SameGate
<1>10. Hearable' => Hearable
  BY <1>1 DEF Hearable, PipelineLive
<1>11. ReplyInv'
  BY <1>0, <1>1, <1>10 DEF ReplyInv
<1>12. pipeline' # None => pipeline'.route.generation <= generation
  BY <1>0, <1>1 DEF GenerationInv
<1>13. TypeInv'
  BY <1>0, <1>1, <1>7 DEF TypeInv
<1>14. HandInv' /\ AsleepOnlyIfIdle' /\ ApplyInv' /\ PacketInv'
  BY <1>0, <1>1, <1>7 DEF HandInv, AsleepOnlyIfIdle, ApplyInv, Configured, PacketInv, PipelineLive
<1>15. RevisionInv'
  BY <1>0, <1>1 DEF RevisionInv
<1>16. EpochInv'
  BY <1>0, <1>1, <1>7, <1>8 DEF EpochInv, Tagged
<1>17. worker'.at = "open" => worker'.route.generation <= generation
  BY <1>0, <1>1 DEF GenerationInv
<1> QED
  BY <1>1, <1>9, <1>10, <1>11, <1>12, <1>13, <1>14, <1>15, <1>16, <1>17, WorkerStep
-----------------------------------------------------------------------------
(* The invariant holds, and what follows from it.                          *)

LEMMA InitInv == Init => Inv
<1> SUFFICES ASSUME Init PROVE Inv
  OBVIOUS
<1>1. /\ gate = [epoch |-> 1, pressed |-> FALSE, enabled |-> FALSE, route |-> Offline,
                 sender |-> FALSE, revision |-> 0]
      /\ operation = 0 /\ commands = <<>> /\ reply = NoReply /\ core = Idle /\ ready = 0
      /\ worker = At("top") /\ pipeline = None /\ device = None /\ routeRevision = -1 /\ generation = 0
      /\ late = {} /\ restore = None /\ captureEpoch = 0 /\ sent = NoFrame /\ events = 0
  BY DEF Init, Unset
<1>2. cancelled = FALSE /\ token = FALSE /\ monitor = FALSE /\ wanted = FALSE /\ leaving = FALSE
  BY DEF Init
<1>3. gate \in Gates /\ gate.route.generation = 0 /\ gate.sender = FALSE /\ gate.revision = 0
  BY <1>1, RecordFacts DEF Gates, Offline
<1>4. state \in States
  <2>1. state = [operation |-> 0, busy |-> FALSE, config |-> Silent]
    BY DEF Init
  <2> QED
    BY <2>1, ConfigFacts DEF States
<1>5. worker \in Workers /\ worker.at = "top" /\ worker.from = "loop" /\ worker.apply = None
  BY <1>1, AtFacts DEF LoopPlaces
<1>6. core.at = "idle" /\ core.before = 0 /\ core.generation = 0 /\ reply.op = 0 /\ reply.ok = FALSE
  BY <1>1 DEF Idle, NoReply
<1>7. /\ cancelled \in BOOLEAN /\ token \in BOOLEAN /\ monitor \in BOOLEAN /\ wanted \in BOOLEAN
      /\ leaving \in BOOLEAN
  BY <1>2, Zenon
<1>8. TypeInv
  BY <1>1, <1>3, <1>4, <1>5, <1>7, RecordFacts DEF TypeInv
<1>9. HandInv /\ AsleepOnlyIfIdle /\ PacketInv /\ ApplyInv
  BY <1>1, <1>5 DEF HandInv, AsleepOnlyIfIdle, PacketInv, ApplyInv, Configured, LoopPlaces, ApplyPlaces
<1>10. RevisionInv /\ EpochInv /\ GenerationInv
  BY <1>1, <1>3, <1>5, <1>6 DEF RevisionInv, EpochInv, GenerationInv
<1>11. SenderInv /\ FlightInv
  BY <1>1, <1>3, <1>5, <1>6 DEF SenderInv, FlightInv
<1>12. ReplyInv /\ WantedInv
  BY <1>1, <1>6 DEF ReplyInv, WantedInv, Hearable
<1> QED
  BY <1>8, <1>9, <1>10, <1>11, <1>12 DEF Inv

LEMMA NextInv == Inv /\ [Next]_vars => Inv'
<1>1. ASSUME Inv, Core PROVE Inv'
  BY <1>1, CoreInv
<1>2. ASSUME Inv, Works PROVE Inv'
  BY <1>2, TakeCommandInv, ConfigureInv, OpenReturnsInv, OpenFailsInv, AppliedInv, UpdateInv,
     RouteFailsInv, ReopenReturnsInv, ReopenFailsInv, UpdateFailsInv, EnableInv, TickFailsInv, CaptureInv, SendInv, RecheckInv,
     WakesInv, FinishInv DEF Works
<1>3. ASSUME Inv, Captures PROVE Inv'
  BY <1>3, CapturesInv
<1>4. ASSUME Inv, UNCHANGED vars PROVE Inv'
  <2>1. /\ UNCHANGED <<gate, operation, cancelled, commands, token, reply, core, ready, restore, late>>
        /\ UNCHANGED <<leaving, generation, worker, state, pipeline, device, monitor, routeRevision, captureEpoch>>
        /\ UNCHANGED <<sent, wanted, events>>
    BY <1>4 DEF vars, shared, callers, owned, history
  <2>2. TypeInv' /\ HandInv' /\ AsleepOnlyIfIdle' /\ RevisionInv'
    BY <1>4, <2>1 DEF Inv, TypeInv, HandInv, AsleepOnlyIfIdle, RevisionInv
  <2>3. EpochInv' /\ PacketInv' /\ GenerationInv' /\ SenderInv' /\ ApplyInv'
    BY <1>4, <2>1 DEF Inv, EpochInv, Tagged, PacketInv, PipelineLive, GenerationInv, SenderInv,
                      ApplyInv, Configured
  <2>4. FlightInv' /\ ReplyInv' /\ WantedInv'
    BY <1>4, <2>1 DEF Inv, FlightInv, FlightOf, Wants, ReplyInv, WantedInv, Hearable, PipelineLive, Here
  <2> QED
    BY <2>2, <2>3, <2>4 DEF Inv
<1> QED
  BY <1>1, <1>2, <1>3, <1>4 DEF Next

(* All that the worker has in hand agrees with what the core has asked     *)
(* for: the engine keeps its invariant for ever.                           *)
THEOREM SpecInv == Spec => []Inv
BY InitInv, NextInv, PTL DEF Spec

(* Worker.run looks for persistent work before park: the worker is never   *)
(* asleep without a token while a setting, a route or an epoch waits for   *)
(* it, however many tokens the opening of devices swallows.                *)
THEOREM NeverSleepsOnWork == Spec => []AsleepOnlyIfIdle
<1>1. Inv => AsleepOnlyIfIdle
  BY DEF Inv
<1> QED
  BY <1>1, SpecInv, PTL

(* Only the end of tick_at, under the gate's lock, hands over a packet.    *)
Sends ==
    /\ worker.at = "encoded" /\ worker.packet /\ gate.sender /\ MaySend /\ ~monitor
    /\ sent' = worker.frame

LEMMA OnlySendSends == ASSUME Next, sent' # sent PROVE Sends
<1>1. CASE Core
  <2>1. sent' = sent
    BY <1>1 DEF Core, SameRoute, Moved, Lost, Refresh, Connected, Disconnect, Leave, Stop, Ptt,
                Ask, ServerAnswers, Number, Submit, Answered, TimesOut, RolledBack
  <2> QED
    BY <2>1
<1>2. CASE Works
  <2>1. CASE Send
    BY <2>1 DEF Send, Sends
  <2>2. CASE ~Send
    <3>1. sent' = sent
      BY <1>2, <2>2 DEF Works, TakeCommand, Configure, OpenReturns, OpenFails, Applied, Update,
                        RouteFails, ReopenReturns, ReopenFails, UpdateFails, Enable, TickFails, Capture, Recheck, Wakes, Finish
    <3> QED
      BY <3>1
  <2> QED
    BY <2>1, <2>2
<1>3. CASE Captures
  BY <1>3 DEF Captures
<1> QED
  BY <1>1, <1>2, <1>3 DEF Next

(* What the gate's lock and the frame's epoch tell at that moment.         *)
LEMMA SendFacts ==
    ASSUME Inv, Sends
    PROVE  /\ worker.frame.recorded = gate.epoch /\ pipeline # None /\ pipeline.route = gate.route
           /\ pipeline.config.ptt => gate.pressed
           /\ PipelineLive /\ gate.route.generation # 0 /\ core.at = "idle"
<1>0. /\ TypeInv /\ HandInv /\ RevisionInv /\ EpochInv /\ PacketInv /\ SenderInv
      /\ worker.frame \in Samples /\ gate.epoch \in Nat
  BY DEF Inv, TypeInv, Workers, Gates
<1>1. /\ worker.at = "encoded" /\ worker.packet /\ gate.sender
      /\ gate.epoch = worker.frame.epoch /\ gate.revision = routeRevision
  BY DEF Sends, MaySend
<1>2. worker.frame.recorded = gate.epoch
  BY <1>0, <1>1 DEF EpochInv, Tagged, Samples
<1>3. pipeline # None /\ pipeline.route = gate.route
  BY <1>0, <1>1 DEF HandInv, RevisionInv
<1>4. PipelineLive /\ (pipeline.config.ptt => gate.pressed)
  BY <1>0, <1>1 DEF PacketInv
<1>5. gate.route.generation # 0 /\ core.at = "idle"
  BY <1>0, <1>1 DEF SenderInv
<1> QED
  BY <1>2, <1>3, <1>4, <1>5

(* A packet handed to the session was recorded in the gate's present       *)
(* epoch, for its route, and in push-to-talk with the key still down,      *)
(* whatever happened while the frame was queued, processed and encoded.    *)
THEOREM SentIsPresent == Spec => SendsOnlyPresent
<1> DEFINE Present == sent' # sent => /\ sent'.recorded = gate.epoch
                                      /\ pipeline.route = gate.route
                                      /\ pipeline.config.ptt => gate.pressed
<1>1. ASSUME Inv, [Next]_vars PROVE [Present]_vars
  <2>1. ASSUME Next, sent' # sent PROVE Present
    <3>1. Sends
      BY <2>1, OnlySendSends
    <3> QED
      BY <1>1, <3>1, SendFacts DEF Sends
  <2> QED
    BY <1>1, <2>1
<1> QED
  BY <1>1, SpecInv, PTL DEF Spec, SendsOnlyPresent

(* Nothing is sent unless the user's last setting in this generation opens *)
(* the microphone, or failed where one before it had opened it: neither a  *)
(* setting that was overtaken nor a reopened device nor a reconnection     *)
(* opens it by itself.                                                     *)
THEOREM HeardIsWanted == Spec => HeardOnlyIfWanted
<1> DEFINE Wanted == sent' # sent => wanted
<1>1. ASSUME Inv, [Next]_vars PROVE [Wanted]_vars
  <2>1. ASSUME Next, sent' # sent PROVE wanted
    <3>1. Sends
      BY <2>1, OnlySendSends
    <3>2. Hearable /\ core.at = "idle"
      BY <1>1, <3>1, SendFacts DEF Hearable
    <3> QED
      BY <1>1, <3>2 DEF Inv, WantedInv
  <2> QED
    BY <1>1, <2>1
<1> QED
  BY <1>1, SpecInv, PTL DEF Spec, HeardOnlyIfWanted
=============================================================================

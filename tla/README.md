# Resona: a TLA+ verification project

Resona is a voice-chat system: a Go server (`internal/`, `cmd/resona-server`),
a Rust client library (`client/`) and a Rust desktop application (`desktop/`).
Clients and server talk Noise over UDP: a reliable control stream of protobuf
frames, and unreliable Opus voice datagrams, on one encrypted session.

This directory models the parts of that system whose correctness depends on
interleavings, loss, retries, limits and failure, checks them with TLC on small
instances, and proves the central properties with TLAPS for all instances.
Definitions carry the names of the Go functions they translate; `PROJECT.json`
maps every definition to its lines.

## Inventory

| Component | State | Operations | Interacts with | What is hard | What makes it correct |
|---|---|---|---|---|---|
| Noise session keys (`noiseudp/conn.go`, `rekey.go`; twin `client/src/noise/crypto.rs`) | send generation, counter, confirmation; receive generation, retired and next key, replay windows | send, receive, maintenance tick, close | the UDP socket, everything above | loss, repetition, reordering; two generations under one phase bit; confirmation racing the next rekey | no nonce twice; generations in lockstep; nothing opens twice; a current packet opens |
| Reliable control stream (`noiseudp/conn.go`) | write gate, sequence numbers, bounded receive and ACK queues | Write, writeChunk, receive, Read | session keys below, frame reader and writer above | stale ACKs, full queues, a writer that gives up while others wait | exactly-once FIFO; an acknowledged chunk is retained; nothing after a torn message; every Write returns |
| Handshake and listener (`noiseudp/handshake.go`, `noise/transport.rs`) | cookies, connection table, accept queue, token bucket | Dial, Listen, Accept, Close, read loop | session keys, server accept loop | close against insert, full tables, repeated requests | one connection per address; nothing leaks; no work before a valid cookie |
| Voice ring (`nativewire/voice_ring.go`) | ring, head, size, wake channel | Push, pop, Close | voice routers, send worker | wake-up between unlock and wait, wrap-around, close with late producers | drop-oldest queue; no lost wake-up; no retained packets |
| Voice send worker (`nativewire/transport.go`) | guard deadline, timer, tripped, stopped | begin, end, expire, stop | voice ring, connection | callbacks that outlive Stop and Reset | only a stalled send is cut; every stalled send is |
| Account sessions (`server/accounts.go`, `accounts/store.go`) | accounts, password versions, tokens; account of every peer; gate | register, password, token, change_password, logout, update_profile | server peers, resource store (bans) | several critical sections per command; failed and uncertain commits; connection lost half-way | one live session per account; a displaced device cannot return; credentials stay valid until installed; bans take effect |
| Server peers (`server/server.go`) | peer table, epochs, queues, capacity | admit, tear down, move, voice state, broadcast, route voice | all server parts | admission against password rotation and settings; stale routing snapshots | epochs isolate channels; limits hold |
| Connection password (`connection_password.go`, `auth_store.go`, `serverauth/`) | authenticator, revision | SetConnectionPassword | KV, admission | uncertain writes | no admission with a superseded password |
| Channel chat (`server/chat.go`) | messages, per-peer generation and cursor | publish, page, catch-up, restart | store, peer queues | catch-up against new messages and moves | no gap, no foreign channel |
| Resource store (`server/store.go`, `channels.go`, `channel_access.go`, `admin_settings.go`, `ownership.go`) | KV record and revision, cache | compare-and-set update, watch, apply | NATS KV, peers | lost responses, watch against local writers | channel IDs never reused; members always in a channel |
| Admin console (`admin_*.go`) | HTTP sessions, observers | login, ban, kick, settings, events | accounts, store, peers | session revocation, event coalescing | authority is current |
| Client lifecycle (`client/src/lifecycle.rs`) | Runner with its session and job, Plan with its attempt, progress channel, Notify, cancellation tokens | connect, disconnect, retry, lose, recover, close | session driver, credentials, core | stale completions, a session won while cancelled, two tasks waiting for each other | no session leaks; what is shown is current; every request is served; a connection settles |
| Client transport, session, resources, credentials (`client/src/`) | worker queues, pending commands, projections | command, apply | server | stale replies, unknown outcomes | never replay an unknown command; never show another connection's state |
| Client audio device (`native/client-audio/device.c` on `miniaudio.h`) | four lock-free rings, discard boundaries, capture epoch, closing and failed flags; state and events of two device threads | open, write, capture, reference, discard, epoch, close; data and notification callbacks | audio worker, operating system | lock-free reading and writing, callbacks during closing, devices that stop by themselves | no torn or repeated sample; nothing played after its discard; one epoch per frame; closing ends |
| Client audio engine (`client/src/audio/engine.rs`, driven by `core.rs`) | gate (route, epoch, revision, enabled), queue of settings, worker with pipeline and device | route, push-to-talk, configure, stop; apply, update_route, tick | lifecycle, session, device | opening a device takes seconds and everything may change meanwhile; wake-ups consumed by native calls | only what the user wants heard is sent, of the present scope; what is shown is what is sent; the worker never sleeps on work |
| Updates (`internal/updates`, `client/src/updates.rs`) | manifests, packages | refresh, select, download | files, HTTP | partial downloads | only verified packages |
| Desktop (`desktop/`) | presentation | — | client core | — | not modelled |

Vendored code (`desktop/vendor`, `native/speexdsp`, and `native/client-audio/miniaudio.h` apart
from its ring buffer and device thread), generated protobuf code and the
`tools/`, `test/` and `deploy/` directories are not the program's own logic.

## Modules

- **NoiseKeys** — both ends of an established session. `tx[p]` is what `sendMu`
  guards, `rx[p]` what the UDP read loop owns. Operators mirror `sendLocked`,
  `prepareKeysLocked`, `decryptPacket` and `receive`; actions are the
  application's or keepalive's send, the maintenance tick, close, a failure and
  the receipt of one copy of a packet. The network is the set of packets ever
  sent. Time appears only as the age of the key (`fresh`, `retry`, `timeout`,
  `aged`) chosen at every step, so every timing is covered. AEAD is external:
  a packet opens exactly under the generation that sealed it.
- **ControlStream** — abstract: chunks enter a stream, are retained in order,
  confirmed no earlier than retained, and taken in order.
  **ReliableControl** — the protocol of `Write`, `writeChunk`, `receive` and
  `Read` with concurrent writers, datagram copies in flight, bounded queues,
  failure of either end; it implements ControlStream. A datagram is delivered
  at most once per copy, which is what NoiseKeys establishes.
  **MCReliableControl** gives it messages of one and two chunks;
  **NoiseProofs** holds the theorems about it and about NoiseKeys.
- **VoiceQueue** — abstract drop-oldest queue. **VoiceRing** — the ring, its
  wake channel and the consumer's unlock-then-wait; it implements VoiceQueue.
  **VoiceSendGuard** — the stall guard: timer and context callbacks are separate
  actors that may hold on between being started and getting the lock; time is
  relative, so no bound on it is needed. **VoiceWorker** declares what the two
  share, the send worker's place and its connection, and **VoiceSender**
  composes them: routers push, the worker pops, sends under the guard and closes
  the ring however it ends (`SendVoiceRing`). **VoiceSenderProofs** holds its
  theorems.
- **AccountSessions** — account commands as the sequence of their critical
  sections (begin, verify, ban check, issue, install), the account database,
  admission and teardown, kicks and bans. Each SQL transaction is one step and
  may fail, and one that is reported as failed may have been committed: a
  `change_password`, the case the code checks `Valid` for, but also a
  registration, a logout and the rotation of the token. A ban becomes visible in the cache when committed
  and is enforced later by `disconnectBanned`, from `SetBan` or from the
  informer; `ObserveBan` is a change the cache learns of through another
  update. Left out: nicknames and `update_profile`, token expiry, rate limits,
  channel effects, capacity, authorization of administrators.
  **MCAccountSessions** instantiates it; **AccountSessionsProofs** holds its
  theorems.

- **ChatDelivery** — the chat of one member, end to end: the stored stream
  (other members publish, retention evicts), `chatLoop` with `readPage` step by
  step, the command loop with `chatCommand` and `chatHistory`, the queues
  `p.out` and `p.chatOut`, the two selects of `writeLoop`, and the client's
  `Driver.apply` with its pending command. It composes the server's chat, the
  server's peers and the client's session. Login and logout begin a new epoch in
  the channel the member is in. The control stream between them is
  ordered and exact (ControlStream), so writing a frame and applying it are one
  step. A removed member is one whose connection has ended. Left out: revisions,
  rate limits, deduplication by client ID, message bodies. The ghost variable
  `excused` records whether a behaviour met one of the two flaws under Findings,
  so that what holds otherwise can be stated. **ChatDeliveryProofs** holds its
  theorems.

- **ConnectionPassword** — `SetConnectionPassword`: read, compare-and-set, lost
  answers, readback, publication; and the authentication of a connection, which
  remembers the generation it was checked against.
  **ServerResources** extends it with the bucket as the sequence of its
  revisions, the cache, the writers of channels, settings and roles
  (`mutateChannelAt`, `SetSettings`, `SetRole`) under `channelMu` and the update
  gate, the informer with `applyResources`, and the members: admission with its
  three checks (password generation, limit, start channel), moves, moderation,
  leaving, a restart of the process and another process that writes the same
  bucket: any of the operations, without a look at the members here. `Server.mu`
  is held within a step. Left out: names, order, bitrates, retention periods, claiming
  and importing ownership. **ServerResourcesProofs** holds its theorems.
- **PcmQueue** — abstract: bounded FIFO queues of samples. **MaRing** —
  miniaudio's single-producer single-consumer ring as `rb_read` and `rb_write`
  of `device.c` use it: offsets with loop flags, acquire, copy, commit; it
  implements PcmQueue. **MaDevice** — miniaudio's device state, events and
  worker thread, `ma_device_start` and `ma_device_uninit`.
  **AudioDevice** composes them into `device.c`: the worker's calls and the
  callbacks of an input and an output device. A sample is its number in the
  stream, a captured sample is the epoch loaded for it. **AudioDeviceProofs**
  holds the theorems about the device and its rings.
- **AudioEngine** — the locked gate, the handle's calls, the core's `configure`
  and `refresh`, and the worker's `apply`, `configure`, `update_route` and
  `tick_at`, cut at its locks and at the opening of a device, which may block,
  fail and swallow an unpark token. An encoder may refuse a route, a tick takes
  a bounded number of frames, other device IDs may make a setting open the device
  again, and disconnecting (`stop_voice_and_disconnect`) gives up the route first
  and closes the device when it gets its turn; the lifecycle's snapshot is taken
  to change with it. Epochs (32 bits), revisions and operations
  (64 bits) are taken not to wrap; `u64::MAX`, the revision nothing has, is
  `Unset`. **MCAudioEngine** gives it the settings a user asks for,
  **AudioEngineProofs** holds its theorems.
- **Lifecycle** — the Runner's select loop and the Plan, with the requests of the
  user, lost connections, the bounded progress channel, `notify_waiters`,
  sessions whose closing takes time, a plan that panics and a session whose task
  is gone without having said how it ended. The attempt counter stops at the first
  "slow" one, because every later attempt is alike. **LifecycleProofs** holds its
  theorems.

Operators marked "Slip" in the modules are deliberate mistakes next to the
definition they distort. They are not part of any specification; each shows
that some property would notice that mistake.

## Runs

| Run | Shows | Bounds and why they suffice |
|---|---|---|
| `noise_keys` | `NonceUnique`, `EpochLockstep`, `CurrentKeyOpens`, `NoReplay` | 3 packets per key, rekey after 2, window of 2, three generations, 6 packets. Three generations make the phase bit repeat; the counter budget, window edge and last generation are all reached. |
| `control` | `ImplementsControlStream`, `NothingAfterTorn`, `WritesReturn` | two writers, messages of one and two chunks, queues of one, three sequence numbers: torn messages, stale ACKs, full queues and exhaustion all happen. One copy of each transmission is in flight; a chunk sent again is another transmission, and the proofs cover any number of copies. `WritesReturn` excludes the last sequence number: there `expected` wraps to zero, a retry of the last chunk is no longer acknowledged, and only the limit of `Write` ends it. A session of 2^32 chunks is out of reach, and the Rust receiver fails the session instead. |
| `voice_send` | `WakeNotLost`, `ImplementsVoiceQueue`, `OnlyStalledTrips`, `NothingLeftBehind`, `WorkerReacts` | capacity 2, four pushes: wrap-around, overflow, late producers; timeout of three ticks, two late callbacks |
| `account_sessions` | `SingleSession`, `IssuedStillValid`, `DisplacedCannotReturn`, `BannedDeviceCutOff` | two connections of two devices, one account, two password versions, three tokens; the proofs cover more accounts and connections |
| `chat_delivery` | `NeverInvalid`, `StoredWhereMeant`, `GapFreeUnlessExcused`, `ChatSettles` | two channels, two messages, one move, login or reload, one command of any kind, one message evicted, a control queue of three and a chat queue of one, a page of one, a client cache of one: a page with more behind it, a cache that overflows, a move or reload that meets a chat run that is starting, reading, pushing, live or failing, full queues |
| `audio_device` | `NoTornCopy`, `OutputExact`, `OneEpochFrames`, `FailedMeansLost`, `ImplementsPcmQueue`, `CloseReturns` | frames of two samples, callbacks that ask for or bring one or two, rings of one frame, five calls and callbacks, two of them while both devices are open: wrap-around, a full and an empty ring, discards and epoch changes at every point of a callback, closing in every state of a device |
| `audio_engine` | `AsleepOnlyIfIdle`, `SendsOnlyPresent`, `HeardOnlyIfWanted` | a queue of one setting, four events of the user or the network after the first connection (`MaxEvents`; closing the device after a disconnection is one of them), settings asked for while fewer than `MaxSettings` = 2 operations have begun (those that restore, leave or reopen go on), so that a setting can be overtaken by a move, a key, a disconnection or its time-out and another follow; one frame per tick (8 in the code), so that a tick leaves frames behind; a device may fail, block and open late at any time |
| `resources` | `OrphanedOnlyByLostAnswer`, `AccessEnforced`, `WithinLimit`, `AdmittedKnowsPassword` | two members, one an admin, a public and a private channel at first, one limit below the members, two attempts per update, four events: a conflict and a lost answer in one update, a deletion or a demotion against a move, an admission between a password's write and its publication, another process that deletes a channel, lowers the limit or changes a role under a writer or the informer. Another process writes while fewer than `MaxLost` = 1 revisions are unanswered here; the theorems hold for any number |
| `lifecycle` | `SessionsOwned`, `ShownIsCurrent`, `WaitCanBeEnded`, `RequestsServed`, `ConnectionSettles` | two sessions alive at once, a control queue of two and a progress channel of one (both 8 in the code; a channel that is full at once is the harder case), four requests or losses |
| `account_ban_race`, `chat_overtaken`, `audio_shown_muted` | expected violations, see Findings | as the passing runs of the same modules; one message and one move for the chat |

Deadlock checking is off where the system may come to rest: a failed session, a
closed ring or device, an exhausted bound.

### Fairness

- ReliableControl: writer goroutines, the read loop and the reading application
  run; a waiting writer eventually gets the gate (strong, as the gate is taken
  and released: Go channels serve waiting senders in order); a chunk or ACK that
  is sent again and again is not lost every time (strong fairness of delivery,
  an assumption about the network, without which only the eight-second limit
  ends a Write). The limit itself is not assumed to fire, so the run shows that
  the protocol recovers by retries.
- VoiceSender: the send worker's goroutine runs, time passes, timers and context
  callbacks start and get their lock, and SendDatagram returns once its
  connection is closed. Nothing is assumed about SendDatagram on an open
  connection, and no packet is ever assumed to be pushed.
- ChatDelivery: `chatLoop`, `writeLoop` and the command goroutine take their
  next step (weak, they are goroutines that wait on nothing but what enables
  the step). Stalls, storage failures, moves and the end of the connection may
  happen and are never assumed to.
- AudioDevice: a call of the worker that has begun goes on, a callback that has
  begun returns, device threads run, and closing goes on once begun. That a
  device starts, breaks or calls back again is never assumed.
- Lifecycle: tasks run, timers fire, a dialled server answers or the deadline
  does, a closing session ends. The Runner's `select!` polls its arms in random
  order, so an arm that is ready again and again is taken: strong fairness for
  taking a request and for the cancellation.
- NoiseKeys, AccountSessions, AudioEngine and ServerResources are checked for
  safety only.

## Findings

1. `account_ban_race` — the ban check of a login and its installation are
   separate critical sections; an account ban enforced between them leaves the
   banned account live until the next resource change, against
   `docs/adr/0035-server-local-accounts.md:47` and `docs/product.md:459`.
2. `chat_overtaken` — `writeLoop`'s inner select may write a chat frame of a new
   epoch before the State that announces the epoch; the client drops it and then
   shows a ready chat without that message, against `internal/server/chat.go:234`
   and `docs/product.md:254`.
3. `audio_shown_muted` — a setting that opens the microphone is overtaken (a move,
   or its 15 s) after its pipeline was installed; `fail` keeps that pipeline
   while the published state stays muted, and the next route opens the device
   and sends, against `docs/product.md:152`.

### Observations

Met while modelling; no run is kept for them, and properties that would fail
only because of one exclude exactly that case.

- Accounts: a login whose connection dies between Issue and the installation has
  already revoked the recovery token of the session that stays live
  (`docs/adr/0035-server-local-accounts.md:52`).
- Chat: a chat run that ended because its queue stalled reports the failure
  through the same queue and ignores that this fails too; the client keeps
  showing a chat that has ended (`docs/adr/0031-bounded-channel-chat.md:57`).
  `GapFreeUnlessExcused` excuses this and `chat_overtaken`.
- Audio device: a device that stops by itself writes `stopped` over the
  `uninitialized` that `ma_device_uninit` has just stored. Its thread, woken by
  `ma_device_uninit` or by nobody any more, starts the device again or waits
  again, and `ma_thread_wait` never returns: nor does `ra_device_close` (the
  comment at `miniaudio.h:44128` says the state makes the thread return).
  `CloseReturns` excludes exactly this case. A back end whose stop fails sends no `stopped`
  notification, so `failed` is not set.
- Audio engine: a setting dropped before it was applied leaves the operation
  number ahead of the state's, so that the gate opens only after the next
  setting; an opening that fails in `update_route` leaves the revision unread, so
  that the worker tries again without a pause.
- Resources: a deletion whose answer was lost lets members enter the channel
  through the cache; the informer then finds it occupied and stops the server.
  The same follows when another process deletes a channel in use.
  So does a failed `configureRetention`, and a role change plus a move while
  `applyResources` has released the lock for it. `OrphanedOnlyByLostAnswer`
  names the first two cases.
- Lifecycle: a first connection whose signing in fails in a transient way goes
  to the next attempt by `continue` (`lifecycle.rs:441`), past the limit of three
  attempts that `docs/product.md:149` and `:235` state; `ConnectionSettles`
  excludes exactly that. A session whose task is gone is recovered even while the
  client is closing (`lifecycle.rs:319`); the plan is cancelled again at the end. When
  an expired sign-in cannot be erased from the keychain (`lifecycle.rs:431`), the
  session is dropped and its end is not awaited.

## Proofs

All theorems hold for every value of the constants that satisfies the named
assumptions, which TLC evaluates in the runs: `KeyAssumption`,
`ControlAssumption`, `AccountAssumption`, `RingAssumption` and `GuardAssumption`
of the voice sender, `LifecycleAssumption`, `ResourceAssumption` (of which the
proofs use that there are finitely many members), `ChatAssumption`, `RingSizes`
and `DeviceAssumption` (sizes and periods are positive), `EngineAssumption` (of
which the proofs use that what is asked for is a setting). The bounds of the
runs are constants too, so a theorem holds however large they are.

- **NoiseProofs**, the keys: `KeysTypeCorrect`, `NoncesNeverReused`, `KeysInLockstep`,
  `CurrentKeyAlwaysOpens`, `NeverReplayed`. None of the four properties is
  inductive. The invariant adds that everything sent has a generation at most
  the sender's and, in the current one, a counter at most the sender's; that a
  keyACK in flight names a generation its sender has reached; and that the
  replay windows cover exactly what was opened, or have outrun it. The argument
  goes through one operator at a time: each lemma says what `SendLocked`,
  `PrepareKeys`, `Handle` or `Opened` preserves.
- **NoiseProofs**, the control stream: `TypeCorrect`, `ControlStreamImplemented`,
  `TornIsLast`. The invariant ties the sequence number to the history: the
  stream's length is `writeSeq`, every chunk in flight is the stream's element
  of its number, what is retained is a prefix at most one behind, and every ACK
  in flight or queued is of a retained chunk. Refinement is then shown action
  by action.
- **AccountSessionsProofs**: `TypeCorrect`, `OneSessionPerAccount`,
  `InstalledCredentialIsValid`, `DisplacedStaysOut`, `BannedDeviceIsCutOff`.
  The invariant says that the gate has one holder, that the token table has at
  most one token per account and only current ones, and that the token about to
  be installed is newer than every session's. Because only the gate's holder
  writes the database, what a command issued is still true when it installs.
- **VoiceSenderProofs**: `TypeCorrect`, `NoLostWakeUp`, `RingLeftEmpty`,
  `GuardTripsOnlyStalled`, `RingImplementsQueue`. For the guard the invariant
  says that a deadline exists only for the send in progress, and that elapsed
  time and deadline then add up to the timeout: a callback that comes late
  meets the deadline of another send, which has not expired. For the refinement
  the lemmas about slots say where the items of a wrapped ring are when head or
  size moves by one, for any capacity.
- **LifecycleProofs**: `EverySessionOwned`, `UserSeesCurrent`,
  `RetryReachesWait`. The invariant relates the Runner's place, its job and the
  plan's place (`JobInv`), the generations of what is in the progress channel
  and in the completion (`GenInv`), who owns which session at each of these
  places (`OwnerInv`), and what was last published (`ShownInv`).
- **ServerResourcesProofs**: `LimitKept`, `OrphansExplained`,
  `AccessIsEnforced`, `AdmissionKnowsPassword`. The invariant says what may
  still be on its way: of the revisions past the cache, only one no writer here
  got an answer for lowers a limit or removes a channel, besides that of the writer who
  holds the gate; the members fit the limit that writer is about to store, and
  nobody is in the channel it is deleting; whoever may not be where he is has an
  enforcement coming; the published password is the stored one or unknown
  unless it is being changed.
- **ChatDeliveryProofs**: `FramesNeverInvalid`, `MessagesStoredWhereMeant`,
  `ShowsItsChannel`. The invariant is that there is one assignment of channels
  to epochs which everything follows that carries an epoch: the member, the
  run, both queues, the page being read, the pending request and the client;
  that states queued for the client have increasing epochs, none below the
  client's; and that a message in flight is of the channel of its epoch.
  `HistoryMeetsLive` is `GapFreeUnlessExcused`. Whether the client will show a
  gap is decided long before it does, by what the server has put into the queue,
  so the invariant (`GapInv`) says of every frame in `p.chatOut` what the client
  will have got when it comes to it. `QueueInv`: a live message comes after all
  stored messages since the cursor of the chat it meets, and a ready status
  after its page, except for what is later than all that comes before.
  `HistoryInv`, `LiveInv` and `FreshInv` tie the run to that queue: of the page,
  what is not still to be sent is on its way; a live run has sent all up to its
  position; what is stored after the boundary is later than anything on its way.
  `ClosedInv`: without a live run no frame meets a ready chat. `GenerationInv`,
  `CancelInv`, `ToldInv` and `StaleInv` say that what a canceled run still pushes
  meets a client which has been told, or will be told first, of the new
  generation. `WholeInv`: a history page has all that is stored between its
  ends, and stays so while messages are published and evicted. `NumberInv`,
  `TodoInv` and `ItemInv` bound the sequence numbers in use, and `CacheInv` the
  client's cache, from which the theorem excepts only messages older than all
  that is shown.
- **AudioDeviceProofs**: `LostIsReal`, `CopiesAreApart`, `FramesOfOneEpoch`,
  `OutputIsExact`, `RingsAreQueues`. The proof has four layers. `ThreadInv`: until closing begins, a
  thread that has left its data loop has stopped by itself. `RingInv`: one
  thread reads a ring and one writes it; reader and writer do not pass each
  other; what a thread acquired stays available to it until it commits, because
  the other end can only make it more; and each thread transfers what its place
  in the code says. On top of it, lemmas say which items a commit takes and
  puts, for any sizes and offsets; the refinement of PcmQueue follows from
  them. `CaptureInv`: the frame being filled, the one being pushed and those in
  the ring are of one epoch each. `StreamInv`: an output ring holds exactly
  the samples between the last taken and the last put, counting the parts of
  transfers that have not returned yet, and a callback that skips can reach the
  boundary it loaded.
- **AudioEngineProofs**: `NeverSleepsOnWork`, `SentIsPresent`, `HeardIsWanted`.
  The worker acts on what it read of the gate some steps ago, so the invariant
  relates the two. `RevisionInv`: while the gate keeps the revision that was
  read, its route is the pipeline's. `EpochInv`: no frame is tagged with an epoch
  later than the one it was recorded in, so that a tag equal to the gate's epoch
  dates the frame. `PacketInv`: an encoded packet was allowed by the pipeline,
  and by a key that is down while its epoch lasts. For what the user wants:
  generations are not used again (`GenerationInv`), a sender is at hand only
  while no setting is under way (`SenderInv`), a setting on its way that could
  still be applied opens the microphone only if that is wanted (`FlightInv`), the
  pipeline is no more open than the setting just applied (`ApplyInv`), a
  success that the core has not seen yet is of such a setting (`ReplyInv`), and
  hence an open pipeline of this generation is wanted, or was until a setting
  that has not succeeded (`WantedInv`). `HeardIsWanted` speaks of the last setting
  submitted in the generation: one that was overtaken opens nothing, but the last
  one may open the microphone after it has timed out, which is what
  `audio_shown_muted` shows.

Only model-checked:

- liveness (`WritesReturn`, `WorkerReacts`, `ChatSettles`, `CloseReturns`,
  `RequestsServed`, `ConnectionSettles`), which needs fairness and is beyond
  this prover.

Every invariant and every safety property of the passing runs is stated by a
theorem.

## Not modelled

- The bulk of the repository's C is vendored: `miniaudio.h` (back ends for every
  operating system, decoders, resamplers, filters, a node graph) of which this
  program uses a ring buffer, one playback and one capture device; and
  `speexdsp`, floating-point echo cancellation and noise suppression. Of the
  former, what the program relies on for its concurrency is in MaRing and
  MaDevice. The rest has no state this program's logic depends on, is numerical,
  or is an interface to an operating system. A model that named its lines would
  not be a translation of them.
- The asynchronous back ends of miniaudio (CoreAudio), where callbacks and
  notifications come from the system's threads instead of the device's.
- Playback in the client: jitter buffer, mixing, codec; notification sounds.
- Voice routing between members: `voiceLoop` reads membership and epochs under
  one lock and pushes after it, so a late push carries the epoch of the channel
  it was spoken in, which the client compares with its own.
- The listener and the handshake: one read loop owns its tables; the rest is
  cryptography.
- The Rust transport worker (it runs the algorithms of NoiseKeys and
  ReliableControl), keychain, resource observer, update manager, wire formats,
  admin HTTP sessions, desktop: input and output, or sequential code with tests.

## Plan

1. `NoiseWorker`: the Rust client's worker as a second implementation of
   ControlStream.
2. `VoiceRouting`: epochs of sender and receiver end to end; the client's jitter
   buffer.
3. `Listener`: handshake requests, cookies, table limit, accept queue, Close.
4. Admin HTTP sessions, the client's resource observer and the update manager.

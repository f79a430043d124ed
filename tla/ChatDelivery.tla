---------------------------- MODULE ChatDelivery ----------------------------
(* Channel chat for one member, end to end: the stored stream, the server's *)
(* chatLoop and command loop, the two send queues that writeLoop merges, the *)
(* ordered control stream (see ControlStream) and the client's Driver.apply. *)
(*                                                                           *)
(* Other members appear as publishers. A removed member is one whose         *)
(* connection has ended: the code never removes without closing. Revisions,  *)
(* rate limits and message bodies are left out.                              *)
EXTENDS Integers, Sequences, FiniteSets, FiniteSetsExt

CONSTANTS Channels,      \* channel IDs; the member starts in Home
          Home,
          MaxMessages,   \* bound: messages ever stored
          MaxEvicted,    \* bound: messages ever evicted
          MaxEpoch,      \* bound: moves + 1
          MaxGeneration, \* bound: restarts of the chat run + 1
          MaxRequest,    \* bound: commands the client sends
          PageSize,      \* most messages of a history page
          OutSlots,      \* cap(p.out)
          ChatSlots,     \* cap(p.chatOut)
          MaxShown       \* most messages the client keeps

ASSUME ChatAssumption ==
    /\ Home \in Channels
    /\ {MaxMessages, MaxEvicted, MaxEpoch, MaxGeneration, MaxRequest} \subseteq Nat
    /\ {PageSize, OutSlots, ChatSlots, MaxShown} \subseteq Nat \ {0}

VARIABLES
    log,       \* every message ever stored, by stream sequence
    retained,  \* the sequences still stored
    open,      \* the member's connection
    peer,      \* p.member.Channel, p.epoch, p.chatGeneration
    out,       \* p.out: states, chat resets and replies
    chatOut,   \* p.chatOut: messages, chat status and pages
    wake,      \* p.chatWake holds a token
    run,       \* chatLoop
    writer,    \* writeLoop: at its first or its second select
    handler,   \* the command loop of servePeer
    requests,  \* commands on their way to the server
    client,    \* the Snapshot of the client's Driver
    pending,   \* the Driver's pending command
    sent,      \* commands sent
    excused    \* ghost: known flaws this behaviour has met

server == <<peer, out, wake>>
vars == <<log, retained, open, peer, out, chatOut, wake, run, writer, handler,
          requests, client, pending, sent, excused>>

-----------------------------------------------------------------------------
(* Frames and commands. *)
NoStatus == [kind |-> "status", channel |-> Home, epoch |-> 0, generation |-> 0,
             status |-> 0, before |-> 0, more |-> FALSE]
StateOf(p) == [kind |-> "state", channel |-> p.channel, epoch |-> p.epoch]
StatusOf(p, status, page) ==
    [kind |-> "status", channel |-> p.channel, epoch |-> p.epoch,
     generation |-> p.generation, status |-> status,
     before |-> page.next, more |-> page.more]
MessageOf(seq, epoch) == [kind |-> "message", seq |-> seq, epoch |-> epoch]
ReplyTo(req) == [kind |-> "reply", id |-> req.id]
NoRequest == [kind |-> "none", id |-> 0, channel |-> Home, epoch |-> 0,
              generation |-> 0, before |-> 0]

EmptyPage == [msgs |-> {}, next |-> 0, more |-> FALSE]

(* page: the newest messages of a channel below a cursor, at most k of them. *)
Stored(channel) == {s \in retained : log[s].channel = channel}

PageBelow(channel, before, k) ==
    LET older == {s \in Stored(channel) : s < before}
        msgs  == {s \in older : Cardinality({t \in older : t >= s}) <= k}
    IN  [msgs |-> msgs, next |-> IF msgs = {} THEN 0 ELSE Min(msgs),
         more |-> msgs # older]

-----------------------------------------------------------------------------
NewPeer == [channel |-> Home, epoch |-> 1, generation |-> 1]
IdleRun == [pc |-> "idle", at |-> NewPeer, canceled |-> FALSE, page |-> EmptyPage,
            todo |-> {}, position |-> 0, item |-> NoStatus]
IdleHandler == [pc |-> "idle", req |-> NoRequest, channel |-> Home, page |-> EmptyPage]
NewClient == [channel |-> Home, epoch |-> 1, shown |-> {}, limited |-> FALSE,
              status |-> NoStatus, invalid |-> FALSE]

(* Just admitted: the client has applied Welcome, the chat run is about to   *)
(* start.                                                                    *)
Init ==
    /\ log = <<>> /\ retained = {} /\ open = TRUE
    /\ peer = NewPeer /\ out = <<StatusOf(NewPeer, 0, EmptyPage)>> /\ chatOut = <<>>
    /\ wake = TRUE /\ run = IdleRun /\ writer = "first" /\ handler = IdleHandler
    /\ requests = <<>> /\ client = NewClient
    /\ pending = NoRequest /\ sent = 0 /\ excused = {}

(* enqueueLocked, for the frames one critical section enqueues: a full queue *)
(* closes the connection.                                                    *)
Enqueue(frames) ==
    /\ out' = SubSeq(out \o frames, 1, Min({Len(out) + Len(frames), OutSlots}))
    /\ open' = (Len(out) + Len(frames) <= OutSlots)

-----------------------------------------------------------------------------
(* The stream, while the member is there to see it. Another member           *)
(* publishes; limits and age evict the oldest.                               *)
Publish(channel) ==
    /\ open /\ Len(log) < MaxMessages
    /\ log' = Append(log, [channel |-> channel, meant |-> channel])
    /\ retained' = retained \cup {Len(log) + 1}
    /\ UNCHANGED <<open, server, chatOut, run, writer, handler, requests,
                   client, pending, sent, excused>>

Evict(channel) ==
    /\ open /\ Stored(channel) # {} /\ Len(log) - Cardinality(retained) < MaxEvicted
    /\ retained' = retained \ {Min(Stored(channel))}
    /\ UNCHANGED <<log, open, server, chatOut, run, writer, handler, requests,
                   client, pending, sent, excused>>

-----------------------------------------------------------------------------
\* Slip: a run in progress is canceled but the loop is not woken again.
RestartChatNoWake(p, frames) ==
    /\ peer' = [p EXCEPT !.generation = p.generation + 1]
    /\ run' = [run EXCEPT !.canceled = run.pc \notin {"idle", "begin"}]
    /\ Enqueue(<<StatusOf([p EXCEPT !.generation = p.generation + 1], 0, EmptyPage)>>
               \o frames)
    /\ wake' = (run.pc = "idle")

(* restartChatLocked with the member at p: cancel the run, announce the new  *)
(* generation, leave one wake token. The frames that the caller enqueues     *)
(* after it follow.                                                          *)
RestartChat(p, frames) ==
    /\ peer' = [p EXCEPT !.generation = p.generation + 1]
    /\ run' = [run EXCEPT !.canceled = run.pc \notin {"idle", "begin"}]
    /\ Enqueue(<<StatusOf([p EXCEPT !.generation = p.generation + 1], 0, EmptyPage)>>
               \o frames)
    /\ wake' = TRUE

\* Slip: a move keeps the epoch.
MovePeerSameEpoch(channel, frames) ==
    LET moved == [peer EXCEPT !.channel = channel]
    IN  RestartChat(moved, <<StateOf(moved)>> \o frames)

(* movePeerLocked, then the broadcast that sends the member its new state.   *)
MovePeer(channel, frames) ==
    LET moved == [peer EXCEPT !.channel = channel, !.epoch = peer.epoch + 1]
    IN  RestartChat(moved, <<StateOf(moved)>> \o frames)

CanRestart == peer.generation < MaxGeneration
CanMove == CanRestart /\ peer.epoch < MaxEpoch

(* An administrator, or a change of access, moves the member. *)
MovedByOther(channel) ==
    /\ open /\ CanMove /\ channel # peer.channel
    /\ MovePeer(channel, <<>>)
    /\ UNCHANGED <<log, retained, chatOut, writer, handler, requests, client,
                   pending, sent, excused>>

-----------------------------------------------------------------------------
(* The command loop takes the next command. *)
Takes(kind) == open /\ handler.pc = "idle" /\ requests # <<>> /\ Head(requests).kind = kind
Taken == requests' = Tail(requests)

HandleMove ==
    LET req == Head(requests) IN
    /\ Takes("move") /\ Taken
    /\ req.channel # peer.channel /\ CanMove
    /\ MovePeer(req.channel, <<ReplyTo(req)>>)
    /\ UNCHANGED <<log, retained, chatOut, writer, handler, client, pending, sent, excused>>

(* Login and logout begin a new epoch where the member is; access that is    *)
(* lost with it is enforced as a move of its own.                            *)
HandleAccount ==
    LET req == Head(requests) IN
    /\ Takes("account") /\ Taken /\ CanMove
    /\ MovePeer(peer.channel, <<ReplyTo(req)>>)
    /\ UNCHANGED <<log, retained, chatOut, writer, handler, client, pending, sent, excused>>

(* ChatSync without a cursor: reload. *)
HandleSync ==
    LET req == Head(requests) IN
    /\ Takes("sync") /\ Taken
    /\ req.channel = peer.channel /\ CanRestart
    /\ RestartChat(peer, <<ReplyTo(req)>>)
    /\ UNCHANGED <<log, retained, chatOut, writer, handler, client, pending, sent, excused>>

(* A command that changes nothing: rate limit, permission, wrong channel, or *)
(* a move to where the member is.                                            *)
Refuse ==
    /\ open /\ handler.pc = "idle" /\ requests # <<>>
    /\ Taken /\ Enqueue(<<ReplyTo(Head(requests))>>)
    /\ UNCHANGED <<log, retained, peer, wake, chatOut, run, writer, handler,
                   client, pending, sent, excused>>

(* chatCommand up to its unlock. The message keeps the member's channel. *)
HandleChat ==
    LET req == Head(requests) IN
    /\ Takes("chat") /\ Taken
    /\ req.channel = peer.channel
    /\ handler' = [IdleHandler EXCEPT !.pc = "publish", !.req = req, !.channel = peer.channel]
    /\ UNCHANGED <<log, retained, open, server, chatOut, run, writer, client,
                   pending, sent, excused>>

\* Slip: the channel is read again after the lock was released.
ChatMessageReread == [channel |-> peer.channel, meant |-> handler.req.channel]

(* The message chatCommand stores. *)
ChatMessage == [channel |-> handler.channel, meant |-> handler.req.channel]

(* publish outside the lock, then the reply; a failed publish may have been  *)
(* stored.                                                                   *)
ChatPublished ==
    /\ open /\ handler.pc = "publish"
    /\ \/ /\ Len(log) < MaxMessages
          /\ log' = Append(log, ChatMessage)
          /\ retained' = retained \cup {Len(log) + 1}
       \/ UNCHANGED <<log, retained>>
    /\ handler' = IdleHandler
    /\ Enqueue(<<ReplyTo(handler.req)>>)
    /\ UNCHANGED <<peer, wake, chatOut, run, writer, requests, client, pending,
                   sent, excused>>

(* chatHistory up to its unlock. *)
HandleHistory ==
    LET req == Head(requests) IN
    /\ Takes("history") /\ Taken
    /\ req.channel = peer.channel /\ req.epoch = peer.epoch
    /\ req.generation = peer.generation
    /\ handler' = [IdleHandler EXCEPT !.pc = "page", !.req = req]
    /\ UNCHANGED <<log, retained, open, server, chatOut, run, writer, client,
                   pending, sent, excused>>

(* It reads the page and checks, under the lock, that it is still wanted. *)
HistoryWanted(req) ==
    req.epoch = peer.epoch /\ req.generation = peer.generation /\ req.channel = peer.channel
HistoryRead ==
    /\ open /\ handler.pc = "page" /\ HistoryWanted(handler.req)
    /\ \E k \in 1 .. PageSize :
           handler' = [handler EXCEPT !.pc = "push",
                           !.page = PageBelow(handler.req.channel, handler.req.before, k)]
    /\ UNCHANGED <<log, retained, open, server, chatOut, run, writer, requests,
                   client, pending, sent, excused>>

HistoryPush ==
    /\ open /\ handler.pc = "push" /\ Len(chatOut) < ChatSlots
    /\ chatOut' = Append(chatOut, [kind |-> "page", req |-> handler.req, page |-> handler.page])
    /\ handler' = IdleHandler
    /\ UNCHANGED <<log, retained, open, server, run, writer, requests, client,
                   pending, sent, excused>>

(* No longer wanted, a failed read, or no room within two seconds. *)
HistoryFails ==
    /\ open /\ handler.pc \in {"page", "push"}
    /\ handler' = IdleHandler /\ Enqueue(<<ReplyTo(handler.req)>>)
    /\ UNCHANGED <<log, retained, peer, wake, chatOut, run, writer, requests,
                   client, pending, sent, excused>>

-----------------------------------------------------------------------------
(* chatLoop. *)
RunStep == UNCHANGED <<log, retained, open, peer, out, writer, handler, requests,
                       client, pending, sent>>

ChatWake ==
    /\ open /\ run.pc = "idle" /\ wake
    /\ wake' = FALSE /\ run' = [run EXCEPT !.pc = "begin"]
    /\ UNCHANGED <<chatOut, excused>> /\ RunStep

(* Under the lock: whom the run is for, and how to cancel it. *)
ChatBegin ==
    /\ open /\ run.pc = "begin"
    /\ run' = [IdleRun EXCEPT !.pc = "boundary", !.at = peer]
    /\ UNCHANGED <<chatOut, wake, excused>> /\ RunStep

(* readPage: the newest sequence, the boundary, first, ... *)
ReadBoundary ==
    LET stored == Stored(run.at.channel) IN
    /\ open /\ run.pc = "boundary"
    /\ run' = [run EXCEPT !.pc = "page",
                          !.position = IF stored = {} THEN 0 ELSE Max(stored)]
    /\ UNCHANGED <<chatOut, wake, excused>> /\ RunStep

\* Slip: the consumer starts with what is newest when it is created.
ReadPageDeliverNew ==
    /\ open /\ run.pc = "page"
    /\ \E k \in 1 .. PageSize :
           LET page == IF run.position = 0 THEN EmptyPage
                       ELSE PageBelow(run.at.channel, run.position + 1, k)
           IN  run' = [run EXCEPT !.pc = "history", !.page = page, !.todo = page.msgs,
                                  !.position = Len(log)]
    /\ UNCHANGED <<chatOut, wake, excused>> /\ RunStep

(* ... then the page up to it and a consumer after it. *)
ReadPage ==
    /\ open /\ run.pc = "page"
    /\ \E k \in 1 .. PageSize :
           LET page == IF run.position = 0 THEN EmptyPage
                       ELSE PageBelow(run.at.channel, run.position + 1, k)
           IN  run' = [run EXCEPT !.pc = "history", !.page = page, !.todo = page.msgs]
    /\ UNCHANGED <<chatOut, wake, excused>> /\ RunStep

(* send checks under the lock that the run is current, ... *)
Current == ~run.canceled
Sends(pc, item) ==
    /\ run' = IF Current THEN [run EXCEPT !.pc = pc, !.item = item]
              ELSE IdleRun
    /\ UNCHANGED <<chatOut, wake, excused>> /\ RunStep

EmitHistory ==
    /\ open /\ run.pc = "history" /\ run.todo # {}
    /\ Sends("pushHistory", MessageOf(Min(run.todo), run.at.epoch))

Ready ==
    /\ open /\ run.pc = "history" /\ run.todo = {}
    /\ Sends("pushReady", StatusOf(run.at, 1, run.page))

(* The consumer's next message: the oldest one stored after its position. *)
Ahead == {s \in Stored(run.at.channel) : s > run.position}
EmitLive ==
    /\ open /\ run.pc = "live" /\ Ahead # {}
    /\ Sends("pushLive", MessageOf(Min(Ahead), run.at.epoch))

(* ... and then pushes without it, so a run that is canceled in between may  *)
(* still push.                                                               *)
Pushing == run.pc \in {"pushHistory", "pushReady", "pushLive", "pushFailed"}
ChatPush ==
    /\ open /\ Pushing /\ Len(chatOut) < ChatSlots
    /\ chatOut' = Append(chatOut, run.item)
    /\ run' = CASE run.pc = "pushHistory" ->
                     [run EXCEPT !.pc = "history", !.todo = run.todo \ {run.item.seq},
                                 !.item = NoStatus]
                [] run.pc = "pushReady"  -> [run EXCEPT !.pc = "live", !.page = EmptyPage,
                                                        !.item = NoStatus]
                [] run.pc = "pushLive"   -> [run EXCEPT !.pc = "live", !.position = run.item.seq,
                                                        !.item = NoStatus]
                [] run.pc = "pushFailed" -> IdleRun
    /\ UNCHANGED <<wake, excused>> /\ RunStep

FailedRun == [IdleRun EXCEPT !.pc = "failed", !.at = run.at]

(* No room for two seconds. A report of failure that stalls is dropped. *)
ChatStall ==
    /\ open /\ Pushing /\ Len(chatOut) = ChatSlots /\ ~run.canceled
    /\ run' = IF run.pc = "pushFailed" THEN IdleRun ELSE FailedRun
    /\ excused' = IF run.pc = "pushFailed" THEN excused \cup {"unreported"} ELSE excused
    /\ UNCHANGED <<chatOut, wake>> /\ RunStep

StorageFails ==
    /\ open /\ run.pc \in {"boundary", "page", "live"} /\ ~run.canceled
    /\ run' = FailedRun
    /\ UNCHANGED <<chatOut, wake, excused>> /\ RunStep

ReportFailure ==
    /\ open /\ run.pc = "failed"
    /\ Sends("pushFailed", StatusOf(run.at, 2, EmptyPage))

(* A canceled run ends wherever it waits. *)
ChatCanceled ==
    /\ open /\ run.canceled
    /\ run.pc \in {"boundary", "page", "live"} \/ Pushing
    /\ run' = IdleRun
    /\ UNCHANGED <<chatOut, wake, excused>> /\ RunStep

-----------------------------------------------------------------------------
(* The client's Driver. A new epoch clears what belongs to the old one.      *)
ApplyState(c, f) ==
    IF f.epoch < c.epoch THEN [c EXCEPT !.invalid = TRUE]
    ELSE IF f.epoch = c.epoch THEN [c EXCEPT !.channel = f.channel]
    ELSE [NewClient EXCEPT !.channel = f.channel, !.epoch = f.epoch]

(* Keep the newest MaxShown messages. *)
Trim(c, shown) ==
    IF Cardinality(shown) <= MaxShown THEN [c EXCEPT !.shown = shown]
    ELSE [c EXCEPT !.shown = shown \ {Min(shown)}, !.limited = TRUE]

ApplyMessage(c, f) ==
    IF f.epoch # c.epoch THEN c
    ELSE IF log[f.seq].channel # c.channel THEN [c EXCEPT !.invalid = TRUE]
    ELSE Trim(c, c.shown \cup {f.seq})

ApplyStatus(c, f) ==
    IF f.epoch = c.epoch /\ f.channel = c.channel /\ f.generation >= c.status.generation
    THEN [c EXCEPT !.status = f] ELSE c

(* apply_history, for the page of the pending request. *)
ApplyPage(c, f) ==
    IF \/ f.req # pending \/ f.req.channel # c.channel \/ f.req.epoch # c.epoch
       \/ f.req.generation # c.status.generation \/ f.req.before # c.status.before
    THEN c
    ELSE IF \E s \in f.page.msgs : log[s].channel # c.channel \/ s >= f.req.before
    THEN [c EXCEPT !.invalid = TRUE]
    ELSE IF Cardinality(c.shown \cup f.page.msgs) > MaxShown
    THEN [c EXCEPT !.limited = TRUE]
    ELSE [c EXCEPT !.shown = c.shown \cup f.page.msgs,
                   !.status = [c.status EXCEPT !.before = f.page.next, !.more = f.page.more]]

Apply(c, f) ==
    CASE f.kind = "state"   -> ApplyState(c, f)
      [] f.kind = "message" -> ApplyMessage(c, f)
      [] f.kind = "status"  -> ApplyStatus(c, f)
      [] f.kind = "page"    -> ApplyPage(c, f)
      [] f.kind = "reply"   -> c

(* A reply or a page ends the command it answers; an invalid frame ends the  *)
(* session.                                                                  *)
Answers(f) ==
    \/ f.kind = "reply" /\ f.id = pending.id
    \/ f.kind = "page" /\ f.req = pending

(* writeLoop: control first; with none queued, whichever comes. The two      *)
(* selects are two steps. The control stream is ordered, and a frame in      *)
(* flight is one the client has not applied, so writing it and applying it   *)
(* are one step.                                                             *)
Writes(frame) ==
    /\ writer' = "first"
    /\ client' = Apply(client, frame)
    /\ open' = ~client'.invalid
    /\ pending' = IF Answers(frame) THEN NoRequest ELSE pending
    /\ UNCHANGED <<log, retained, peer, wake, run, handler, requests, sent>>

WriteControl ==
    /\ open /\ out # <<>>
    /\ Writes(Head(out)) /\ out' = Tail(out) /\ UNCHANGED <<chatOut, excused>>

NoControl ==
    /\ open /\ writer = "first" /\ out = <<>>
    /\ writer' = "second"
    /\ UNCHANGED <<log, retained, open, server, chatOut, run, handler, requests,
                   client, pending, sent, excused>>

WriteChat ==
    /\ open /\ writer = "second" /\ chatOut # <<>>
    /\ Writes(Head(chatOut)) /\ chatOut' = Tail(chatOut)
    /\ excused' = IF out = <<>> THEN excused ELSE excused \cup {"overtaken"}
    /\ UNCHANGED out

(* A write fails, a command of the client times out, or either end closes:   *)
(* servePeer joins its workers and drops what is queued.                     *)
ConnectionEnds ==
    /\ open /\ open' = FALSE
    /\ out' = <<>> /\ chatOut' = <<>> /\ requests' = <<>> /\ wake' = FALSE
    /\ run' = IdleRun /\ handler' = IdleHandler /\ writer' = "first"
    /\ pending' = NoRequest
    /\ UNCHANGED <<log, retained, peer, client, sent, excused>>

(* One command at a time. *)
Submit(req) ==
    /\ open /\ pending = NoRequest /\ sent < MaxRequest
    /\ sent' = sent + 1 /\ pending' = req /\ requests' = Append(requests, req)
    /\ UNCHANGED <<log, retained, open, server, chatOut, run, writer, handler,
                   client, excused>>

ClientCommand(kind, channel) ==
    /\ kind \in {"sync", "chat", "account"} => channel = client.channel
    /\ Submit([NoRequest EXCEPT !.kind = kind, !.id = sent + 1, !.channel = channel])

(* Older history is asked for only while the snapshot has some. *)
ClientHistory ==
    /\ client.status.more /\ ~client.limited
    /\ Submit([kind |-> "history", id |-> sent + 1, channel |-> client.channel,
               epoch |-> client.epoch, generation |-> client.status.generation,
               before |-> client.status.before])

(* A soft command that gets no answer in time is forgotten. *)
ClientTimeout ==
    /\ open /\ pending.kind \in {"sync", "chat", "history"}
    /\ pending' = NoRequest
    /\ UNCHANGED <<log, retained, open, server, chatOut, run, writer, handler, requests, client, sent, excused>>

-----------------------------------------------------------------------------
ChatLoopStep ==
    \/ ChatWake \/ ChatBegin \/ ReadBoundary \/ ReadPage \/ EmitHistory \/ Ready
    \/ EmitLive \/ ChatPush \/ ReportFailure \/ ChatCanceled

WriteLoopStep == WriteControl \/ NoControl \/ WriteChat

HandlerStep == HistoryRead \/ HistoryPush \/ HistoryFails \/ ChatPublished

Next ==
    \/ \E c \in Channels : Publish(c) \/ Evict(c) \/ MovedByOther(c)
    \/ HandleMove \/ HandleAccount \/ HandleSync \/ HandleChat \/ HandleHistory
    \/ Refuse \/ HandlerStep
    \/ ChatLoopStep \/ ChatStall \/ StorageFails
    \/ WriteLoopStep \/ ConnectionEnds
    \/ \E kind \in {"move", "account", "sync", "chat"}, c \in Channels : ClientCommand(kind, c)
    \/ ClientHistory \/ ClientTimeout

Fairness ==
    /\ WF_vars(ChatLoopStep) /\ WF_vars(WriteLoopStep)
    /\ WF_vars(HandlerStep)

Spec == Init /\ [][Next]_vars /\ Fairness

-----------------------------------------------------------------------------
Places == [channel : Channels, epoch : 1 .. MaxEpoch, generation : 1 .. MaxGeneration]

(* Types, queue capacities, and one command at a time at the server. *)
TypeOK ==
    /\ Len(log) <= MaxMessages /\ retained \subseteq 1 .. Len(log)
    /\ peer \in Places /\ run.at \in Places
    /\ Len(out) <= OutSlots /\ Len(chatOut) <= ChatSlots
    /\ {open, wake} \subseteq BOOLEAN /\ writer \in {"first", "second"}
    /\ handler.pc \in {"idle", "publish", "page", "push"}
    /\ client.channel \in Channels /\ client.epoch \in 1 .. peer.epoch
    /\ Cardinality(client.shown) <= MaxShown /\ sent \in 0 .. MaxRequest
    /\ client.shown \subseteq 1 .. Len(log)

(* Whatever moves, reloads, cancellations and late pages happen, the client   *)
(* never meets a frame its Driver rejects as InvalidState: an epoch that      *)
(* decreases, or a message of the current epoch from another channel. So a    *)
(* late frame of an old channel can neither be shown nor end the session.     *)
NeverInvalid == ~client.invalid

(* The messages the client should show: stored ones of its channel from its   *)
(* history cursor on, less those its cache limit dropped.                     *)
Due == {s \in Stored(client.channel) :
           s >= client.status.before /\ (client.limited => s >= Min(client.shown))}

(* readPage: history and live delivery meet without a gap. Once the client    *)
(* shows a ready chat, it has every stored message between its cursor and the *)
(* newest it has.                                                             *)
GapFree ==
    client.status.status = 1 =>
        \A s \in Due : s <= Max(client.shown \cup {client.status.before}) => s \in client.shown

(* The same, as long as no chat frame was taken from its queue while control  *)
(* frames were waiting in theirs, and no report of a failure was dropped.     *)
GapFreeUnlessExcused == excused = {} => GapFree

(* chatCommand stores a message in the channel its author wrote it for, even  *)
(* when the author is moved before it is stored.                              *)
StoredWhereMeant == \A s \in 1 .. Len(log) : log[s].channel = log[s].meant

(* A client that has been told of a failure, or shows the latest generation   *)
(* with every message it should.                                              *)
Settled ==
    \/ client.status.status = 2
    \/ /\ client.status.status = 1 /\ client.status.generation = peer.generation
       /\ Due \subseteq client.shown

(* When moves, reloads and publications cease, the chat comes to rest with    *)
(* the client up to date or told of the failure: no wake-up, cancellation or  *)
(* status is lost. Behaviours with a known flaw are excused.                  *)
ChatSettles == <>[](~open \/ excused # {} \/ Settled)

=============================================================================

--------------------------- MODULE ServerResources ---------------------------
(***************************************************************************)
(* The server's authoritative resources: one record in a NATS KV bucket    *)
(* (store.go), written by compare-and-set, cached in Store, projected into *)
(* Server by writers and by the informer (server.go applyResources), and   *)
(* read by admission, moves and moderation (server.go, channels.go,        *)
(* channel_access.go, admin_members.go, admin_settings.go).                *)
(*                                                                         *)
(* The bucket is the sequence of its revisions.  Server.mu is held within  *)
(* a step; channelMu and the store's update gate are held across steps.    *)
(* Names, descriptions, bitrates, order and chat retention are left out.   *)
(***************************************************************************)
EXTENDS ConnectionPassword, Sequences, FiniteSets

CONSTANTS Admins,    \* the admins when the server starts
          Limits,    \* values MaxClients may be set to
          Tries,     \* attempts of an update: 3 in the code
          MaxEvents, \* bound: requests, arrivals, moves, restarts and foreign writes
          MaxLost    \* bound: unanswered revisions up to a foreign write

ASSUME ResourceAssumption ==
    /\ IsFiniteSet(Members) /\ Admins \subseteq Members
    /\ Limits \subseteq Nat \ {0} /\ Tries \in Nat \ {0}
    /\ MaxEvents \in Nat /\ MaxLost \in Nat

VARIABLES log,        \* the bucket: every revision
          cache,      \* Store.revision; the record cached is log[cache]
          view,       \* Server.resourceRevision
          watched,    \* the informer: last revision received
          informer,   \* the revision it is applying, 0 = none
          writer,     \* the two kinds of writers, one of each at a time
          channelMu, updateGate,
          deleting,   \* Server.deletingChannel
          pending,    \* Server.pendingMaxClients
          where,      \* member.Channel of each peer, 0 = not admitted
          temporary,  \* peer.temporaryChannel
          stopped,    \* why Serve ended
          lost,       \* history: revisions no writer here got an answer for
          events      \* history: for the bound

storeState == <<log, cache, writer, channelMu, updateGate, deleting, pending, lost>>
projection == <<view, watched, informer, stopped>>
members == <<where, temporary>>
vars == <<passwords, storeState, projection, members, events>>

Writers == {"console", "roles"}

Default == 1

NoWriter == [at |-> "idle", op |-> [kind |-> "none", arg |-> 0], base |-> 0, tries |-> 0]

First == [channels |-> {1, 2}, private |-> {2}, next |-> 3, admins |-> Admins,
          max |-> Cardinality(Members)]

Init ==
    /\ PasswordInit
    /\ log = <<First>> /\ cache = 1 /\ view = 0 /\ watched = 0 /\ informer = 0
    /\ writer = [w \in Writers |-> NoWriter] /\ channelMu = "free" /\ updateGate = "free"
    /\ deleting = 0 /\ pending = 0
    /\ where = [m \in Members |-> 0] /\ temporary = where
    /\ stopped = "no" /\ lost = {} /\ events = 0

Event == events < MaxEvents /\ events' = events + 1

Record == log[cache]

Latest == Len(log)

Larger(a, b) == IF a < b THEN b ELSE a

Up == stopped = "no"

Peers == {m \in Members : where[m] # 0}

\* canEnterChannel
CanEnter(r, m, c) == c \in r.private => m \in r.admins \/ temporary[m] = c

\* enforceChannelAccessLocked: whoever may not stay goes to the default channel.
Enforced(r) ==
    LET evicted == {m \in Peers : ~(where[m] \in r.channels /\ CanEnter(r, m, where[m]))} IN
    /\ where' = [m \in Members |-> IF m \in evicted THEN Default ELSE where[m]]
    /\ temporary' = [m \in Members |-> IF m \in evicted THEN 0 ELSE temporary[m]]

-----------------------------------------------------------------------------
(* Writers: mutateChannelAt, SetSettings and SetRole around updateAtContext *)

Operations(w) ==
    IF w = "roles" THEN [kind : {"role"}, arg : Members]
    ELSE {[kind |-> "create", arg |-> 0]} \cup [kind : {"private", "delete"}, arg : {2}]
         \cup [kind : {"limit"}, arg : Limits]

Begin(w, op) ==
    /\ Up /\ writer[w].at = "idle"
    /\ w = "console" => channelMu = "free"
    /\ channelMu' = IF w = "console" THEN w ELSE channelMu
    /\ writer' = [writer EXCEPT ![w] = [NoWriter EXCEPT !.at = "read", !.op = op]]
    /\ UNCHANGED <<passwords, log, cache, updateGate, deleting, pending, lost, projection, members>>

\* What the draft function refuses.
Refused(op, r) ==
    \/ op.kind \in {"private", "delete"} /\ op.arg \notin r.channels
    \/ op.kind = "delete" /\ \E m \in Peers : where[m] = op.arg
    \/ op.kind = "limit" /\ op.arg < Cardinality(Peers)

\* The record with the operation done: private and role are toggled.
Flip(S, x) == IF x \in S THEN S \ {x} ELSE S \cup {x}

Draft(op, r) ==
    CASE op.kind = "create"  -> [r EXCEPT !.channels = @ \cup {r.next}, !.next = @ + 1]
      [] op.kind = "delete"  -> [r EXCEPT !.channels = @ \ {op.arg}, !.private = @ \ {op.arg}]
      [] op.kind = "private" -> [r EXCEPT !.private = Flip(@, op.arg)]
      [] op.kind = "limit"   -> [r EXCEPT !.max = op.arg]
      [] op.kind = "role"    -> [r EXCEPT !.admins = Flip(@, op.arg)]

\* Get and the draft function, which runs under Server.mu and announces a
\* deletion or a lower limit before anything is written.
Read(w) ==
    LET op == writer[w].op
        refuse == Refused(op, log[Latest])
    IN
    /\ Up /\ writer[w].at = "read" /\ updateGate \in {"free", w}
    /\ cache' = Latest
    /\ updateGate' = IF refuse THEN "free" ELSE w
    /\ deleting' = IF op.kind = "delete" /\ ~refuse THEN op.arg ELSE deleting
    /\ pending' = IF op.kind = "limit" /\ ~refuse THEN op.arg ELSE pending
    /\ writer' = [writer EXCEPT ![w].at = IF refuse THEN "failed" ELSE "write", ![w].base = Latest]
    /\ UNCHANGED <<passwords, log, channelMu, lost, projection, members>>

\* Another try if someone else wrote, at most Tries of them.
Conflict(w) ==
    LET again == writer[w].tries + 1 < Tries IN
    /\ Up /\ writer[w].at = "write" /\ writer[w].base # Latest
    /\ writer' = [writer EXCEPT ![w].at = IF again THEN "read" ELSE "failed", ![w].tries = @ + 1]
    /\ updateGate' = IF again THEN w ELSE "free"
    /\ UNCHANGED <<passwords, log, cache, channelMu, deleting, pending, lost, projection, members>>

\* The compare-and-set succeeds; its answer arrives or is lost.
Commit(w) ==
    /\ Up /\ writer[w].at = "write" /\ writer[w].base = Latest
    /\ log' = Append(log, Draft(writer[w].op, log[Latest]))
    /\ updateGate' = "free"
    /\ \/ cache' = Latest + 1 /\ lost' = lost
          /\ writer' = [writer EXCEPT ![w].at = "done"]
       \/ cache' = cache /\ lost' = lost \cup {Latest + 1}
          /\ writer' = [writer EXCEPT ![w].at = "failed"]
    /\ UNCHANGED <<passwords, channelMu, deleting, pending, projection, members>>

\* A request that is never served, or runs out of its 2 s.
WriteFails(w) ==
    /\ Up /\ writer[w].at \in {"read", "write"} /\ updateGate \in {"free", w}
    /\ writer' = [writer EXCEPT ![w].at = "failed"] /\ updateGate' = "free"
    /\ UNCHANGED <<passwords, log, cache, channelMu, deleting, pending, lost, projection, members>>

Returns(w) ==
    /\ writer' = [writer EXCEPT ![w] = NoWriter]
    /\ channelMu' = IF w = "console" THEN "free" ELSE channelMu
    /\ deleting' = IF w = "console" THEN 0 ELSE deleting
    /\ pending' = IF w = "console" THEN 0 ELSE pending
    /\ UNCHANGED <<passwords, log, cache, updateGate, lost, watched, informer, stopped>>

\* Slip: the channels are projected without enforcing access; the informer
\* will skip the revision.
SucceedsUnenforced(w) ==
    /\ Up /\ writer[w].at = "done" /\ Returns(w)
    /\ view' = IF w = "console" /\ writer[w].op.kind # "limit" THEN cache ELSE view
    /\ IF w = "roles" THEN Enforced(Record) ELSE UNCHANGED members

\* A channel is projected from the newest cache and a role enforced; a limit
\* only returns, admission reads it from the cache.
Succeeds(w) ==
    /\ Up /\ writer[w].at = "done" /\ Returns(w)
    /\ view' = IF w = "console" /\ writer[w].op.kind # "limit" THEN cache ELSE view
    /\ IF writer[w].op.kind = "limit" THEN UNCHANGED members ELSE Enforced(Record)

Fails(w) ==
    /\ Up /\ writer[w].at = "failed" /\ Returns(w)
    /\ UNCHANGED <<view, members>>

\* Another process with access to the bucket: any of the operations, without
\* a look at the members here.
WriteElsewhere(op) ==
    /\ Up /\ Cardinality(lost) < MaxLost
    /\ op.kind \in {"private", "delete"} => op.arg \in log[Latest].channels
    /\ log' = Append(log, Draft(op, log[Latest])) /\ lost' = lost \cup {Latest + 1}
    /\ UNCHANGED <<passwords, cache, writer, channelMu, updateGate, deleting, pending,
                   projection, members>>

-----------------------------------------------------------------------------
(* The informer: Store.watch and applyResources *)

\* A revision arrives; one that a writer has projected already is skipped.
Receive(rev) ==
    /\ Up /\ informer = 0 /\ channelMu = "free" /\ rev \in watched + 1 .. Latest
    /\ watched' = rev
    /\ IF rev <= view
       THEN UNCHANGED <<cache, informer, channelMu>>
       ELSE /\ cache' = Larger(cache, rev)
            /\ informer' = cache' /\ channelMu' = "informer"
    /\ UNCHANGED <<passwords, log, writer, updateGate, deleting, pending, lost, view, stopped,
                   members>>

Applied ==
    /\ informer' = 0 /\ channelMu' = "free"
    /\ UNCHANGED <<passwords, log, cache, writer, updateGate, deleting, pending, lost, watched>>

\* After the retention of chats is set, without the lock: the revision is
\* projected, unless a member is in a channel it removes.
Project ==
    /\ Up /\ informer # 0 /\ Applied
    /\ IF \A m \in Peers : where[m] \in log[informer].channels
       THEN view' = informer /\ stopped' = stopped /\ Enforced(log[informer])
       ELSE stopped' = "occupied" /\ UNCHANGED <<view, members>>

RetentionFails ==
    /\ Up /\ informer # 0 /\ Applied
    /\ stopped' = "retention" /\ UNCHANGED <<view, members>>

\* The process ends, by itself or not, and is started again.
Restart ==
    /\ stopped' = "no" /\ view' = 0 /\ watched' = 0 /\ informer' = 0
    /\ cache' = Latest /\ log' = log /\ lost' = {}
    /\ writer' = [w \in Writers |-> NoWriter] /\ channelMu' = "free" /\ updateGate' = "free"
    /\ deleting' = 0 /\ pending' = 0
    /\ where' = [m \in Members |-> 0] /\ temporary' = where'
    /\ published' = stored /\ setter' = NoSetter /\ stored' = stored
    /\ auth' = [m \in Members |-> 0]

-----------------------------------------------------------------------------
(* Members: admission, moves, moderation *)

\* Slip: the password is not looked at again.
AdmitStale(m) ==
    /\ Up /\ auth[m] # 0 /\ where[m] = 0 /\ auth' = auth
    /\ Cardinality(Peers) < (IF pending # 0 /\ pending < Record.max THEN pending ELSE Record.max)
    /\ where' = [where EXCEPT ![m] = Default]
    /\ UNCHANGED <<stored, published, setter, storeState, projection, temporary>>

\* Slip: a limit being lowered is not looked at.
AdmitAboveLimit(m) ==
    /\ Up /\ auth[m] # 0 /\ where[m] = 0
    /\ IF auth[m] = published /\ Cardinality(Peers) < Record.max
       THEN where' = [where EXCEPT ![m] = Default] /\ UNCHANGED auth
       ELSE auth' = [auth EXCEPT ![m] = 0] /\ UNCHANGED where
    /\ UNCHANGED <<stored, published, setter, storeState, projection, temporary>>

\* The end of servePeer's admission, under Server.mu.
Admit(m) ==
    LET limit == IF pending # 0 /\ pending < Record.max THEN pending ELSE Record.max IN
    /\ Up /\ auth[m] # 0 /\ where[m] = 0
    /\ IF auth[m] = published /\ Cardinality(Peers) < limit
       THEN where' = [where EXCEPT ![m] = Default] /\ UNCHANGED auth
       ELSE auth' = [auth EXCEPT ![m] = 0] /\ UNCHANGED where
    /\ UNCHANGED <<stored, published, setter, storeState, projection, temporary>>

Leave(m) ==
    /\ Up /\ where[m] # 0
    /\ where' = [where EXCEPT ![m] = 0] /\ temporary' = [temporary EXCEPT ![m] = 0]
    /\ auth' = [auth EXCEPT ![m] = 0]
    /\ UNCHANGED <<stored, published, setter, storeState, projection>>

\* movePeerLocked
MovePeer(m, c, temp) ==
    /\ where' = [where EXCEPT ![m] = c]
    /\ temporary' = [temporary EXCEPT ![m] = IF temp THEN c ELSE 0]
    /\ UNCHANGED <<passwords, storeState, projection>>

\* Slip: the channel being deleted may still be entered.
MoveIntoDeleting(m, c) ==
    /\ Up /\ m \in Peers /\ where[m] # c
    /\ c \in Record.channels /\ CanEnter(Record, m, c)
    /\ MovePeer(m, c, FALSE)

\* The member's own Move.
Move(m, c) ==
    /\ Up /\ m \in Peers /\ where[m] # c
    /\ c \in Record.channels /\ c # deleting /\ CanEnter(Record, m, c)
    /\ MovePeer(m, c, FALSE)

\* moderateMember: a move by another; into a private channel only with an
\* admin there.
Moderate(m, c) ==
    LET temp == c \in Record.private /\ m \notin Record.admins IN
    /\ Up /\ channelMu = "free" /\ m \in Peers /\ where[m] # c /\ c \in Record.channels
    /\ temp => \E n \in Record.admins : where[n] = c
    /\ MovePeer(m, c, temp)

-----------------------------------------------------------------------------
Update(w) ==
    Read(w) \/ Conflict(w) \/ Commit(w) \/ WriteFails(w) \/ Succeeds(w) \/ Fails(w)

Inform == (\E rev \in 1 .. Latest : Receive(rev)) \/ Project \/ RetentionFails

Password(A) == Up /\ A /\ UNCHANGED <<storeState, projection, members>>

\* What comes from outside.
Asked ==
    \/ \E w \in Writers : \E op \in Operations(w) : Begin(w, op)
    \/ \E w \in Writers : \E op \in Operations(w) : WriteElsewhere(op)
    \/ Restart \/ Password(SetPassword)
    \/ \E m \in Members : Password(Authenticate(m)) \/ Leave(m)
    \/ \E m \in Members, c \in Record.channels : Move(m, c) \/ Moderate(m, c)

\* What the server does about it.
Serves ==
    \/ \E w \in Writers : Update(w)
    \/ Inform \/ Password(Replacing)
    \/ \E m \in Members : Admit(m)

Next == (Event /\ Asked) \/ (Serves /\ UNCHANGED events)

Spec == Init /\ [][Next]_vars

-----------------------------------------------------------------------------
(* Properties *)

Channel == 0 .. MaxEvents + 2

\* Every variable has its type; the locks and their holders agree.
TypeOK ==
    /\ cache \in 1 .. Latest /\ view \in 0 .. cache /\ watched \in 0 .. Latest
    /\ informer \in 0 .. cache /\ (informer # 0) = (channelMu = "informer")
    /\ (channelMu = "console") = (writer["console"].at # "idle")
    /\ deleting \in Channel /\ pending \in {0} \cup Limits
    /\ where \in [Members -> Channel] /\ temporary \in [Members -> Channel]
    /\ published \in 0 .. stored /\ auth \in [Members -> 0 .. stored]

\* A member is in a channel the cached record has, through deletions, retries
\* and moves, unless the channel was deleted by a write whose answer was lost
\* or by another process.
\* The informer stops the server for an occupied channel only in that case, or
\* when the cache moved on, to a record with that channel, while it was setting
\* the retention for an older one.
OrphanedOnlyByLostAnswer ==
    LET gone(c) == \E rev \in lost : c \in log[rev - 1].channels \ log[rev].channels IN
    /\ \A m \in Peers : where[m] \notin Record.channels => gone(where[m])
    /\ stopped = "occupied" =>
           \E m \in Peers : gone(where[m]) \/ where[m] \in Record.channels

\* A member in a channel the cached record does not let it enter is there only
\* while an enforcement is still to come: a writer's, or the informer's.
AccessEnforced ==
    Up /\ (\E m \in Peers : ~CanEnter(Record, m, where[m])) =>
        \/ \E w \in Writers : writer[w].at = "done"
        \/ informer # 0 \/ (watched < Latest /\ view < Latest)

\* There are never more members than the cached limit, although the limit is
\* lowered while connections come in, unless its answer was lost or another
\* process lowered it.
WithinLimit ==
    Cardinality(Peers) > Record.max =>
        \E rev \in lost : log[rev].max < log[rev - 1].max

\* "Admission and password publication share this short critical section": a
\* connection that knew only an earlier password is admitted at most while the
\* change to the stored one has not returned; not after an answer was lost.
AdmittedKnowsPassword ==
    [][\A m \in Members : where[m] = 0 /\ where'[m] # 0 =>
           auth[m] = stored \/ setter.at # "idle"]_vars
=============================================================================

-------------------------- MODULE ChatDeliveryProofs --------------------------
(***************************************************************************)
(* Proofs about channel chat for any channels, any bounds, any number of   *)
(* moves, reloads, publications and commands, and queues of any capacity.  *)
(***************************************************************************)
EXTENDS ChatDelivery, SequenceTheorems, FiniteSetTheorems, WellFoundedInduction, TLAPS

Spots == [channel : Channels, epoch : Nat, generation : Nat]

Requests == [kind : {"none", "move", "account", "sync", "chat", "history"}, id : Nat, channel : Channels,
             epoch : Nat, generation : Nat, before : Nat]

Pages == [msgs : SUBSET Nat, next : Nat, more : BOOLEAN]

States == [kind : {"state"}, channel : Channels, epoch : Nat]

Statuses == [kind : {"status"}, channel : Channels, epoch : Nat, generation : Nat,
             status : Nat, before : Nat, more : BOOLEAN]

Replies == [kind : {"reply"}, id : Nat]

Messages == [kind : {"message"}, seq : Nat, epoch : Nat]

PageFrames == [kind : {"page"}, req : Requests, page : Pages]

Controls == States \cup Statuses \cup Replies

Items == Messages \cup Statuses

Chats == Items \cup PageFrames

Runs == [pc : {"idle", "begin", "boundary", "page", "history", "live", "failed", "pushHistory",
               "pushReady", "pushLive", "pushFailed"},
         at : Spots, canceled : BOOLEAN, page : Pages, todo : SUBSET Nat, position : Nat,
         item : Items]

Handlers == [pc : {"idle", "publish", "page", "push"}, req : Requests, channel : Channels,
             page : Pages]

Clients == [channel : Channels, epoch : Nat, shown : SUBSET Nat, limited : BOOLEAN,
            status : Statuses, invalid : BOOLEAN]

TypeInv ==
    /\ log \in Seq([channel : Channels, meant : Channels]) /\ retained \in SUBSET (1 .. Len(log))
    /\ peer \in Spots /\ out \in Seq(Controls) /\ chatOut \in Seq(Chats)
    /\ run \in Runs /\ handler \in Handlers /\ requests \in Seq(Requests)
    /\ client \in Clients /\ pending \in Requests /\ sent \in Nat

(* A stored message of a channel.                                          *)
Of(s, c) == s \in 1 .. Len(log) /\ log[s].channel = c

(* An epoch has one channel, Chan[epoch]: whoever names both agrees.       *)
PlaceInv(Chan) ==
    /\ Chan[1] = Home /\ 1 <= peer.epoch
    /\ Chan[peer.epoch] = peer.channel
    /\ run.at.epoch <= peer.epoch /\ Chan[run.at.epoch] = run.at.channel
    /\ client.epoch <= peer.epoch /\ Chan[client.epoch] = client.channel

(* The states on their way to the client are newer than what it has, and   *)
(* each is newer than the one before it.                                   *)
StateInv(Chan) ==
    /\ \A i \in 1 .. Len(out) : out[i].kind = "state" =>
          /\ client.epoch < out[i].epoch /\ out[i].epoch <= peer.epoch
          /\ Chan[out[i].epoch] = out[i].channel
    /\ \A i, j \in 1 .. Len(out) : i < j /\ out[i].kind = "state" /\ out[j].kind = "state" =>
          out[i].epoch < out[j].epoch

(* A message is of the channel of the epoch it is sent for.                *)
RightEpoch(Chan, f) ==
    f.kind = "message" => f.epoch <= peer.epoch /\ Of(f.seq, Chan[f.epoch])

(* A page holds what was asked for.                                        *)
Asked(msgs, req) == \A s \in msgs : Of(s, req.channel) /\ s < req.before

FrameInv(Chan) ==
    /\ \A i \in 1 .. Len(chatOut) : RightEpoch(Chan, chatOut[i])
    /\ RightEpoch(Chan, run.item)

PageInv ==
    /\ \A i \in 1 .. Len(chatOut) : chatOut[i].kind = "page" =>
          Asked(chatOut[i].page.msgs, chatOut[i].req)
    /\ handler.pc = "push" => Asked(handler.page.msgs, handler.req)

(* What the run has still to send is of its channel.                       *)
RunInv ==
    /\ \A s \in run.todo : Of(s, run.at.channel)
    /\ run.pc \in {"pushHistory", "pushLive"} => run.item.kind = "message"

HandlerInv == handler.pc = "publish" => handler.channel = handler.req.channel

(* The client shows messages of its channel only.                          *)
ShownHere == \A s \in client.shown : Of(s, client.channel)

EpochInv(Chan) == PlaceInv(Chan) /\ StateInv(Chan) /\ FrameInv(Chan)

Inv ==
    /\ TypeInv /\ PageInv /\ RunInv /\ HandlerInv /\ ShownHere
    /\ NeverInvalid /\ StoredWhereMeant
    /\ \E Chan \in [Nat -> Channels] : EpochInv(Chan)
-----------------------------------------------------------------------------
(* Facts about the operators the model is built from.                      *)

LEMMA LeastExists ==
    ASSUME NEW S \in SUBSET Nat, S # {}
    PROVE  \E x \in S : \A y \in S : x <= y
<1> DEFINE R == OpToRel(<, Nat)
<1>1. IsWellFoundedOn(R, Nat)
  BY NatLessThanWellFounded
<1>2. \A x, y \in Nat : y < x => <<y, x>> \in R
  BY DEF OpToRel
<1> HIDE DEF R
<1>3. PICK x \in S : \A y \in S : ~(<<y, x>> \in R)
  BY <1>1, WFMin
<1>4. \A y \in S : ~(y < x) /\ y \in Nat /\ x \in Nat
  BY <1>2, <1>3
<1>5. \A y \in S : x <= y
  BY <1>4
<1> QED
  BY <1>5

LEMMA MinFacts ==
    ASSUME NEW S \in SUBSET Nat, S # {}
    PROVE  Min(S) \in S /\ \A y \in S : Min(S) <= y
BY LeastExists DEF Min

LEMMA MaxFacts ==
    ASSUME NEW n \in Nat, NEW S \in SUBSET (1 .. n), S # {}
    PROVE  Max(S) \in S /\ \A y \in S : y <= Max(S)
<1> DEFINE T == {t \in Nat : n - t \in S}
<1>1. \A y \in S : n - y \in T /\ n - (n - y) = y
  OBVIOUS
<1>2. PICK t \in T : \A u \in T : t <= u
  <2>1. T \in SUBSET Nat /\ T # {}
    BY <1>1
  <2> HIDE DEF T
  <2> QED
    BY <2>1, LeastExists
<1>3. n - t \in S /\ \A y \in S : n - t >= y
  BY <1>1, <1>2
<1> QED
  BY <1>3 DEF Max

(* A page is made of stored messages of the channel below the cursor.      *)
LEMMA PageFacts ==
    ASSUME TypeInv, NEW c \in Channels, NEW before \in Nat, NEW k \in Nat
    PROVE  /\ PageBelow(c, before, k) \in Pages
           /\ \A s \in PageBelow(c, before, k).msgs : Of(s, c) /\ s < before
<1> DEFINE older == {s \in Stored(c) : s < before}
           msgs == {s \in older : Cardinality({t \in older : t >= s}) <= k}
<1>1. Stored(c) \subseteq Nat /\ \A s \in Stored(c) : Of(s, c)
  <2>1. Len(log) \in Nat
    BY LenProperties DEF TypeInv
  <2>2. retained \in SUBSET (1 .. Len(log))
    BY DEF TypeInv
  <2>3. \A s \in Stored(c) : s \in 1 .. Len(log) /\ log[s].channel = c
    BY <2>2 DEF Stored
  <2> QED
    BY <2>1, <2>3 DEF Of
<1>2. PageBelow(c, before, k) = [msgs |-> msgs, next |-> IF msgs = {} THEN 0 ELSE Min(msgs),
                                 more |-> msgs # older]
  BY DEF PageBelow
<1>3. msgs \in SUBSET Nat /\ \A s \in msgs : Of(s, c) /\ s < before
  BY <1>1
<1> DEFINE next == IF msgs = {} THEN 0 ELSE Min(msgs)
           more == msgs # older
<1> HIDE DEF msgs, older
<1>4. next \in Nat /\ more \in BOOLEAN
  BY <1>3, MinFacts
<1> HIDE DEF next, more
<1>5. PageBelow(c, before, k) = [msgs |-> msgs, next |-> next, more |-> more]
  BY <1>2 DEF next, more
<1>6. PageBelow(c, before, k).msgs = msgs
  BY <1>5
<1>7. PageBelow(c, before, k) \in Pages
  BY <1>3, <1>4, <1>5 DEF Pages
<1> QED
  BY <1>3, <1>6, <1>7

LEMMA EnqueueFacts ==
    ASSUME out \in Seq(Controls), NEW frames \in Seq(Controls), Enqueue(frames)
    PROVE  /\ out' \in Seq(Controls) /\ Len(out') <= Len(out) + Len(frames)
           /\ \A i \in 1 .. Len(out') :
                 out'[i] = IF i <= Len(out) THEN out[i] ELSE frames[i - Len(out)]
<1> DEFINE n == Min({Len(out) + Len(frames), OutSlots})
<1>1. Len(out) \in Nat /\ Len(frames) \in Nat /\ OutSlots \in Nat
  BY ChatAssumption, LenProperties
<1>2. n \in Nat /\ n <= Len(out) + Len(frames)
  <2>1. {Len(out) + Len(frames), OutSlots} \in SUBSET Nat /\ {Len(out) + Len(frames), OutSlots} # {}
    BY <1>1
  <2> QED
    BY <2>1, MinFacts
<1>3. out' = SubSeq(out \o frames, 1, n)
  BY DEF Enqueue
<1> HIDE DEF n
<1>4. \A i \in 1 .. Len(out) + Len(frames) :
          (out \o frames)[i] = IF i <= Len(out) THEN out[i] ELSE frames[i - Len(out)]
  BY ConcatProperties
<1>5. \A i \in 1 .. n : (out \o frames)[i] \in Controls
  BY <1>1, <1>2, <1>4, ElementOfSeq
<1>6. /\ out' \in Seq(Controls) /\ Len(out') = n
      /\ \A i \in 1 .. n : out'[i] = (out \o frames)[i]
  BY <1>2, <1>3, <1>5, SubSeqProperties
<1> QED
  BY <1>1, <1>2, <1>4, <1>6

LEMMA ConstantFacts ==
    /\ NewPeer \in Spots /\ EmptyPage \in Pages /\ NoStatus \in Statuses /\ NoRequest \in Requests
    /\ IdleRun \in Runs /\ IdleHandler \in Handlers /\ NewClient \in Clients
<1>1. /\ NewPeer \in Spots /\ EmptyPage \in Pages /\ NoStatus \in Statuses
      /\ NoRequest \in Requests
  BY ChatAssumption DEF NewPeer, Spots, EmptyPage, Pages, NoStatus, Statuses, NoRequest, Requests
<1>2. IdleRun \in Runs
  BY <1>1 DEF IdleRun, Runs, Items
<1>3. IdleHandler \in Handlers
  BY <1>1, ChatAssumption DEF IdleHandler, Handlers
<1>4. NewClient \in Clients
  BY <1>1, ChatAssumption DEF NewClient, Clients
<1> QED
  BY <1>1, <1>2, <1>3, <1>4

(* The stream only grows.                                                  *)
Grown ==
    /\ Len(log) \in Nat /\ Len(log') \in Nat /\ Len(log) <= Len(log')
    /\ \A s \in 1 .. Len(log) : log'[s] = log[s]

LEMMA OfGrown ==
    ASSUME Grown, NEW s, NEW c, Of(s, c)
    PROVE  s \in 1 .. Len(log') /\ log'[s].channel = c
BY DEF Grown, Of

LEMMA SameLog ==
    ASSUME TypeInv, UNCHANGED log
    PROVE  Grown
BY LenProperties DEF Grown, TypeInv

LEMMA Grows ==
    ASSUME TypeInv, NEW m \in [channel : Channels, meant : Channels],
           log' = Append(log, m), retained' = retained \cup {Len(log) + 1}
    PROVE  /\ Grown /\ log' \in Seq([channel : Channels, meant : Channels])
           /\ Len(log') = Len(log) + 1 /\ log'[Len(log) + 1] = m
           /\ retained' \in SUBSET (1 .. Len(log'))
<1> DEFINE S == [channel : Channels, meant : Channels]
<1>1. log \in Seq(S) /\ m \in S /\ retained \in SUBSET (1 .. Len(log))
  BY DEF TypeInv
<1> HIDE DEF S
<1>2. /\ Len(log) \in Nat /\ log' \in Seq(S) /\ Len(log') = Len(log) + 1
      /\ log'[Len(log) + 1] = m /\ \A s \in 1 .. Len(log) : log'[s] = log[s]
  BY <1>1
<1>3. retained' \in SUBSET (1 .. Len(log'))
  <2>1. \A s \in retained' : s \in 1 .. Len(log) \/ s = Len(log) + 1
    BY <1>1
  <2>2. \A s \in retained' : s \in 1 .. Len(log')
    BY <1>2, <2>1
  <2> QED
    BY <2>2
<1> QED
  BY <1>2, <1>3 DEF Grown, S

(* Steps that leave the member, the run and the client where they are, and *)
(* queue replies or a page that holds what was asked for.                  *)
LEMMA QueueStep ==
    ASSUME Inv, TypeInv', UNCHANGED <<peer, run, client>>, Grown,
           \A i \in 1 .. Len(out') :
               (i \in 1 .. Len(out) /\ out'[i] = out[i]) \/ out'[i].kind # "state",
           \A i \in 1 .. Len(chatOut') :
               \/ i \in 1 .. Len(chatOut) /\ chatOut'[i] = chatOut[i]
               \/ /\ chatOut'[i].kind = "page"
                  /\ \A s \in chatOut'[i].page.msgs : Of(s, chatOut'[i].req.channel)
                                                      /\ s < chatOut'[i].req.before,
           handler'.pc = "push" => \A s \in handler'.page.msgs : Of(s, handler'.req.channel)
                                                                  /\ s < handler'.req.before,
           HandlerInv', StoredWhereMeant'
    PROVE  Inv'
<1>1. PICK Chan \in [Nat -> Channels] : EpochInv(Chan)
  BY DEF Inv
<1>2. PlaceInv(Chan)'
  BY <1>1 DEF EpochInv, PlaceInv
<1>3. StateInv(Chan)'
  BY <1>1 DEF EpochInv, StateInv
<1>4. FrameInv(Chan)'
  <2>1. ASSUME NEW i \in 1 .. Len(chatOut'), chatOut'[i].kind = "message"
        PROVE  chatOut'[i].epoch <= peer'.epoch /\ Of(chatOut'[i].seq, Chan[chatOut'[i].epoch])
    BY <1>1, <2>1 DEF EpochInv, FrameInv, RightEpoch
  <2>2. run'.item.kind = "message" => run'.item.epoch <= peer'.epoch /\ Of(run'.item.seq, Chan[run'.item.epoch])
    BY <1>1 DEF EpochInv, FrameInv, RightEpoch
  <2> QED
    BY <2>1, <2>2, OfGrown DEF FrameInv, RightEpoch, Of
<1>5. PageInv'
  <2>1. ASSUME NEW i \in 1 .. Len(chatOut'), chatOut'[i].kind = "page",
               NEW s \in chatOut'[i].page.msgs
        PROVE  Of(s, chatOut'[i].req.channel) /\ s < chatOut'[i].req.before
    BY <2>1 DEF Inv, PageInv, Asked
  <2> QED
    BY <2>1, OfGrown DEF PageInv, Asked, Of
<1>6. RunInv'
  BY OfGrown DEF Inv, RunInv, Of
<1>7. ShownHere' /\ NeverInvalid'
  BY OfGrown DEF Inv, ShownHere, NeverInvalid, Of
<1> QED
  BY <1>1, <1>2, <1>3, <1>4, <1>5, <1>6, <1>7 DEF Inv, EpochInv

LEMMA LogFacts ==
    ASSUME TypeInv
    PROVE  /\ Len(log) \in Nat /\ Len(out) \in Nat /\ Len(chatOut) \in Nat
           /\ \A i \in 1 .. Len(out) : out[i] \in Controls
           /\ \A i \in 1 .. Len(chatOut) : chatOut[i] \in Chats
BY LenProperties, ElementOfSeq DEF TypeInv

LEMMA PublishInv == ASSUME Inv, NEW c \in Channels, Publish(c) PROVE Inv'
<1> DEFINE m == [channel |-> c, meant |-> c]
<1>1. /\ log' = Append(log, m) /\ retained' = retained \cup {Len(log) + 1}
      /\ UNCHANGED <<open, peer, out, wake, chatOut, run, handler, requests, client, pending, sent>>
  BY DEF Publish, server
<1>2. m \in [channel : Channels, meant : Channels] /\ m.channel = m.meant
  OBVIOUS
<1> HIDE DEF m
<1>3. /\ Grown /\ log' \in Seq([channel : Channels, meant : Channels])
      /\ Len(log') = Len(log) + 1 /\ log'[Len(log) + 1] = m
      /\ retained' \in SUBSET (1 .. Len(log'))
  BY <1>1, <1>2, Grows DEF Inv
<1>4. TypeInv'
  BY <1>1, <1>3 DEF Inv, TypeInv
<1>5. StoredWhereMeant'
  <2>1. ASSUME NEW s \in 1 .. Len(log') PROVE s \in 1 .. Len(log) \/ s = Len(log) + 1
    BY <1>3, LogFacts DEF Inv
  <2> QED
    BY <1>2, <1>3, <2>1 DEF Inv, StoredWhereMeant, Grown
<1>6. HandlerInv' /\ PageInv
  BY <1>1 DEF Inv, HandlerInv
<1> QED
  BY <1>1, <1>3, <1>4, <1>5, <1>6, QueueStep DEF PageInv, Asked

(* The rest of what does not touch the stream.                             *)
LEMMA QuietStep ==
    ASSUME Inv, TypeInv', UNCHANGED <<peer, run, client, log>>,
           \A i \in 1 .. Len(out') :
               (i \in 1 .. Len(out) /\ out'[i] = out[i]) \/ out'[i].kind # "state",
           chatOut' = chatOut \/ Len(chatOut') = 0, handler'.pc # "push" \/ handler' = handler, HandlerInv'
    PROVE  Inv'
<1>1. Grown /\ StoredWhereMeant'
  BY SameLog DEF Inv, StoredWhereMeant
<1>2. \A i \in 1 .. Len(chatOut') : i \in 1 .. Len(chatOut) /\ chatOut'[i] = chatOut[i]
  OBVIOUS
<1>3. handler'.pc = "push" => \A s \in handler'.page.msgs : Of(s, handler'.req.channel)
                                                             /\ s < handler'.req.before
  BY DEF Inv, PageInv, Asked
<1> QED
  BY <1>1, <1>2, <1>3, QueueStep

LEMMA EvictInv == ASSUME Inv, NEW c \in Channels, Evict(c) PROVE Inv'
<1>1. /\ retained' \subseteq retained
      /\ UNCHANGED <<log, peer, out, chatOut, run, handler, requests, client, pending, sent>>
  BY DEF Evict, server
<1>2. TypeInv'
  BY <1>1 DEF Inv, TypeInv
<1>3. HandlerInv'
  BY <1>1 DEF Inv, HandlerInv
<1> QED
  BY <1>1, <1>2, <1>3, QuietStep

LEMMA TakenFacts ==
    ASSUME TypeInv, requests # <<>>, Taken
    PROVE  Head(requests) \in Requests /\ requests' \in Seq(Requests)
BY HeadTailProperties DEF TypeInv, Taken

(* A reply is a control frame, and not a state.                            *)
LEMMA ReplyFacts ==
    ASSUME NEW req \in Requests
    PROVE  /\ ReplyTo(req) \in Controls /\ ReplyTo(req).kind = "reply"
           /\ <<ReplyTo(req)>> \in Seq(Controls) /\ Len(<<ReplyTo(req)>>) = 1
           /\ <<ReplyTo(req)>>[1] = ReplyTo(req)
<1>1. ReplyTo(req) \in Controls /\ ReplyTo(req).kind = "reply"
  BY DEF ReplyTo, Controls, Replies, Requests
<1> QED
  BY <1>1

LEMMA ReplyEnqueued ==
    ASSUME TypeInv, NEW req \in Requests, Enqueue(<<ReplyTo(req)>>)
    PROVE  /\ out' \in Seq(Controls)
           /\ \A i \in 1 .. Len(out') :
                 (i \in 1 .. Len(out) /\ out'[i] = out[i]) \/ out'[i].kind # "state"
<1> DEFINE frames == <<ReplyTo(req)>>
<1>1. frames \in Seq(Controls) /\ Len(frames) = 1 /\ frames[1].kind = "reply"
  BY ReplyFacts
<1>2. Enqueue(frames) /\ out \in Seq(Controls) /\ Len(out) \in Nat
  BY LogFacts DEF TypeInv
<1> HIDE DEF frames
<1>3. /\ out' \in Seq(Controls) /\ Len(out') <= Len(out) + 1 /\ Len(out') \in Nat
      /\ \A i \in 1 .. Len(out') :
            out'[i] = IF i <= Len(out) THEN out[i] ELSE frames[i - Len(out)]
  BY <1>1, <1>2, EnqueueFacts, LenProperties
<1>4. ASSUME NEW i \in 1 .. Len(out')
      PROVE  (i \in 1 .. Len(out) /\ out'[i] = out[i]) \/ out'[i].kind # "state"
  <2>1. i \in 1 .. Len(out) \/ i - Len(out) = 1
    BY <1>2, <1>3
  <2> QED
    BY <1>1, <1>2, <1>3, <2>1
<1> QED
  BY <1>3, <1>4

LEMMA RefuseInv == ASSUME Inv, Refuse PROVE Inv'
<1>1. /\ requests # <<>> /\ Taken /\ Enqueue(<<ReplyTo(Head(requests))>>)
      /\ UNCHANGED <<log, retained, peer, chatOut, run, handler, client, pending, sent>>
  BY DEF Refuse
<1>2. Head(requests) \in Requests /\ requests' \in Seq(Requests)
  BY <1>1, TakenFacts DEF Inv
<1>3. /\ out' \in Seq(Controls)
      /\ \A i \in 1 .. Len(out') :
            (i \in 1 .. Len(out) /\ out'[i] = out[i]) \/ out'[i].kind # "state"
  BY <1>1, <1>2, ReplyEnqueued DEF Inv
<1>4. TypeInv' /\ HandlerInv'
  BY <1>1, <1>2, <1>3 DEF Inv, TypeInv, HandlerInv
<1> QED
  BY <1>1, <1>3, <1>4, QuietStep

LEMMA HistoryFailsInv == ASSUME Inv, HistoryFails PROVE Inv'
<1>1. /\ handler' = IdleHandler /\ Enqueue(<<ReplyTo(handler.req)>>)
      /\ UNCHANGED <<log, retained, peer, chatOut, run, requests, client, pending, sent>>
  BY DEF HistoryFails
<1>2. handler.req \in Requests
  BY DEF Inv, TypeInv, Handlers
<1>3. /\ out' \in Seq(Controls)
      /\ \A i \in 1 .. Len(out') :
            (i \in 1 .. Len(out) /\ out'[i] = out[i]) \/ out'[i].kind # "state"
  BY <1>1, <1>2, ReplyEnqueued DEF Inv
<1>4. handler' \in Handlers /\ handler'.pc = "idle"
  BY <1>1, ConstantFacts DEF IdleHandler
<1>5. TypeInv' /\ HandlerInv'
  BY <1>1, <1>3, <1>4 DEF Inv, TypeInv, HandlerInv
<1> QED
  BY <1>1, <1>3, <1>4, <1>5, QuietStep

(* The message goes where its author wrote it for: chatCommand has kept    *)
(* the channel it checked.                                                 *)
LEMMA ChatPublishedInv == ASSUME Inv, ChatPublished PROVE Inv'
<1>1. /\ handler.pc = "publish" /\ handler' = IdleHandler /\ Enqueue(<<ReplyTo(handler.req)>>)
      /\ \/ log' = Append(log, ChatMessage) /\ retained' = retained \cup {Len(log) + 1}
         \/ UNCHANGED <<log, retained>>
      /\ UNCHANGED <<peer, chatOut, run, requests, client, pending, sent>>
  BY DEF ChatPublished
<1>2. handler.req \in Requests /\ handler.channel \in Channels /\ handler.channel = handler.req.channel
  BY <1>1 DEF Inv, TypeInv, Handlers, HandlerInv
<1>3. /\ out' \in Seq(Controls)
      /\ \A i \in 1 .. Len(out') :
            (i \in 1 .. Len(out) /\ out'[i] = out[i]) \/ out'[i].kind # "state"
  BY <1>1, <1>2, ReplyEnqueued DEF Inv
<1>4. handler' \in Handlers /\ handler'.pc = "idle"
  BY <1>1, ConstantFacts DEF IdleHandler
<1>5. CASE UNCHANGED <<log, retained>>
  <2>1. TypeInv' /\ HandlerInv'
    BY <1>1, <1>3, <1>4, <1>5 DEF Inv, TypeInv, HandlerInv
  <2> QED
    BY <1>1, <1>3, <1>4, <1>5, <2>1, QuietStep
<1>6. CASE log' = Append(log, ChatMessage) /\ retained' = retained \cup {Len(log) + 1}
  <2>1. /\ ChatMessage \in [channel : Channels, meant : Channels]
        /\ ChatMessage.channel = ChatMessage.meant
    BY <1>2 DEF ChatMessage, Requests
  <2>2. /\ Grown /\ log' \in Seq([channel : Channels, meant : Channels])
        /\ Len(log') = Len(log) + 1 /\ log'[Len(log) + 1] = ChatMessage
        /\ retained' \in SUBSET (1 .. Len(log'))
    BY <1>6, <2>1, Grows DEF Inv
  <2>3. TypeInv' /\ HandlerInv'
    BY <1>1, <1>3, <1>4, <2>2 DEF Inv, TypeInv, HandlerInv
  <2>4. StoredWhereMeant'
    <3>1. ASSUME NEW s \in 1 .. Len(log') PROVE s \in 1 .. Len(log) \/ s = Len(log) + 1
      BY <2>2, LogFacts DEF Inv
    <3> QED
      BY <2>1, <2>2, <3>1 DEF Inv, StoredWhereMeant, Grown
  <2> QED
    BY <1>1, <1>3, <1>4, <2>2, <2>3, <2>4, QueueStep
<1> QED
  BY <1>1, <1>5, <1>6

LEMMA HandleInv == ASSUME Inv, HandleChat \/ HandleHistory PROVE Inv'
<1> DEFINE req == Head(requests)
<1>1. /\ requests # <<>> /\ Taken
      /\ UNCHANGED <<log, retained, peer, out, chatOut, run, client, pending, sent>>
  BY DEF HandleChat, HandleHistory, Takes, server
<1>2. req \in Requests /\ requests' \in Seq(Requests)
  BY <1>1, TakenFacts DEF Inv
<1>3. handler' \in Handlers /\ handler'.pc # "push" /\ HandlerInv'
  <2> HIDE DEF req
  <2>1. CASE handler' = [IdleHandler EXCEPT !.pc = "publish", !.req = req, !.channel = peer.channel]
             /\ req.channel = peer.channel
    <3>1. peer.channel \in Channels
      BY DEF Inv, TypeInv, Spots
    <3>2. handler' \in Handlers /\ handler'.pc = "publish" /\ handler'.req = req
          /\ handler'.channel = peer.channel
      BY <1>2, <2>1, <3>1, ConstantFacts DEF Handlers
    <3> QED
      BY <2>1, <3>2 DEF HandlerInv
  <2>2. CASE handler' = [IdleHandler EXCEPT !.pc = "page", !.req = req]
    <3>1. handler' \in Handlers /\ handler'.pc = "page"
      BY <1>2, <2>2, ConstantFacts DEF Handlers
    <3> QED
      BY <3>1 DEF HandlerInv
  <2> QED
    BY <2>1, <2>2 DEF HandleChat, HandleHistory, req
<1>4. TypeInv'
  BY <1>1, <1>2, <1>3 DEF Inv, TypeInv
<1> QED
  BY <1>1, <1>3, <1>4, QuietStep

LEMMA HistoryReadInv == ASSUME Inv, HistoryRead PROVE Inv'
<1>1. PICK k \in 1 .. PageSize :
          handler' = [handler EXCEPT !.pc = "push",
                          !.page = PageBelow(handler.req.channel, handler.req.before, k)]
  BY DEF HistoryRead
<1> DEFINE page == PageBelow(handler.req.channel, handler.req.before, k)
<1>2. UNCHANGED <<log, retained, peer, out, chatOut, run, requests, client, pending, sent>>
  BY DEF HistoryRead, server
<1>3. /\ handler \in Handlers /\ handler.req \in Requests /\ handler.req.channel \in Channels
      /\ handler.req.before \in Nat
  BY DEF Inv, TypeInv, Handlers, Requests
<1>4. page \in Pages /\ \A s \in page.msgs : Of(s, handler.req.channel) /\ s < handler.req.before
  <2>1. k \in Nat
    BY ChatAssumption
  <2> QED
    BY <1>3, <2>1, PageFacts DEF Inv
<1> HIDE DEF page
<1>5. /\ handler' \in Handlers /\ handler'.pc = "push" /\ handler'.req = handler.req
      /\ handler'.page = page
  BY <1>1, <1>3, <1>4 DEF Handlers, page
<1>6. TypeInv' /\ HandlerInv'
  BY <1>2, <1>5 DEF Inv, TypeInv, HandlerInv
<1>7. Grown /\ StoredWhereMeant'
  BY <1>2, SameLog DEF Inv, StoredWhereMeant
<1> QED
  BY <1>2, <1>4, <1>5, <1>6, <1>7, QueueStep

LEMMA HistoryPushInv == ASSUME Inv, HistoryPush PROVE Inv'
<1> DEFINE f == [kind |-> "page", req |-> handler.req, page |-> handler.page]
<1>1. /\ handler.pc = "push" /\ chatOut' = Append(chatOut, f) /\ handler' = IdleHandler
      /\ UNCHANGED <<log, retained, peer, out, run, requests, client, pending, sent>>
  BY DEF HistoryPush, server
<1>2. f \in Chats /\ f.kind = "page" /\ f.req = handler.req /\ f.page = handler.page
  BY DEF Inv, TypeInv, Handlers, Chats, PageFrames
<1> HIDE DEF f
<1>3. /\ chatOut' \in Seq(Chats) /\ Len(chatOut) \in Nat /\ Len(chatOut') = Len(chatOut) + 1
      /\ chatOut'[Len(chatOut) + 1] = f
      /\ \A i \in 1 .. Len(chatOut) : chatOut'[i] = chatOut[i]
  BY <1>1, <1>2 DEF Inv, TypeInv
<1>4. handler' \in Handlers /\ handler'.pc = "idle"
  BY <1>1, ConstantFacts DEF IdleHandler
<1>5. TypeInv' /\ HandlerInv'
  BY <1>1, <1>3, <1>4 DEF Inv, TypeInv, HandlerInv
<1>6. Grown /\ StoredWhereMeant'
  BY <1>1, SameLog DEF Inv, StoredWhereMeant
<1>7. ASSUME NEW i \in 1 .. Len(chatOut')
      PROVE  \/ i \in 1 .. Len(chatOut) /\ chatOut'[i] = chatOut[i]
             \/ /\ chatOut'[i].kind = "page"
                /\ \A s \in chatOut'[i].page.msgs : Of(s, chatOut'[i].req.channel)
                                                    /\ s < chatOut'[i].req.before
  <2>1. i \in 1 .. Len(chatOut) \/ i = Len(chatOut) + 1
    BY <1>3
  <2> QED
    BY <1>1, <1>2, <1>3, <2>1 DEF Inv, PageInv, Asked
<1> QED
  BY <1>1, <1>4, <1>5, <1>6, <1>7, QueueStep

LEMMA SubmitInv == ASSUME Inv, NEW req \in Requests, Submit(req) PROVE Inv'
<1>1. /\ sent' = sent + 1 /\ pending' = req /\ requests' = Append(requests, req)
      /\ UNCHANGED <<log, retained, peer, out, chatOut, run, handler, client>>
  BY DEF Submit, server
<1>2. requests' \in Seq(Requests)
  BY <1>1 DEF Inv, TypeInv
<1>3. TypeInv' /\ HandlerInv'
  BY <1>1, <1>2 DEF Inv, TypeInv, HandlerInv
<1> QED
  BY <1>1, <1>3, QuietStep

LEMMA CommandInv ==
    ASSUME Inv, \/ \E kind \in {"move", "account", "sync", "chat"}, c \in Channels : ClientCommand(kind, c)
                \/ ClientHistory
    PROVE  Inv'
<1>1. sent + 1 \in Nat /\ client \in Clients /\ client.status \in Statuses
  BY DEF Inv, TypeInv, Clients
<1>2. ASSUME NEW kind \in {"move", "account", "sync", "chat"}, NEW c \in Channels, ClientCommand(kind, c)
      PROVE  Inv'
  <2> DEFINE n == sent + 1
             req == [NoRequest EXCEPT !.kind = kind, !.id = n, !.channel = c]
  <2>1. n \in Nat /\ Submit(req)
    BY <1>1, <1>2 DEF ClientCommand
  <2> HIDE DEF n
  <2>2. req \in Requests
    BY <2>1, ConstantFacts DEF Requests
  <2> HIDE DEF req
  <2> QED
    BY <2>1, <2>2, SubmitInv
<1>3. CASE ClientHistory
  <2> DEFINE req == [kind |-> "history", id |-> sent + 1, channel |-> client.channel,
               epoch |-> client.epoch, generation |-> client.status.generation,
               before |-> client.status.before]
  <2>1. req \in Requests /\ Submit(req)
    BY <1>1, <1>3 DEF ClientHistory, Requests, Clients, Statuses
  <2> HIDE DEF req
  <2> QED
    BY <2>1, SubmitInv
<1> QED
  BY <1>2, <1>3

LEMMA IdleInv == ASSUME Inv, NoControl \/ ClientTimeout PROVE Inv'
<1>1. /\ UNCHANGED <<log, retained, peer, out, chatOut, run, handler, requests, client, sent>>
      /\ pending' \in {pending, NoRequest}
  BY DEF NoControl, ClientTimeout, server
<1>2. TypeInv' /\ HandlerInv'
  BY <1>1, ConstantFacts DEF Inv, TypeInv, HandlerInv
<1> QED
  BY <1>1, <1>2, QuietStep

LEMMA InitInv == Init => Inv
<1> SUFFICES ASSUME Init PROVE Inv
  OBVIOUS
<1> DEFINE f == StatusOf(NewPeer, 0, EmptyPage)
<1>1. /\ log = <<>> /\ retained = {} /\ peer = NewPeer /\ out = <<f>> /\ chatOut = <<>>
      /\ run = IdleRun /\ handler = IdleHandler /\ requests = <<>> /\ client = NewClient
      /\ pending = NoRequest /\ sent = 0
  BY DEF Init
<1>2. f \in Controls /\ f.kind = "status"
  BY ConstantFacts DEF StatusOf, Controls, Statuses, Spots, Pages
<1> HIDE DEF f
<1>3. out \in Seq(Controls) /\ Len(out) = 1 /\ out[1] = f
  BY <1>1, <1>2
<1>4. TypeInv
  BY <1>1, <1>3, ConstantFacts, EmptySeq DEF TypeInv
<1>5. Len(log) = 0 /\ Len(chatOut) = 0
  BY <1>1
<1>6. /\ run.at = NewPeer /\ run.item = NoStatus /\ run.todo = {} /\ run.pc = "idle"
      /\ handler.pc = "idle" /\ client.shown = {} /\ client.invalid = FALSE
      /\ client.epoch = 1 /\ client.channel = Home /\ peer.epoch = 1 /\ peer.channel = Home
      /\ NewPeer.epoch = 1 /\ NewPeer.channel = Home /\ NoStatus.kind = "status"
  BY <1>1 DEF IdleRun, IdleHandler, NewClient, NewPeer, NoStatus
<1>7. PageInv /\ RunInv /\ HandlerInv /\ ShownHere /\ NeverInvalid /\ StoredWhereMeant
  BY <1>5, <1>6 DEF PageInv, RunInv, HandlerInv, ShownHere, NeverInvalid, StoredWhereMeant
<1> DEFINE Chan == [e \in Nat |-> Home]
<1>8. Chan \in [Nat -> Channels] /\ Chan[1] = Home
  BY ChatAssumption
<1> HIDE DEF Chan
<1>9. PlaceInv(Chan)
  BY <1>6, <1>8 DEF PlaceInv
<1>10. StateInv(Chan)
  BY <1>2, <1>3 DEF StateInv
<1>11. FrameInv(Chan)
  BY <1>5, <1>6 DEF FrameInv, RightEpoch
<1> QED
  BY <1>4, <1>7, <1>8, <1>9, <1>10, <1>11 DEF Inv, EpochInv

-----------------------------------------------------------------------------
(* chatLoop.                                                               *)

LEMMA RunChange ==
    ASSUME Inv, RunStep, run' \in Runs, run'.at \in {run.at, peer, NewPeer},
           chatOut' = chatOut \/ chatOut' = Append(chatOut, run.item),
           \/ run'.item = run.item \/ run'.item.kind # "message"
           \/ run'.item.epoch = run.at.epoch /\ Of(run'.item.seq, run.at.channel),
           \A s \in run'.todo : Of(s, run'.at.channel),
           run'.pc \in {"pushHistory", "pushLive"} => run'.item.kind = "message"
    PROVE  Inv'
<1>1. UNCHANGED <<log, retained, peer, out, handler, requests, client, pending, sent>>
  BY DEF RunStep
<1>2. PICK Chan \in [Nat -> Channels] : EpochInv(Chan)
  BY DEF Inv
<1>3. /\ chatOut' \in Seq(Chats)
      /\ \A i \in 1 .. Len(chatOut') :
            (i \in 1 .. Len(chatOut) /\ chatOut'[i] = chatOut[i]) \/ chatOut'[i] = run.item
  <2>1. CASE chatOut' = chatOut
    BY <2>1 DEF Inv, TypeInv
  <2>2. CASE chatOut' = Append(chatOut, run.item)
    <3>1. run.item \in Chats /\ chatOut \in Seq(Chats)
      BY DEF Inv, TypeInv, Runs, Chats
    <3>2. /\ chatOut' \in Seq(Chats) /\ Len(chatOut) \in Nat /\ Len(chatOut') = Len(chatOut) + 1
          /\ \A i \in 1 .. Len(chatOut) : chatOut'[i] = chatOut[i]
          /\ chatOut'[Len(chatOut) + 1] = run.item
      BY <2>2, <3>1
    <3>3. \A i \in 1 .. Len(chatOut') : i \in 1 .. Len(chatOut) \/ i = Len(chatOut) + 1
      BY <3>2
    <3> QED
      BY <3>2, <3>3
  <2> QED
    BY <2>1, <2>2
<1>4. TypeInv'
  BY <1>1, <1>3 DEF Inv, TypeInv
<1>5. run.item.kind # "page"
  BY DEF Inv, TypeInv, Runs, Items, Messages, Statuses
<1>6. PageInv'
  BY <1>1, <1>3, <1>5 DEF Inv, PageInv, Asked, Of
<1>7. RunInv'
  BY <1>1 DEF RunInv, Of
<1>8. HandlerInv' /\ ShownHere' /\ NeverInvalid' /\ StoredWhereMeant'
  BY <1>1 DEF Inv, HandlerInv, ShownHere, NeverInvalid, StoredWhereMeant, Of
<1>9. PlaceInv(Chan)'
  <2>1. peer.epoch \in Nat /\ NewPeer.epoch = 1 /\ NewPeer.channel = Home
    BY DEF Inv, TypeInv, Spots, NewPeer
  <2>2. /\ Chan[1] = Home /\ 1 <= peer.epoch /\ Chan[peer.epoch] = peer.channel
        /\ run.at.epoch <= peer.epoch /\ Chan[run.at.epoch] = run.at.channel
        /\ client.epoch <= peer.epoch /\ Chan[client.epoch] = client.channel
    BY <1>2 DEF EpochInv, PlaceInv
  <2>3. run'.at.epoch <= peer.epoch /\ Chan[run'.at.epoch] = run'.at.channel
    BY <2>1, <2>2
  <2> QED
    BY <1>1, <2>2, <2>3 DEF PlaceInv
<1>10. StateInv(Chan)'
  BY <1>1, <1>2 DEF EpochInv, StateInv
<1>11. FrameInv(Chan)'
  <2>1. /\ RightEpoch(Chan, run.item) /\ run.at.epoch <= peer.epoch
        /\ Chan[run.at.epoch] = run.at.channel
    BY <1>2 DEF EpochInv, PlaceInv, FrameInv
  <2>2. RightEpoch(Chan, run.item)'
    BY <1>1, <2>1 DEF RightEpoch, Of
  <2>3. \A i \in 1 .. Len(chatOut') : RightEpoch(Chan, chatOut'[i])
    BY <1>2, <1>3, <2>1 DEF EpochInv, FrameInv
  <2> QED
    BY <1>1, <2>2, <2>3 DEF FrameInv, RightEpoch, Of
<1> QED
  BY <1>2, <1>4, <1>6, <1>7, <1>8, <1>9, <1>10, <1>11 DEF Inv, EpochInv

LEMMA StoredFacts ==
    ASSUME TypeInv, NEW c \in Channels
    PROVE  Stored(c) \in SUBSET (1 .. Len(log)) /\ Len(log) \in Nat /\ \A s \in Stored(c) : Of(s, c)
<1>1. Len(log) \in Nat /\ retained \in SUBSET (1 .. Len(log))
  BY LogFacts DEF TypeInv
<1> QED
  BY <1>1 DEF Stored, Of

LEMMA RunFacts ==
    ASSUME Inv
    PROVE  /\ run \in Runs /\ run.at \in Spots /\ run.at.channel \in Channels
           /\ run.at.epoch \in Nat /\ peer \in Spots /\ run.item \in Items
           /\ run.todo \in SUBSET Nat /\ run.page \in Pages /\ run.position \in Nat
BY DEF Inv, TypeInv, Runs, Spots

(* A run that ends.                                                        *)
LEMMA EndsIdle ==
    ASSUME Inv, RunStep, run' = IdleRun,
           chatOut' = chatOut \/ chatOut' = Append(chatOut, run.item)
    PROVE  Inv'
<1>1. /\ run' \in Runs /\ run'.at = NewPeer /\ run'.item.kind = "status" /\ run'.todo = {}
      /\ run'.pc = "idle"
  BY ConstantFacts DEF IdleRun, NoStatus
<1> QED
  BY <1>1, RunChange

LEMMA LoopStarts == ASSUME Inv, ChatWake \/ ChatBegin PROVE Inv'
<1>1. RunStep /\ chatOut' = chatOut
  BY DEF ChatWake, ChatBegin
<1>2. CASE ChatWake
  <2>1. run' = [run EXCEPT !.pc = "begin"]
    BY <1>2 DEF ChatWake
  <2>2. /\ run' \in Runs /\ run'.at = run.at /\ run'.item = run.item /\ run'.todo = run.todo
        /\ run'.pc = "begin"
    BY <2>1, RunFacts DEF Runs
  <2> QED
    BY <1>1, <2>2, RunChange DEF Inv, RunInv
<1>3. CASE ChatBegin
  <2>1. run' = [IdleRun EXCEPT !.pc = "boundary", !.at = peer]
    BY <1>3 DEF ChatBegin
  <2>2. IdleRun.todo = {} /\ IdleRun.item.kind = "status"
    BY DEF IdleRun, NoStatus
  <2>3. /\ run' \in Runs /\ run'.at = peer /\ run'.item = IdleRun.item /\ run'.todo = IdleRun.todo
        /\ run'.pc = "boundary"
    BY <2>1, RunFacts, ConstantFacts DEF Runs
  <2> QED
    BY <1>1, <2>2, <2>3, RunChange
<1> QED
  BY <1>2, <1>3

LEMMA ReadsInv == ASSUME Inv, ReadBoundary \/ ReadPage PROVE Inv'
<1>1. RunStep /\ chatOut' = chatOut
  BY DEF ReadBoundary, ReadPage
<1>2. CASE ReadBoundary
  <2> DEFINE position == IF Stored(run.at.channel) = {} THEN 0 ELSE Max(Stored(run.at.channel))
  <2>1. run' = [run EXCEPT !.pc = "page", !.position = position]
    BY <1>2 DEF ReadBoundary
  <2>2. position \in Nat
    <3> DEFINE S == Stored(run.at.channel)
    <3>1. S \in SUBSET (1 .. Len(log)) /\ Len(log) \in Nat
      BY RunFacts, StoredFacts DEF Inv
    <3> HIDE DEF S
    <3>2. S # {} => Max(S) \in 1 .. Len(log)
      BY <3>1, MaxFacts
    <3>3. S # {} => Max(S) \in Nat
      BY <3>1, <3>2
    <3> QED
      BY <3>3 DEF S
  <2> HIDE DEF position
  <2>3. /\ run' \in Runs /\ run'.at = run.at /\ run'.item = run.item /\ run'.todo = run.todo
        /\ run'.pc = "page"
    BY <2>1, <2>2, RunFacts DEF Runs
  <2> QED
    BY <1>1, <2>3, RunChange DEF Inv, RunInv
<1>3. CASE ReadPage
  <2>1. PICK k \in 1 .. PageSize :
            LET page == IF run.position = 0 THEN EmptyPage
                        ELSE PageBelow(run.at.channel, run.position + 1, k)
            IN  run' = [run EXCEPT !.pc = "history", !.page = page, !.todo = page.msgs]
    BY <1>3 DEF ReadPage
  <2> DEFINE page == IF run.position = 0 THEN EmptyPage
                     ELSE PageBelow(run.at.channel, run.position + 1, k)
             todo == page.msgs
  <2>2. run' = [run EXCEPT !.pc = "history", !.page = page, !.todo = todo]
    BY <2>1
  <2>3. page \in Pages /\ \A s \in page.msgs : Of(s, run.at.channel)
    <3>1. k \in Nat /\ run.position + 1 \in Nat
      BY ChatAssumption, RunFacts
    <3>2. CASE run.position = 0
      BY <3>2, ConstantFacts DEF EmptyPage
    <3>3. CASE run.position # 0
      BY <3>1, <3>3, RunFacts, PageFacts DEF Inv
    <3> QED
      BY <3>2, <3>3
  <2> HIDE DEF page
  <2>4. todo \in SUBSET Nat /\ \A s \in todo : Of(s, run.at.channel)
    BY <2>3 DEF Pages
  <2> HIDE DEF todo
  <2>5. /\ run' \in Runs /\ run'.at = run.at /\ run'.item = run.item /\ run'.todo = todo
        /\ run'.pc = "history"
    BY <2>2, <2>3, <2>4, RunFacts DEF Runs
  <2> QED
    BY <1>1, <2>4, <2>5, RunChange
<1> QED
  BY <1>2, <1>3

LEMMA SendsInv ==
    ASSUME Inv, NEW pc \in {"pushHistory", "pushReady", "pushLive", "pushFailed"},
           NEW item \in Items, Sends(pc, item),
           \/ item.kind = "message" /\ item.epoch = run.at.epoch /\ Of(item.seq, run.at.channel)
           \/ item.kind = "status" /\ pc \in {"pushReady", "pushFailed"}
    PROVE  Inv'
<1>1. RunStep /\ chatOut' = chatOut
  BY DEF Sends
<1>2. CASE Current
  <2>1. run' = [run EXCEPT !.pc = pc, !.item = item]
    BY <1>2 DEF Sends
  <2>2. run' \in Runs /\ run'.at = run.at /\ run'.item = item /\ run'.todo = run.todo /\ run'.pc = pc
    BY <2>1, RunFacts DEF Runs
  <2> QED
    BY <1>1, <2>2, RunChange DEF Inv, RunInv
<1>3. CASE ~Current
  BY <1>1, <1>3, EndsIdle DEF Sends
<1> QED
  BY <1>2, <1>3

LEMMA EmitInv == ASSUME Inv, EmitHistory \/ EmitLive \/ Ready \/ ReportFailure PROVE Inv'
<1>1. ASSUME NEW s \in Nat, Of(s, run.at.channel), NEW pc \in {"pushHistory", "pushLive"},
             Sends(pc, MessageOf(s, run.at.epoch))
      PROVE  Inv'
  <2> DEFINE item == MessageOf(s, run.at.epoch)
  <2>1. /\ item \in Items /\ item.kind = "message" /\ item.epoch = run.at.epoch /\ item.seq = s
        /\ Sends(pc, item)
    BY <1>1, RunFacts DEF MessageOf, Items, Messages
  <2> HIDE DEF item
  <2> QED
    BY <1>1, <2>1, SendsInv
<1>2. ASSUME NEW status \in Nat, NEW page \in Pages, NEW pc \in {"pushReady", "pushFailed"},
             Sends(pc, StatusOf(run.at, status, page))
      PROVE  Inv'
  <2> DEFINE item == StatusOf(run.at, status, page)
  <2>1. item \in Items /\ item.kind = "status" /\ Sends(pc, item)
    BY <1>2, RunFacts DEF StatusOf, Items, Statuses, Spots, Pages
  <2> HIDE DEF item
  <2> QED
    BY <1>2, <2>1, SendsInv
<1>3. CASE EmitHistory
  <2>1. run.todo # {} /\ Sends("pushHistory", MessageOf(Min(run.todo), run.at.epoch))
    BY <1>3 DEF EmitHistory
  <2>2. Min(run.todo) \in run.todo /\ Min(run.todo) \in Nat
    BY <2>1, RunFacts, MinFacts
  <2> QED
    BY <1>1, <2>1, <2>2 DEF Inv, RunInv
<1>4. CASE EmitLive
  <2>1. Ahead # {} /\ Sends("pushLive", MessageOf(Min(Ahead), run.at.epoch))
    BY <1>4 DEF EmitLive
  <2>2. Ahead \in SUBSET Nat /\ \A s \in Ahead : Of(s, run.at.channel)
    BY RunFacts, StoredFacts DEF Ahead, Inv
  <2>3. Min(Ahead) \in Ahead /\ Min(Ahead) \in Nat
    BY <2>1, <2>2, MinFacts
  <2> QED
    BY <1>1, <2>1, <2>2, <2>3
<1>5. CASE Ready
  BY <1>2, <1>5, RunFacts DEF Ready
<1>6. CASE ReportFailure
  BY <1>2, <1>6, ConstantFacts DEF ReportFailure
<1> QED
  BY <1>3, <1>4, <1>5, <1>6

LEMMA FailedInv == ASSUME Inv, ChatStall \/ StorageFails \/ ChatCanceled PROVE Inv'
<1>1. RunStep /\ chatOut' = chatOut /\ run' \in {IdleRun, FailedRun}
  BY DEF ChatStall, StorageFails, ChatCanceled
<1>2. CASE run' = FailedRun
  <2>1. IdleRun.todo = {} /\ IdleRun.item.kind = "status"
    BY DEF IdleRun, NoStatus
  <2>2. /\ run' \in Runs /\ run'.at = run.at /\ run'.item = IdleRun.item /\ run'.todo = IdleRun.todo
        /\ run'.pc = "failed"
    BY <1>2, RunFacts, ConstantFacts DEF Runs, FailedRun
  <2> QED
    BY <1>1, <2>1, <2>2, RunChange
<1> QED
  BY <1>1, <1>2, EndsIdle

LEMMA ChatPushInv == ASSUME Inv, ChatPush PROVE Inv'
<1>1. RunStep /\ chatOut' = Append(chatOut, run.item) /\ Pushing
  BY DEF ChatPush
<1>2. NoStatus \in Items /\ NoStatus.kind = "status" /\ EmptyPage \in Pages
  BY ConstantFacts DEF Items, NoStatus
<1>3. run.pc \in {"pushHistory", "pushLive"} => run.item \in Messages /\ run.item.seq \in Nat
  BY RunFacts DEF Inv, RunInv, Items, Messages, Statuses
<1>4. CASE run.pc = "pushHistory"
  <2> DEFINE todo == run.todo \ {run.item.seq}
  <2>1. run' = [run EXCEPT !.pc = "history", !.todo = todo, !.item = NoStatus]
    BY <1>4 DEF ChatPush
  <2>2. todo \in SUBSET Nat /\ \A s \in todo : Of(s, run.at.channel)
    BY RunFacts DEF Inv, RunInv
  <2> HIDE DEF todo
  <2>3. /\ run' \in Runs /\ run'.at = run.at /\ run'.item = NoStatus /\ run'.todo = todo
        /\ run'.pc = "history"
    BY <1>2, <2>1, <2>2, RunFacts DEF Runs
  <2> QED
    BY <1>1, <1>2, <2>2, <2>3, RunChange
<1>5. CASE run.pc = "pushReady"
  <2>1. run' = [run EXCEPT !.pc = "live", !.page = EmptyPage, !.item = NoStatus]
    BY <1>5 DEF ChatPush
  <2>2. /\ run' \in Runs /\ run'.at = run.at /\ run'.item = NoStatus /\ run'.todo = run.todo
        /\ run'.pc = "live"
    BY <1>2, <2>1, RunFacts DEF Runs
  <2> QED
    BY <1>1, <1>2, <2>2, RunChange DEF Inv, RunInv
<1>6. CASE run.pc = "pushLive"
  <2> DEFINE seq == run.item.seq
  <2>1. run' = [run EXCEPT !.pc = "live", !.position = seq, !.item = NoStatus]
    BY <1>6 DEF ChatPush
  <2>2. seq \in Nat
    BY <1>3, <1>6
  <2> HIDE DEF seq
  <2>3. /\ run' \in Runs /\ run'.at = run.at /\ run'.item = NoStatus /\ run'.todo = run.todo
        /\ run'.pc = "live"
    BY <1>2, <2>1, <2>2, RunFacts DEF Runs
  <2> QED
    BY <1>1, <1>2, <2>3, RunChange DEF Inv, RunInv
<1>7. CASE run.pc = "pushFailed"
  <2>1. run' = IdleRun
    BY <1>7 DEF ChatPush
  <2> QED
    BY <1>1, <2>1, EndsIdle
<1> QED
  BY <1>1, <1>4, <1>5, <1>6, <1>7 DEF Pushing

-----------------------------------------------------------------------------
(* Moves and reloads: the member gets a new epoch with its new channel, or *)
(* keeps both; the state that tells of it is the only one enqueued.        *)
LEMMA RestartInv ==
    ASSUME Inv, NEW p \in Spots, NEW frames \in Seq(Controls), RestartChat(p, frames),
           requests' \in Seq(Requests),
           UNCHANGED <<log, retained, chatOut, handler, client, pending, sent>>,
           \/ p.epoch = peer.epoch /\ p.channel = peer.channel
           \/ p.epoch = peer.epoch + 1,
           \A i \in 1 .. Len(frames) : frames[i].kind = "state" =>
               i = 1 /\ frames[i] = StateOf(p) /\ p.epoch = peer.epoch + 1
    PROVE  Inv'
<1> DEFINE g == p.generation + 1
           q == [p EXCEPT !.generation = g]
           st == StatusOf(q, 0, EmptyPage)
           all == <<st>> \o frames
<1>1. g \in Nat
  BY DEF Spots
<1>2. /\ peer' = q /\ Enqueue(all)
      /\ run' = [run EXCEPT !.canceled = run.pc \notin {"idle", "begin"}]
  BY DEF RestartChat
<1>3. q \in Spots /\ q.channel = p.channel /\ q.epoch = p.epoch
  <2> HIDE DEF g
  <2> QED
    BY <1>1 DEF Spots
<1> HIDE DEF q
<1>4. st \in Controls /\ st.kind = "status"
  BY <1>3, ConstantFacts DEF StatusOf, Controls, Statuses, Spots, Pages
<1> HIDE DEF st
<1>5. /\ all \in Seq(Controls) /\ Len(frames) \in Nat /\ Len(all) = Len(frames) + 1 /\ all[1] = st
      /\ \A i \in 2 .. Len(frames) + 1 : all[i] = frames[i - 1]
  <2>1. <<st>> \in Seq(Controls) /\ Len(<<st>>) = 1 /\ <<st>>[1] = st /\ Len(frames) \in Nat
    BY <1>4, LenProperties
  <2>2. /\ all \in Seq(Controls) /\ Len(all) = 1 + Len(frames)
        /\ \A i \in 1 .. 1 + Len(frames) : all[i] = IF i <= 1 THEN <<st>>[i] ELSE frames[i - 1]
    BY <2>1, ConcatProperties
  <2> HIDE DEF all
  <2> QED
    BY <2>1, <2>2
<1> HIDE DEF all
<1>6. /\ out' \in Seq(Controls) /\ Len(out) \in Nat /\ Len(out') \in Nat
      /\ Len(out') <= Len(out) + Len(all)
      /\ \A i \in 1 .. Len(out') : out'[i] = IF i <= Len(out) THEN out[i] ELSE all[i - Len(out)]
  BY <1>2, <1>5, EnqueueFacts, LenProperties DEF Inv, TypeInv
<1>7. ASSUME NEW i \in 1 .. Len(out'), out'[i].kind = "state"
      PROVE  \/ i \in 1 .. Len(out) /\ out'[i] = out[i]
             \/ /\ i = Len(out) + 2 /\ p.epoch = peer.epoch + 1
                /\ out'[i] = StateOf(p)
  <2>1. CASE i <= Len(out)
    BY <1>6, <2>1
  <2>2. CASE i = Len(out) + 1
    <3>1. out'[i] = st
      <4>1. i - Len(out) = 1 /\ ~(i <= Len(out))
        BY <1>6, <2>2
      <4> QED
        BY <1>5, <1>6, <4>1
    <3> QED
      BY <1>4, <1>7, <3>1
  <2>3. CASE i > Len(out) + 1
    <3>1. /\ i - Len(out) \in 2 .. Len(frames) + 1 /\ ~(i <= Len(out))
          /\ (i - Len(out)) - 1 \in 1 .. Len(frames)
      BY <1>5, <1>6, <2>3
    <3>2. out'[i] = frames[(i - Len(out)) - 1]
      BY <1>5, <1>6, <3>1
    <3>3. (i - Len(out)) - 1 = 1 /\ out'[i] = StateOf(p) /\ p.epoch = peer.epoch + 1
      BY <1>7, <3>1, <3>2
    <3> QED
      BY <1>6, <3>3
  <2> QED
    BY <1>6, <2>1, <2>2, <2>3
<1>8. /\ run' \in Runs /\ run'.at = run.at /\ run'.item = run.item /\ run'.todo = run.todo
      /\ run'.pc = run.pc
  <2> DEFINE c == run.pc \notin {"idle", "begin"}
  <2>1. c \in BOOLEAN /\ run' = [run EXCEPT !.canceled = c]
    BY <1>2
  <2> HIDE DEF c
  <2> QED
    BY <2>1, RunFacts DEF Runs
<1>9. TypeInv'
  BY <1>2, <1>3, <1>6, <1>8 DEF Inv, TypeInv
<1>10. /\ PageInv' /\ RunInv' /\ HandlerInv' /\ ShownHere' /\ NeverInvalid'
       /\ StoredWhereMeant'
  BY <1>8 DEF Inv, PageInv, RunInv, HandlerInv, ShownHere, NeverInvalid, StoredWhereMeant, Asked, Of
<1>11. PICK Chan \in [Nat -> Channels] : EpochInv(Chan)
  BY DEF Inv
<1> DEFINE New == [Chan EXCEPT ![p.epoch] = p.channel]
<1>12. p.epoch \in Nat /\ p.channel \in Channels /\ peer.epoch \in Nat
  BY DEF Inv, TypeInv, Spots
<1>13. /\ New \in [Nat -> Channels] /\ New[p.epoch] = p.channel /\ peer.epoch <= p.epoch
       /\ \A e \in Nat : e <= peer.epoch => New[e] = Chan[e] /\ e <= p.epoch
  <2>1. Chan[peer.epoch] = peer.channel
    BY <1>11 DEF EpochInv, PlaceInv
  <2> QED
    BY <1>12, <2>1
<1> HIDE DEF New
<1>14. /\ run.at.epoch \in Nat /\ client.epoch \in Nat /\ peer'.epoch = p.epoch
       /\ peer'.channel = p.channel
  BY <1>2, <1>3, RunFacts DEF Inv, TypeInv, Clients
<1>15. PlaceInv(New)'
  <2>1. /\ Chan[1] = Home /\ 1 <= peer.epoch
        /\ run.at.epoch <= peer.epoch /\ Chan[run.at.epoch] = run.at.channel
        /\ client.epoch <= peer.epoch /\ Chan[client.epoch] = client.channel
    BY <1>11 DEF EpochInv, PlaceInv
  <2>2. 1 <= p.epoch
    BY <1>12, <1>13, <2>1
  <2> QED
    BY <1>8, <1>13, <1>14, <2>1, <2>2 DEF PlaceInv
<1>16. StateInv(New)'
  <2>1. /\ StateOf(p).epoch = p.epoch /\ StateOf(p).channel = p.channel
    BY DEF StateOf
  <2>2. \A i \in 1 .. Len(out) : out[i].kind = "state" =>
           /\ out[i].epoch \in Nat /\ client.epoch < out[i].epoch /\ out[i].epoch <= peer.epoch
           /\ Chan[out[i].epoch] = out[i].channel
    <3>1. \A i \in 1 .. Len(out) : out[i].kind = "state" => out[i].epoch \in Nat
      BY LogFacts DEF Inv, Controls, States, Statuses, Replies
    <3> QED
      BY <1>11, <3>1 DEF EpochInv, StateInv
  <2>3. client.epoch <= peer.epoch
    BY <1>11 DEF EpochInv, PlaceInv
  <2>4. ASSUME NEW i \in 1 .. Len(out'), out'[i].kind = "state"
        PROVE  /\ client.epoch < out'[i].epoch /\ out'[i].epoch <= p.epoch
               /\ New[out'[i].epoch] = out'[i].channel
    <3>1. CASE i \in 1 .. Len(out) /\ out'[i] = out[i]
      BY <1>13, <2>2, <2>4, <3>1
    <3>2. CASE p.epoch = peer.epoch + 1 /\ out'[i] = StateOf(p)
      BY <1>12, <1>13, <1>14, <2>1, <2>3, <3>2
    <3> QED
      BY <1>7, <2>4, <3>1, <3>2
  <2>5. ASSUME NEW i \in 1 .. Len(out'), NEW j \in 1 .. Len(out'), i < j,
               out'[i].kind = "state", out'[j].kind = "state"
        PROVE  out'[i].epoch < out'[j].epoch
    <3>1. i \in 1 .. Len(out) /\ out'[i] = out[i]
      <4>1. CASE i = Len(out) + 2
        <5>1. j = Len(out) + 2 \/ j \in 1 .. Len(out)
          BY <1>7, <2>5
        <5> QED
          BY <1>6, <2>5, <4>1, <5>1
      <4> QED
        BY <1>7, <2>5, <4>1
    <3>2. CASE j \in 1 .. Len(out) /\ out'[j] = out[j]
      BY <1>11, <2>5, <3>1, <3>2 DEF EpochInv, StateInv
    <3>3. CASE p.epoch = peer.epoch + 1 /\ out'[j] = StateOf(p)
      BY <1>12, <2>1, <2>2, <2>5, <3>1, <3>3
    <3> QED
      BY <1>7, <2>5, <3>2, <3>3
  <2> QED
    BY <1>14, <2>4, <2>5 DEF StateInv
<1>17. FrameInv(New)'
  <2>1. ASSUME NEW f \in Chats, RightEpoch(Chan, f), f.kind = "message"
        PROVE  f.epoch <= p.epoch /\ Of(f.seq, New[f.epoch])
    <3>1. f.epoch \in Nat /\ f.epoch <= peer.epoch /\ Of(f.seq, Chan[f.epoch])
      BY <2>1 DEF Chats, Items, Messages, Statuses, PageFrames, RightEpoch
    <3> QED
      BY <1>13, <3>1
  <2>2. ASSUME NEW i \in 1 .. Len(chatOut), chatOut[i].kind = "message"
        PROVE  chatOut[i].epoch <= p.epoch /\ Of(chatOut[i].seq, New[chatOut[i].epoch])
    BY <1>11, <2>1, <2>2, LogFacts DEF Inv, EpochInv, FrameInv
  <2>3. run.item.kind = "message" => run.item.epoch <= p.epoch /\ Of(run.item.seq, New[run.item.epoch])
    BY <1>11, <2>1, RunFacts DEF EpochInv, FrameInv, Chats
  <2> QED
    BY <1>8, <1>14, <2>2, <2>3 DEF FrameInv, RightEpoch, Of
<1> QED
  BY <1>9, <1>10, <1>13, <1>15, <1>16, <1>17 DEF Inv, EpochInv

LEMMA MoveFacts ==
    ASSUME Inv, NEW c \in Channels, NEW frames \in Seq(Controls), MovePeer(c, frames),
           \A i \in 1 .. Len(frames) : frames[i].kind # "state", requests' \in Seq(Requests),
           UNCHANGED <<log, retained, chatOut, handler, client, pending, sent>>
    PROVE  Inv'
<1> DEFINE e == peer.epoch + 1
           moved == [peer EXCEPT !.channel = c, !.epoch = e]
           all == <<StateOf(moved)>> \o frames
<1>1. RestartChat(moved, all)
  BY DEF MovePeer
<1>2. e \in Nat /\ peer \in Spots
  BY DEF Inv, TypeInv, Spots
<1>3. moved \in Spots /\ moved.epoch = e
  <2> HIDE DEF e
  <2> QED
    BY <1>2 DEF Spots
<1> HIDE DEF moved
<1>4. StateOf(moved) \in Controls
  BY <1>3 DEF StateOf, Controls, States, Spots
<1>5. /\ all \in Seq(Controls) /\ Len(frames) \in Nat /\ Len(all) = Len(frames) + 1
      /\ \A i \in 1 .. Len(all) : (i = 1 /\ all[i] = StateOf(moved)) \/ all[i].kind # "state"
  <2> DEFINE one == <<StateOf(moved)>>
  <2>1. one \in Seq(Controls) /\ Len(one) = 1 /\ one[1] = StateOf(moved) /\ Len(frames) \in Nat
    BY <1>4, LenProperties
  <2> HIDE DEF one
  <2>2. /\ one \o frames \in Seq(Controls) /\ Len(one \o frames) = 1 + Len(frames)
        /\ \A i \in 1 .. 1 + Len(frames) : (one \o frames)[i] = IF i <= 1 THEN one[i] ELSE frames[i - 1]
    BY <2>1, ConcatProperties
  <2>3. all = one \o frames
    BY DEF one
  <2> HIDE DEF all
  <2>4. ASSUME NEW i \in 1 .. Len(all)
        PROVE  (i = 1 /\ all[i] = StateOf(moved)) \/ all[i].kind # "state"
    <3>1. i = 1 \/ (~(i <= 1) /\ i - 1 \in 1 .. Len(frames))
      BY <2>1, <2>2, <2>3
    <3> QED
      BY <2>1, <2>2, <2>3, <3>1
  <2> QED
    BY <2>1, <2>2, <2>3, <2>4
<1> HIDE DEF all
<1>6. moved.epoch = peer.epoch + 1
  BY <1>3
<1> HIDE DEF e
<1> QED
  BY <1>1, <1>3, <1>5, <1>6, RestartInv

LEMMA MovesInv ==
    ASSUME Inv, HandleMove \/ HandleAccount \/ HandleSync \/ \E c \in Channels : MovedByOther(c)
    PROVE  Inv'
<1> DEFINE req == Head(requests)
<1>1. UNCHANGED <<log, retained, chatOut, handler, client, pending, sent>>
  BY DEF HandleMove, HandleAccount, HandleSync, MovedByOther
<1>2. CASE \E c \in Channels : MovedByOther(c)
  <2>1. PICK c \in Channels : MovePeer(c, <<>>) /\ requests' = requests
    BY <1>2 DEF MovedByOther
  <2>2. requests' \in Seq(Requests) /\ <<>> \in Seq(Controls) /\ Len(<<>>) = 0
    BY <2>1, EmptySeq DEF Inv, TypeInv
  <2>3. \A i \in 1 .. Len(<<>>) : <<>>[i].kind # "state"
    BY <2>2
  <2> QED
    BY <1>1, <2>1, <2>2, <2>3, MoveFacts
<1>3. CASE HandleMove \/ HandleAccount \/ HandleSync
  <2>1. req \in Requests /\ requests' \in Seq(Requests) /\ req.channel \in Channels
    BY <1>3, TakenFacts DEF HandleMove, HandleAccount, HandleSync, Takes, Inv, Requests
  <2> DEFINE frames == <<ReplyTo(req)>>
  <2>2. /\ frames \in Seq(Controls) /\ Len(frames) = 1
        /\ \A i \in 1 .. Len(frames) : frames[i].kind # "state"
    <3>1. frames \in Seq(Controls) /\ Len(frames) = 1 /\ frames[1].kind = "reply"
      BY <2>1, ReplyFacts
    <3> HIDE DEF frames
    <3>2. \A i \in 1 .. Len(frames) : i = 1
      BY <3>1
    <3> QED
      BY <3>1, <3>2
  <2>3. CASE HandleMove
    <3>1. MovePeer(req.channel, frames)
      BY <2>3 DEF HandleMove
    <3> HIDE DEF frames, req
    <3> QED
      BY <1>1, <2>1, <2>2, <3>1, MoveFacts
  <2>5. CASE HandleAccount
    <3>1. MovePeer(peer.channel, frames)
      BY <2>5 DEF HandleAccount
    <3>2. peer.channel \in Channels
      BY DEF Inv, TypeInv, Spots
    <3> HIDE DEF frames, req
    <3> QED
      BY <1>1, <2>1, <2>2, <3>1, <3>2, MoveFacts
  <2>4. CASE HandleSync
    <3>1. RestartChat(peer, frames)
      BY <2>4 DEF HandleSync
    <3>2. peer \in Spots
      BY DEF Inv, TypeInv
    <3> HIDE DEF frames, req
    <3> QED
      BY <1>1, <2>1, <2>2, <3>1, <3>2, RestartInv
  <2> QED
    BY <1>3, <2>3, <2>4, <2>5
<1> QED
  BY <1>2, <1>3

-----------------------------------------------------------------------------
(* The client.                                                             *)

LEMMA ClientFacts ==
    ASSUME Inv
    PROVE  /\ client \in Clients /\ client.channel \in Channels /\ client.epoch \in Nat
           /\ client.shown \in SUBSET Nat /\ client.status \in Statuses /\ client.invalid = FALSE
           /\ \A s \in client.shown : Of(s, client.channel)
BY DEF Inv, TypeInv, Clients, NeverInvalid, ShownHere

(* A status changes the status at most.                                    *)
LEMMA StatusApplied ==
    ASSUME Inv, NEW f \in Statuses
    PROVE  /\ Apply(client, f) \in Clients /\ Apply(client, f).epoch = client.epoch
           /\ Apply(client, f).channel = client.channel /\ Apply(client, f).shown = client.shown
           /\ Apply(client, f).invalid = FALSE
<1>1. Apply(client, f) = ApplyStatus(client, f)
  BY DEF Apply, Statuses
<1>2. Apply(client, f) \in {client, [client EXCEPT !.status = f]}
  BY <1>1 DEF ApplyStatus
<1> QED
  BY <1>2, ClientFacts DEF Clients

(* What the two selects of writeLoop take from the control queue.          *)
LEMMA ControlApplied ==
    ASSUME Inv, NEW f \in Controls, f.kind = "state" => client.epoch < f.epoch
    PROVE  /\ Apply(client, f) \in Clients /\ Apply(client, f).invalid = FALSE
           /\ \/ /\ f.kind # "state" /\ Apply(client, f).epoch = client.epoch
                 /\ Apply(client, f).channel = client.channel /\ Apply(client, f).shown = client.shown
              \/ /\ f.kind = "state" /\ Apply(client, f).epoch = f.epoch
                 /\ Apply(client, f).channel = f.channel /\ Apply(client, f).shown = {}
<1>1. CASE f \in Statuses
  BY <1>1, StatusApplied DEF Statuses
<1>2. CASE f \in Replies
  <2>1. Apply(client, f) = client /\ f.kind = "reply"
    BY <1>2 DEF Apply, Replies
  <2> QED
    BY <2>1, ClientFacts
<1>3. CASE f \in States
  <2>1. f.kind = "state" /\ f.channel \in Channels /\ f.epoch \in Nat
    BY <1>3 DEF States
  <2>2. ~(f.epoch < client.epoch) /\ f.epoch # client.epoch
    BY <2>1, ClientFacts
  <2>3. Apply(client, f) = [NewClient EXCEPT !.channel = f.channel, !.epoch = f.epoch]
    BY <2>1, <2>2 DEF Apply, ApplyState
  <2>4. NewClient.shown = {} /\ NewClient.invalid = FALSE
    BY DEF NewClient
  <2>5. /\ Apply(client, f) \in Clients /\ Apply(client, f).epoch = f.epoch
        /\ Apply(client, f).channel = f.channel /\ Apply(client, f).shown = NewClient.shown
        /\ Apply(client, f).invalid = NewClient.invalid
    BY <2>1, <2>3, ConstantFacts DEF Clients
  <2> QED
    BY <2>1, <2>4, <2>5
<1> QED
  BY <1>1, <1>2, <1>3 DEF Controls

LEMMA TrimFacts ==
    ASSUME NEW c \in Clients, NEW shown \in SUBSET Nat
    PROVE  /\ Trim(c, shown) \in Clients /\ Trim(c, shown).epoch = c.epoch
           /\ Trim(c, shown).channel = c.channel /\ Trim(c, shown).shown \subseteq shown
           /\ Trim(c, shown).invalid = c.invalid
<1> DEFINE kept == shown \ {Min(shown)}
<1>1. kept \in SUBSET Nat /\ kept \subseteq shown
  OBVIOUS
<1>2. Trim(c, shown) \in {[c EXCEPT !.shown = shown], [c EXCEPT !.shown = kept, !.limited = TRUE]}
  BY DEF Trim
<1> HIDE DEF kept
<1>3. CASE Trim(c, shown) = [c EXCEPT !.shown = shown]
  BY <1>3 DEF Clients
<1>4. CASE Trim(c, shown) = [c EXCEPT !.shown = kept, !.limited = TRUE]
  <2>1. /\ Trim(c, shown) \in Clients /\ Trim(c, shown).epoch = c.epoch
        /\ Trim(c, shown).channel = c.channel /\ Trim(c, shown).shown = kept
        /\ Trim(c, shown).invalid = c.invalid
    BY <1>1, <1>4 DEF Clients
  <2> QED
    BY <1>1, <2>1
<1> QED
  BY <1>2, <1>3, <1>4

(* ... and from the chat queue: messages of another epoch and pages that   *)
(* are no longer wanted are dropped, the others are of the client's        *)
(* channel.                                                                *)
LEMMA ChatApplied ==
    ASSUME Inv, NEW f \in Chats, f.kind = "message" /\ f.epoch = client.epoch => Of(f.seq, client.channel),
           f.kind = "page" => Asked(f.page.msgs, f.req)
    PROVE  /\ Apply(client, f) \in Clients /\ Apply(client, f).epoch = client.epoch
           /\ Apply(client, f).channel = client.channel /\ Apply(client, f).invalid = FALSE
           /\ \A s \in Apply(client, f).shown : Of(s, client.channel)
<1>1. CASE f \in Statuses
  BY <1>1, StatusApplied, ClientFacts
<1>2. CASE f \in Messages
  <2>1. f.kind = "message" /\ f.seq \in Nat /\ Apply(client, f) = ApplyMessage(client, f)
    BY <1>2 DEF Apply, Messages
  <2>2. CASE f.epoch # client.epoch
    BY <2>1, <2>2, ClientFacts DEF ApplyMessage
  <2>3. CASE f.epoch = client.epoch
    <3> DEFINE shown == client.shown \cup {f.seq}
    <3>1. Of(f.seq, client.channel)
      BY <2>1, <2>3
    <3>2. shown \in SUBSET Nat /\ \A s \in shown : Of(s, client.channel)
      BY <2>1, <3>1, ClientFacts
    <3>3. Apply(client, f) = Trim(client, shown)
      BY <2>1, <2>3, <3>1 DEF ApplyMessage, Of
    <3> HIDE DEF shown
    <3> QED
      BY <3>2, <3>3, TrimFacts, ClientFacts
  <2> QED
    BY <2>2, <2>3
<1>3. CASE f \in PageFrames
  <2>1. /\ f.kind = "page" /\ Apply(client, f) = ApplyPage(client, f)
        /\ f.page \in Pages /\ f.page.msgs \in SUBSET Nat /\ f.page.next \in Nat
        /\ f.page.more \in BOOLEAN /\ f.req.before \in Nat
    BY <1>3 DEF Apply, PageFrames, Pages, Requests
  <2>2. \A s \in f.page.msgs : Of(s, f.req.channel) /\ ~(s >= f.req.before)
    BY <2>1 DEF Asked
  <2>3. CASE \/ f.req # pending \/ f.req.channel # client.channel \/ f.req.epoch # client.epoch
             \/ f.req.generation # client.status.generation \/ f.req.before # client.status.before
    BY <2>1, <2>3, ClientFacts DEF ApplyPage
  <2>4. CASE ~(\/ f.req # pending \/ f.req.channel # client.channel \/ f.req.epoch # client.epoch
               \/ f.req.generation # client.status.generation \/ f.req.before # client.status.before)
    <3> DEFINE shown == client.shown \cup f.page.msgs
               status == [client.status EXCEPT !.before = f.page.next, !.more = f.page.more]
    <3>1. f.req.channel = client.channel
      BY <2>4
    <3>2. ~ \E s \in f.page.msgs : log[s].channel # client.channel \/ s >= f.req.before
      BY <2>2, <3>1 DEF Of
    <3>3. shown \in SUBSET Nat /\ \A s \in shown : Of(s, client.channel)
      BY <2>1, <2>2, <3>1, ClientFacts
    <3>4. status \in Statuses
      BY <2>1, ClientFacts DEF Statuses
    <3>5. Apply(client, f) \in {[client EXCEPT !.limited = TRUE],
                                [client EXCEPT !.shown = shown, !.status = status]}
      BY <2>1, <2>4, <3>2 DEF ApplyPage
    <3> HIDE DEF shown, status
    <3>6. CASE Apply(client, f) = [client EXCEPT !.limited = TRUE]
      BY <3>6, ClientFacts DEF Clients
    <3>7. CASE Apply(client, f) = [client EXCEPT !.shown = shown, !.status = status]
      <4>1. /\ Apply(client, f) \in Clients /\ Apply(client, f).epoch = client.epoch
            /\ Apply(client, f).channel = client.channel /\ Apply(client, f).invalid = client.invalid
            /\ Apply(client, f).shown = shown
        BY <3>3, <3>4, <3>7, ClientFacts DEF Clients
      <4> QED
        BY <3>3, <4>1, ClientFacts
    <3> QED
      BY <3>5, <3>6, <3>7
  <2> QED
    BY <2>3, <2>4
<1> QED
  BY <1>1, <1>2, <1>3 DEF Chats, Items

LEMMA WriteControlInv == ASSUME Inv, WriteControl PROVE Inv'
<1> DEFINE f == Head(out)
<1>1. /\ out # <<>> /\ client' = Apply(client, f) /\ out' = Tail(out)
      /\ pending' \in {pending, NoRequest}
      /\ UNCHANGED <<log, retained, peer, run, handler, requests, sent, chatOut>>
  BY DEF WriteControl, Writes
<1>2. /\ f \in Controls /\ f = out[1] /\ 1 \in 1 .. Len(out) /\ out' \in Seq(Controls)
      /\ Len(out) \in Nat /\ Len(out') = Len(out) - 1
      /\ \A i \in 1 .. Len(out') : out'[i] = out[i + 1] /\ i + 1 \in 1 .. Len(out) /\ 1 < i + 1
  <2>1. /\ f \in Controls /\ out' \in Seq(Controls) /\ Len(out') = Len(out) - 1
        /\ Len(out) \in Nat /\ \A i \in 1 .. Len(out') : out'[i] = out[i + 1]
    BY <1>1, HeadTailProperties, LenProperties DEF Inv, TypeInv
  <2>2. f = out[1] /\ Len(out) # 0
    BY <1>1 DEF Inv, TypeInv
  <2> HIDE DEF f
  <2> QED
    BY <2>1, <2>2
<1> HIDE DEF f
<1>3. PICK Chan \in [Nat -> Channels] : EpochInv(Chan)
  BY DEF Inv
<1>4. f.kind = "state" => /\ client.epoch < f.epoch /\ f.epoch <= peer.epoch
                          /\ Chan[f.epoch] = f.channel
  BY <1>2, <1>3 DEF EpochInv, StateInv
<1>5. /\ client' \in Clients /\ client'.invalid = FALSE
      /\ \/ /\ f.kind # "state" /\ client'.epoch = client.epoch
            /\ client'.channel = client.channel /\ client'.shown = client.shown
         \/ /\ f.kind = "state" /\ client'.epoch = f.epoch
            /\ client'.channel = f.channel /\ client'.shown = {}
  BY <1>1, <1>2, <1>4, ControlApplied
<1>6. TypeInv'
  BY <1>1, <1>2, <1>5, ConstantFacts DEF Inv, TypeInv
<1>7. PageInv' /\ RunInv' /\ HandlerInv' /\ StoredWhereMeant'
  BY <1>1 DEF Inv, PageInv, RunInv, HandlerInv, StoredWhereMeant, Asked, Of
<1>8. ShownHere' /\ NeverInvalid'
  BY <1>1, <1>5 DEF Inv, ShownHere, NeverInvalid, Of
<1>9. PlaceInv(Chan)'
  BY <1>1, <1>3, <1>4, <1>5 DEF EpochInv, PlaceInv
<1>10. StateInv(Chan)'
  <2>1. \A i \in 1 .. Len(out') : out'[i].kind = "state" =>
            /\ client'.epoch < out'[i].epoch /\ out'[i].epoch <= peer.epoch
            /\ Chan[out'[i].epoch] = out'[i].channel
    BY <1>2, <1>3, <1>5 DEF EpochInv, StateInv
  <2>2. ASSUME NEW i \in 1 .. Len(out'), NEW j \in 1 .. Len(out'), i < j,
               out'[i].kind = "state", out'[j].kind = "state"
        PROVE  out'[i].epoch < out'[j].epoch
    <3>1. /\ out'[i] = out[i + 1] /\ out'[j] = out[j + 1] /\ i + 1 \in 1 .. Len(out)
          /\ j + 1 \in 1 .. Len(out) /\ i + 1 < j + 1
      BY <1>2, <2>2
    <3> QED
      BY <1>3, <2>2, <3>1 DEF EpochInv, StateInv
  <2> QED
    BY <1>1, <2>1, <2>2 DEF StateInv
<1>11. FrameInv(Chan)'
  BY <1>1, <1>3 DEF EpochInv, FrameInv, RightEpoch, Of
<1> QED
  BY <1>3, <1>6, <1>7, <1>8, <1>9, <1>10, <1>11 DEF Inv, EpochInv

LEMMA WriteChatInv == ASSUME Inv, WriteChat PROVE Inv'
<1> DEFINE f == Head(chatOut)
<1>1. /\ chatOut # <<>> /\ client' = Apply(client, f) /\ chatOut' = Tail(chatOut)
      /\ pending' \in {pending, NoRequest}
      /\ UNCHANGED <<log, retained, peer, run, handler, requests, sent, out>>
  BY DEF WriteChat, Writes
<1>2. /\ f \in Chats /\ f = chatOut[1] /\ 1 \in 1 .. Len(chatOut) /\ chatOut' \in Seq(Chats)
      /\ \A i \in 1 .. Len(chatOut') : chatOut'[i] = chatOut[i + 1] /\ i + 1 \in 1 .. Len(chatOut)
  <2>1. /\ f \in Chats /\ chatOut' \in Seq(Chats) /\ Len(chatOut') = Len(chatOut) - 1
        /\ Len(chatOut) \in Nat /\ \A i \in 1 .. Len(chatOut') : chatOut'[i] = chatOut[i + 1]
    BY <1>1, HeadTailProperties, LenProperties DEF Inv, TypeInv
  <2>2. f = chatOut[1] /\ Len(chatOut) # 0
    BY <1>1 DEF Inv, TypeInv
  <2> HIDE DEF f
  <2> QED
    BY <2>1, <2>2
<1> HIDE DEF f
<1>3. PICK Chan \in [Nat -> Channels] : EpochInv(Chan)
  BY DEF Inv
<1>4. /\ f.kind = "message" /\ f.epoch = client.epoch => Of(f.seq, client.channel)
      /\ f.kind = "page" => Asked(f.page.msgs, f.req)
  BY <1>2, <1>3 DEF EpochInv, PlaceInv, FrameInv, RightEpoch, Inv, PageInv
<1>5. /\ client' \in Clients /\ client'.invalid = FALSE /\ client'.epoch = client.epoch
      /\ client'.channel = client.channel /\ \A s \in client'.shown : Of(s, client.channel)
  BY <1>1, <1>2, <1>4, ChatApplied
<1>6. TypeInv'
  BY <1>1, <1>2, <1>5, ConstantFacts DEF Inv, TypeInv
<1>7. RunInv' /\ HandlerInv' /\ StoredWhereMeant'
  BY <1>1 DEF Inv, RunInv, HandlerInv, StoredWhereMeant, Of
<1>8. PageInv'
  BY <1>1, <1>2 DEF Inv, PageInv, Asked, Of
<1>9. ShownHere' /\ NeverInvalid'
  BY <1>1, <1>5 DEF ShownHere, NeverInvalid, Of
<1>10. PlaceInv(Chan)' /\ StateInv(Chan)'
  BY <1>1, <1>3, <1>5 DEF EpochInv, PlaceInv, StateInv
<1>11. FrameInv(Chan)'
  BY <1>1, <1>2, <1>3 DEF EpochInv, FrameInv, RightEpoch, Of
<1> QED
  BY <1>3, <1>6, <1>7, <1>8, <1>9, <1>10, <1>11 DEF Inv, EpochInv

LEMMA ConnectionEndsInv == ASSUME Inv, ConnectionEnds PROVE Inv'
<1>1. /\ out' = <<>> /\ chatOut' = <<>> /\ requests' = <<>> /\ run' = IdleRun
      /\ handler' = IdleHandler /\ pending' = NoRequest
      /\ UNCHANGED <<log, retained, peer, client, sent>>
  BY DEF ConnectionEnds
<1>2. Len(out') = 0 /\ Len(chatOut') = 0
  BY <1>1
<1>3. TypeInv'
  BY <1>1, ConstantFacts, EmptySeq DEF Inv, TypeInv
<1>4. /\ run'.at = NewPeer /\ run'.item.kind = "status" /\ run'.todo = {} /\ run'.pc = "idle"
      /\ handler'.pc = "idle" /\ NewPeer.epoch = 1 /\ NewPeer.channel = Home
  BY <1>1 DEF IdleRun, NoStatus, NewPeer, IdleHandler
<1>5. /\ PageInv' /\ RunInv' /\ HandlerInv' /\ ShownHere' /\ NeverInvalid'
      /\ StoredWhereMeant'
  BY <1>1, <1>2, <1>4
     DEF Inv, PageInv, RunInv, HandlerInv, ShownHere, NeverInvalid, StoredWhereMeant, Of
<1>6. PICK Chan \in [Nat -> Channels] : EpochInv(Chan)
  BY DEF Inv
<1>7. PlaceInv(Chan)'
  BY <1>1, <1>4, <1>6 DEF EpochInv, PlaceInv
<1>8. StateInv(Chan)' /\ FrameInv(Chan)'
  BY <1>2, <1>4 DEF StateInv, FrameInv, RightEpoch
<1> QED
  BY <1>3, <1>5, <1>6, <1>7, <1>8 DEF Inv, EpochInv

-----------------------------------------------------------------------------
LEMMA NextInv == Inv /\ [Next]_vars => Inv'
<1> SUFFICES ASSUME Inv, [Next]_vars PROVE Inv'
  OBVIOUS
<1>1. CASE \E c \in Channels : Publish(c) \/ Evict(c) \/ MovedByOther(c)
  BY <1>1, PublishInv, EvictInv, MovesInv
<1>2. CASE HandleMove \/ HandleAccount \/ HandleSync \/ HandleChat \/ HandleHistory \/ Refuse \/ HandlerStep
  BY <1>2, MovesInv, HandleInv, RefuseInv, HistoryReadInv, HistoryPushInv, HistoryFailsInv,
     ChatPublishedInv DEF HandlerStep
<1>3. CASE ChatLoopStep \/ ChatStall \/ StorageFails
  BY <1>3, LoopStarts, ReadsInv, EmitInv, ChatPushInv, FailedInv DEF ChatLoopStep
<1>4. CASE WriteLoopStep \/ ConnectionEnds
  BY <1>4, WriteControlInv, WriteChatInv, IdleInv, ConnectionEndsInv DEF WriteLoopStep
<1>5. CASE \/ \E kind \in {"move", "account", "sync", "chat"}, c \in Channels : ClientCommand(kind, c)
           \/ ClientHistory \/ ClientTimeout
  BY <1>5, CommandInv, IdleInv
<1>6. CASE UNCHANGED vars
  <2>1. TypeInv' /\ HandlerInv'
    BY <1>6 DEF vars, Inv, TypeInv, HandlerInv
  <2> QED
    BY <1>6, <2>1, QuietStep DEF vars
<1> QED
  BY <1>1, <1>2, <1>3, <1>4, <1>5, <1>6 DEF Next

LEMMA InvHolds == Spec => []Inv
BY InitInv, NextInv, PTL DEF Spec

(* The client never meets a frame that its Driver rejects: for any number  *)
(* of moves, reloads and late frames.                                      *)
THEOREM FramesNeverInvalid == Spec => []NeverInvalid
<1>1. Inv => NeverInvalid
  BY DEF Inv
<1> QED
  BY <1>1, InvHolds, PTL

(* A message is stored in the channel its author wrote it for.             *)
THEOREM MessagesStoredWhereMeant == Spec => []StoredWhereMeant
<1>1. Inv => StoredWhereMeant
  BY DEF Inv
<1> QED
  BY <1>1, InvHolds, PTL

(* What the client shows is stored and of the channel it shows, although   *)
(* frames of earlier channels reach it after a move.                       *)
THEOREM ShowsItsChannel == Spec => []ShownHere
<1>1. Inv => ShownHere
  BY DEF Inv
<1> QED
  BY <1>1, InvHolds, PTL
-----------------------------------------------------------------------------
(* No gaps.  What follows is about a client c, the place p of the member,  *)
(* a queue q of chat frames and the messages T that are stored in p's      *)
(* channel.                                                                *)

IsStatus(p, f) == f.kind = "status" /\ f.epoch = p.epoch /\ f.generation = p.generation

IsReady(p, f) == IsStatus(p, f) /\ f.status = 1

IsMessage(p, f) == f.kind = "message" /\ f.epoch = p.epoch

(* The client's limit has dropped s, and has room for nothing as old.      *)
Dropped(c, s) == c.limited /\ Cardinality(c.shown) = MaxShown /\ \A m \in c.shown : s < m

Got(c, p, s) == c.epoch = p.epoch /\ (s \in c.shown \/ Dropped(c, s))

(* The client has got s when it comes to frame k.                          *)
Has(c, p, q, s, k) == Got(c, p, s) \/ \E j \in 1 .. k - 1 : IsMessage(p, q[j]) /\ q[j].seq = s

(* Frame k meets a chat that is ready since frame i, or at the client.     *)
OpenAt(c, p, q, i) ==
    IF i = 0 THEN c.epoch = p.epoch /\ c.status.status = 1 /\ c.status.generation = p.generation
    ELSE IsReady(p, q[i])

OpenFor(c, p, q, i, k) ==
    i \in 0 .. k - 1 /\ OpenAt(c, p, q, i) /\ \A j \in i + 1 .. k - 1 : ~IsStatus(p, q[j])

CursorAt(c, q, i) == IF i = 0 THEN c.status.before ELSE q[i].before

UpTo(c, p, q, T, i, k, n) == \A s \in T : CursorAt(c, q, i) <= s /\ s < n => Has(c, p, q, s, k)

(* A live message comes after all stored messages before it.               *)
LiveOK(c, p, q, T) ==
    \A k \in 1 .. Len(q) : IsMessage(p, q[k]) =>
        \A i \in 0 .. k - 1 : OpenFor(c, p, q, i, k) => UpTo(c, p, q, T, i, k, q[k].seq)

FrameBelow(f, x) ==
    /\ f.kind = "status" => f.before < x
    /\ f.kind = "message" => f.seq < x
    /\ f.kind = "page" => f.req.before < x

(* What is stored is later than all that comes before frame i.             *)
Later(c, q, s, i) == (\A m \in c.shown : m < s) /\ (\A j \in 1 .. i - 1 : FrameBelow(q[j], s))

(* When the chat is said to be ready, the page has come before.            *)
ReadyOK(c, p, q, T) ==
    \A i \in 1 .. Len(q) : IsReady(p, q[i]) =>
        \A s \in T : q[i].before <= s =>
            Has(c, p, q, s, i) \/ (q[i].before < s /\ Later(c, q, s, i))

QueueOK(c, p, q, T) == LiveOK(c, p, q, T) /\ ReadyOK(c, p, q, T)

(* The chat that the next frame of the queue will meet.                    *)
ClosedOK(c, p, q) == \A i \in 0 .. Len(q) : ~OpenFor(c, p, q, i, Len(q) + 1)

ReachOK(c, p, q, T, n) ==
    \A i \in 0 .. Len(q) : OpenFor(c, p, q, i, Len(q) + 1) => UpTo(c, p, q, T, i, Len(q) + 1, n)

(* GapFree, said of the client alone.                                      *)
NoGap(c, T) ==
    c.status.status = 1 =>
        \A s \in T, m \in c.shown \cup {c.status.before} :
            c.status.before <= s /\ s <= m => s \in c.shown \/ Dropped(c, s)

-----------------------------------------------------------------------------
(* Every number on its way is below x.                                     *)
Below(x) ==
    /\ \A m \in client.shown : m < x
    /\ client.status.before < x /\ pending.before < x /\ handler.req.before < x
    /\ \A i \in 1 .. Len(requests) : requests[i].before < x
    /\ \A i \in 1 .. Len(chatOut) : FrameBelow(chatOut[i], x)

NumberInv == Below(Len(log) + 1)

Busy == run.pc \notin {"idle", "begin"}

TodoInv ==
    /\ run.position <= Len(log) /\ run.page.next <= run.position
    /\ \A s \in run.todo : s <= run.position
    /\ run.pc = "boundary" => run.position = 0

(* A run is canceled exactly when it is for an earlier generation.         *)
CancelInv ==
    /\ ~Busy => ~run.canceled
    /\ Busy /\ ~run.canceled => run.at = peer
    /\ Busy /\ run.canceled => run.at.generation < peer.generation

ItemInv ==
    /\ run.pc = "pushHistory" => /\ run.item.kind = "message" /\ run.item.epoch = run.at.epoch
                                 /\ run.item.seq \in run.todo
    /\ run.pc = "pushReady" => run.item = StatusOf(run.at, 1, run.page) /\ run.todo = {}
    /\ run.pc = "pushLive" =>
          /\ run.item.kind = "message" /\ run.item.epoch = run.at.epoch
          /\ run.position < run.item.seq /\ run.item.seq <= Len(log)
          /\ \A s \in Stored(run.at.channel) : run.position < s => run.item.seq <= s
    /\ run.pc = "pushFailed" => run.item = StatusOf(run.at, 2, EmptyPage)

GenerationInv ==
    /\ client.status.generation <= peer.generation
    /\ \A i \in 1 .. Len(chatOut) : chatOut[i].kind = "status" =>
          /\ chatOut[i].epoch <= peer.epoch /\ chatOut[i].generation <= peer.generation
          /\ chatOut[i].epoch = peer.epoch => chatOut[i].channel = peer.channel
    /\ \A i \in 1 .. Len(out) : out[i].kind = "status" =>
          out[i].generation <= peer.generation /\ out[i].status = 0 /\ out[i].before = 0

(* The client will learn of the member's epoch, ...                        *)
ToldInv == client.epoch = peer.epoch \/ \E i \in 1 .. Len(out) : out[i] = StateOf(peer)

(* ... and of its generation if anything of an earlier one may come, or    *)
(* has come.                                                               *)
Announced ==
    \/ client.epoch = peer.epoch /\ client.status.generation = peer.generation
    \/ \E i \in 1 .. Len(out) : /\ out[i] = StatusOf(peer, 0, EmptyPage)
                                /\ \A j \in i .. Len(out) : out[j].kind # "state"

Outdated(p) == p.epoch = peer.epoch /\ p.generation < peer.generation

StaleInv ==
    \/ Announced
    \/ /\ \A i \in 1 .. Len(chatOut) : chatOut[i].kind = "status" => ~Outdated(chatOut[i])
       /\ Busy => ~Outdated(run.at)
       /\ client.epoch = peer.epoch => client.status.status # 1

(* A history page has all that is stored between its ends.                 *)
Whole(page, req) ==
    /\ page.next <= req.before
    /\ \A s \in Stored(req.channel) : page.next <= s /\ s < req.before => s \in page.msgs

WholeInv ==
    /\ \A i \in 1 .. Len(chatOut) : chatOut[i].kind = "page" => Whole(chatOut[i].page, chatOut[i].req)
    /\ handler.pc = "push" => Whole(handler.page, handler.req)

Here == Stored(peer.channel)

(* What is stored after the boundary is later than all that is on its way. *)
FreshInv ==
    run.pc \in {"page", "history", "pushHistory", "pushReady"} /\ run.at = peer =>
        \A s \in Here : run.position < s => Below(s)

(* Of the page, what is not yet to be sent is on its way.                  *)
HistoryInv ==
    run.pc \in {"history", "pushHistory", "pushReady"} /\ run.at = peer =>
        \A s \in Here : run.page.next <= s /\ s <= run.position =>
            s \in run.todo \/ Has(client, peer, chatOut, s, Len(chatOut) + 1)

(* A live run has sent all up to its position.                             *)
LiveInv ==
    run.pc \in {"live", "pushLive"} /\ run.at = peer =>
        ReachOK(client, peer, chatOut, Here, run.position + 1)

(* No chat is ready unless a run is live, or has failed and not said so.   *)
ClosedInv ==
    run.pc \notin {"live", "pushLive", "failed", "pushFailed"} \/ run.at # peer =>
        ClosedOK(client, peer, chatOut)

QueueInv == QueueOK(client, peer, chatOut, Here)

CacheInv == Cardinality(client.shown) <= MaxShown

Detail ==
    /\ NumberInv /\ TodoInv /\ CancelInv /\ ItemInv /\ GenerationInv /\ ToldInv /\ StaleInv
    /\ WholeInv /\ FreshInv /\ HistoryInv /\ LiveInv /\ ClosedInv /\ QueueInv

GapInv ==
    /\ CacheInv
    /\ excused = {} => NoGap(client, Stored(client.channel))
    /\ open /\ excused = {} => Detail
-----------------------------------------------------------------------------
(* A frame is added to the queue.                                          *)

LEMMA AppendFacts ==
    ASSUME NEW q \in Seq(Chats), NEW f \in Chats
    PROVE  /\ Append(q, f) \in Seq(Chats) /\ Len(q) \in Nat /\ Len(Append(q, f)) = Len(q) + 1
           /\ Append(q, f)[Len(q) + 1] = f /\ \A j \in 1 .. Len(q) : Append(q, f)[j] = q[j]
OBVIOUS

LEMMA HasMore ==
    ASSUME NEW c, NEW p, NEW q, NEW s, NEW k \in Nat, NEW l \in Nat, k <= l, Has(c, p, q, s, k)
    PROVE  Has(c, p, q, s, l)
BY DEF Has

LEMMA AppendHas ==
    ASSUME NEW c, NEW p, NEW q \in Seq(Chats), NEW f \in Chats, NEW s, NEW k \in 1 .. Len(q) + 1
    PROVE  Has(c, p, Append(q, f), s, k) <=> Has(c, p, q, s, k)
<1> DEFINE r == Append(q, f)
<1>1. \A j \in 1 .. k - 1 : r[j] = q[j]
  BY AppendFacts
<1> HIDE DEF r
<1>2. Has(c, p, r, s, k) <=> Has(c, p, q, s, k)
  BY <1>1 DEF Has
<1> QED
  BY <1>2 DEF r

LEMMA AppendOpen ==
    ASSUME NEW c, NEW p, NEW q \in Seq(Chats), NEW f \in Chats
    PROVE  /\ \A i \in 0 .. Len(q) : CursorAt(c, Append(q, f), i) = CursorAt(c, q, i)
           /\ CursorAt(c, Append(q, f), Len(q) + 1) = f.before
           /\ \A k \in 1 .. Len(q) + 1 : \A i \in 0 .. k - 1 :
                 OpenFor(c, p, Append(q, f), i, k) <=> OpenFor(c, p, q, i, k)
           /\ \A i \in 0 .. Len(q) + 1 : OpenFor(c, p, Append(q, f), i, Len(q) + 2) =>
                 \/ i = Len(q) + 1 /\ IsReady(p, f)
                 \/ i \in 0 .. Len(q) /\ OpenFor(c, p, q, i, Len(q) + 1) /\ ~IsStatus(p, f)
<1> DEFINE r == Append(q, f)
<1>1. Len(q) \in Nat /\ r[Len(q) + 1] = f /\ \A j \in 1 .. Len(q) : r[j] = q[j]
  BY AppendFacts
<1> HIDE DEF r
<1>2. \A i \in 0 .. Len(q) : CursorAt(c, r, i) = CursorAt(c, q, i) /\ (OpenAt(c, p, r, i) <=> OpenAt(c, p, q, i))
  <2> SUFFICES ASSUME NEW i \in 0 .. Len(q)
               PROVE  CursorAt(c, r, i) = CursorAt(c, q, i) /\ (OpenAt(c, p, r, i) <=> OpenAt(c, p, q, i))
    OBVIOUS
  <2>1. i # 0 => r[i] = q[i]
    BY <1>1
  <2> QED
    BY <2>1 DEF CursorAt, OpenAt
<1>3. CursorAt(c, r, Len(q) + 1) = f.before /\ (OpenAt(c, p, r, Len(q) + 1) <=> IsReady(p, f))
  BY <1>1 DEF CursorAt, OpenAt
<1>4. ASSUME NEW k \in 1 .. Len(q) + 1, NEW i \in 0 .. k - 1
      PROVE  OpenFor(c, p, r, i, k) <=> OpenFor(c, p, q, i, k)
  <2>1. OpenAt(c, p, r, i) <=> OpenAt(c, p, q, i)
    BY <1>1, <1>2
  <2>2. \A j \in i + 1 .. k - 1 : r[j] = q[j]
    BY <1>1
  <2> QED
    BY <2>1, <2>2 DEF OpenFor
<1>5. ASSUME NEW i \in 0 .. Len(q) + 1, OpenFor(c, p, r, i, Len(q) + 2)
      PROVE  \/ i = Len(q) + 1 /\ IsReady(p, f)
             \/ i \in 0 .. Len(q) /\ OpenFor(c, p, q, i, Len(q) + 1) /\ ~IsStatus(p, f)
  <2>1. CASE i = Len(q) + 1
    BY <1>3, <1>5, <2>1 DEF OpenFor
  <2>2. CASE i # Len(q) + 1
    <3>1. i \in 0 .. Len(q) /\ i \in 0 .. Len(q) + 1 - 1
      BY <1>1, <2>2
    <3>2. ~IsStatus(p, f)
      BY <1>1, <1>5, <3>1 DEF OpenFor
    <3>3. \A j \in i + 1 .. Len(q) : ~IsStatus(p, q[j])
      BY <1>1, <1>5, <3>1 DEF OpenFor
    <3>4. OpenAt(c, p, q, i)
      BY <1>2, <1>5, <3>1 DEF OpenFor
    <3> QED
      BY <1>1, <3>1, <3>2, <3>3, <3>4 DEF OpenFor
  <2> QED
    BY <2>1, <2>2
<1> QED
  BY <1>2, <1>3, <1>4, <1>5 DEF r

LEMMA AppendQueue ==
    ASSUME NEW c, NEW p, NEW q \in Seq(Chats), NEW f \in Chats, NEW T \in SUBSET Nat,
           QueueOK(c, p, q, T),
           IsMessage(p, f) => ReachOK(c, p, q, T, f.seq),
           IsReady(p, f) => \A s \in T : f.before <= s =>
               \/ Has(c, p, q, s, Len(q) + 1)
               \/ f.before < s /\ (\A m \in c.shown : m < s) /\ \A j \in 1 .. Len(q) : FrameBelow(q[j], s)
    PROVE  QueueOK(c, p, Append(q, f), T)
<1> DEFINE r == Append(q, f)
<1>1. /\ Len(q) \in Nat /\ Len(r) = Len(q) + 1
      /\ r[Len(q) + 1] = f /\ \A j \in 1 .. Len(q) : r[j] = q[j]
  BY AppendFacts
<1>2. \A s : \A k \in 1 .. Len(q) + 1 : Has(c, p, r, s, k) <=> Has(c, p, q, s, k)
  BY AppendHas
<1>3. /\ \A i \in 0 .. Len(q) : CursorAt(c, r, i) = CursorAt(c, q, i)
      /\ \A k \in 1 .. Len(q) + 1 : \A i \in 0 .. k - 1 : OpenFor(c, p, r, i, k) <=> OpenFor(c, p, q, i, k)
  BY AppendOpen
<1> HIDE DEF r
<1>4. ASSUME NEW k \in 1 .. Len(r), IsMessage(p, r[k]), NEW i \in 0 .. k - 1, OpenFor(c, p, r, i, k),
             NEW s \in T, CursorAt(c, r, i) <= s, s < r[k].seq
      PROVE  Has(c, p, r, s, k)
  <2>1. k \in 1 .. Len(q) + 1 /\ i \in 0 .. Len(q)
    BY <1>1
  <2>2. OpenFor(c, p, q, i, k) /\ CursorAt(c, q, i) <= s
    BY <1>3, <1>4, <2>1
  <2>3. CASE k = Len(q) + 1
    <3>1. r[k] = f /\ ReachOK(c, p, q, T, f.seq)
      BY <1>1, <1>4, <2>3
    <3>2. UpTo(c, p, q, T, i, k, f.seq)
      BY <2>1, <2>2, <2>3, <3>1 DEF ReachOK
    <3> QED
      BY <1>2, <1>4, <2>1, <2>2, <3>1, <3>2 DEF UpTo
  <2>4. CASE k # Len(q) + 1
    <3>1. k \in 1 .. Len(q) /\ r[k] = q[k]
      BY <1>1, <2>1, <2>4
    <3>2. UpTo(c, p, q, T, i, k, q[k].seq)
      BY <1>4, <2>2, <3>1 DEF QueueOK, LiveOK
    <3> QED
      BY <1>2, <1>4, <2>1, <2>2, <3>1, <3>2 DEF UpTo
  <2> QED
    BY <2>3, <2>4
<1>5. LiveOK(c, p, r, T)
  BY <1>4 DEF LiveOK, UpTo
<1>6. ASSUME NEW i \in 1 .. Len(r), IsReady(p, r[i]), NEW s \in T, r[i].before <= s
      PROVE  Has(c, p, r, s, i) \/ (r[i].before < s /\ Later(c, r, s, i))
  <2>1. i \in 1 .. Len(q) + 1
    BY <1>1
  <2>2. Later(c, q, s, i) => Later(c, r, s, i)
    <3>1. \A j \in 1 .. i - 1 : r[j] = q[j]
      BY <1>1, <2>1
    <3> QED
      BY <3>1 DEF Later
  <2>3. CASE i = Len(q) + 1
    BY <1>1, <1>2, <1>6, <2>1, <2>2, <2>3 DEF Later
  <2>4. CASE i # Len(q) + 1
    <3>1. i \in 1 .. Len(q) /\ r[i] = q[i]
      BY <1>1, <2>1, <2>4
    <3>2. Has(c, p, q, s, i) \/ (q[i].before < s /\ Later(c, q, s, i))
      BY <1>6, <3>1 DEF QueueOK, ReadyOK
    <3> QED
      BY <1>2, <2>1, <2>2, <3>1, <3>2
  <2> QED
    BY <2>3, <2>4
<1>7. ReadyOK(c, p, r, T)
  BY <1>6 DEF ReadyOK
<1> QED
  BY <1>5, <1>7 DEF QueueOK, r

LEMMA AppendClosed ==
    ASSUME NEW c, NEW p, NEW q \in Seq(Chats), NEW f \in Chats, ~IsReady(p, f),
           ClosedOK(c, p, q) \/ IsStatus(p, f)
    PROVE  ClosedOK(c, p, Append(q, f))
<1>1. Len(Append(q, f)) = Len(q) + 1 /\ Len(q) \in Nat
  BY AppendFacts
<1>2. \A i \in 0 .. Len(q) + 1 : ~OpenFor(c, p, Append(q, f), i, Len(q) + 2)
  BY AppendOpen DEF ClosedOK
<1>3. Len(q) + 1 + 1 = Len(q) + 2
  BY <1>1
<1> QED
  BY <1>1, <1>2, <1>3 DEF ClosedOK

(* All up to m has been sent with f, if all up to n was before it.         *)
LEMMA AppendReach ==
    ASSUME NEW c, NEW p, NEW q \in Seq(Chats), NEW f \in Chats, NEW T \in SUBSET Nat,
           NEW n \in Nat, NEW m \in Nat, ~IsReady(p, f), ReachOK(c, p, q, T, n),
           \A s \in T : n <= s /\ s < m => IsMessage(p, f) /\ f.seq = s
    PROVE  ReachOK(c, p, Append(q, f), T, m)
<1> DEFINE r == Append(q, f)
<1>1. Len(r) = Len(q) + 1 /\ Len(q) \in Nat /\ r[Len(q) + 1] = f
  BY AppendFacts
<1>2. \A s : Has(c, p, r, s, Len(q) + 1) <=> Has(c, p, q, s, Len(q) + 1)
  BY <1>1, AppendHas
<1>3. \A i \in 0 .. Len(q) + 1 : OpenFor(c, p, r, i, Len(q) + 2) =>
          /\ i \in 0 .. Len(q) /\ OpenFor(c, p, q, i, Len(q) + 1)
          /\ CursorAt(c, r, i) = CursorAt(c, q, i)
  BY AppendOpen
<1> HIDE DEF r
<1>4. ASSUME NEW i \in 0 .. Len(q) + 1, OpenFor(c, p, r, i, Len(q) + 2), NEW s \in T,
             CursorAt(c, r, i) <= s, s < m
      PROVE  Has(c, p, r, s, Len(q) + 2)
  <2>1. CASE s < n
    <3>1. Has(c, p, q, s, Len(q) + 1)
      BY <1>3, <1>4, <2>1 DEF ReachOK, UpTo
    <3>2. Has(c, p, r, s, Len(q) + 1)
      BY <1>2, <3>1
    <3> QED
      BY <1>1, <3>2, HasMore
  <2>2. CASE ~(s < n)
    <3>1. IsMessage(p, r[Len(q) + 1]) /\ r[Len(q) + 1].seq = s
      BY <1>1, <1>4, <2>2
    <3>2. Len(q) + 1 \in 1 .. Len(q) + 2 - 1
      BY <1>1
    <3> QED
      BY <3>1, <3>2 DEF Has
  <2> QED
    BY <2>1, <2>2
<1>5. Len(q) + 1 + 1 = Len(q) + 2
  BY <1>1
<1>6. ReachOK(c, p, r, T, m)
  BY <1>1, <1>4, <1>5 DEF ReachOK, UpTo
<1> QED
  BY <1>6 DEF r

(* The chat is ready with f.                                               *)
LEMMA ReadyReach ==
    ASSUME NEW c, NEW p, NEW q \in Seq(Chats), NEW f \in Chats, NEW T \in SUBSET Nat, NEW n \in Nat,
           IsReady(p, f), \A s \in T : f.before <= s /\ s < n => Has(c, p, q, s, Len(q) + 1)
    PROVE  ReachOK(c, p, Append(q, f), T, n)
<1> DEFINE r == Append(q, f)
<1>1. Len(r) = Len(q) + 1 /\ Len(q) \in Nat
  BY AppendFacts
<1>2. \A s : Has(c, p, r, s, Len(q) + 1) <=> Has(c, p, q, s, Len(q) + 1)
  BY <1>1, AppendHas
<1>3. \A i \in 0 .. Len(q) + 1 : OpenFor(c, p, r, i, Len(q) + 2) => CursorAt(c, r, i) = f.before
  BY AppendOpen DEF IsReady
<1> HIDE DEF r
<1>4. ASSUME NEW i \in 0 .. Len(q) + 1, OpenFor(c, p, r, i, Len(q) + 2), NEW s \in T,
             CursorAt(c, r, i) <= s, s < n
      PROVE  Has(c, p, r, s, Len(q) + 2)
  <2>1. Has(c, p, r, s, Len(q) + 1)
    BY <1>2, <1>3, <1>4
  <2> QED
    BY <1>1, <2>1, HasMore
<1>5. Len(q) + 1 + 1 = Len(q) + 2
  BY <1>1
<1>6. ReachOK(c, p, r, T, n)
  BY <1>1, <1>4, <1>5 DEF ReachOK, UpTo
<1> QED
  BY <1>6 DEF r

(* What is stored changes: only later messages are added.                  *)
LEMMA StoreQueue ==
    ASSUME NEW c, NEW p, NEW q \in Seq(Chats), NEW T \in SUBSET Nat, NEW U \in SUBSET Nat,
           QueueOK(c, p, q, T),
           \A s \in U : s \in T \/ (/\ \A m \in c.shown : m < s
                                    /\ \A j \in 1 .. Len(q) : FrameBelow(q[j], s))
    PROVE  QueueOK(c, p, q, U)
<1>0. \A k \in 1 .. Len(q) : IsMessage(p, q[k]) => q[k].seq \in Nat
  BY DEF IsMessage, Chats, Items, Messages, Statuses, PageFrames
<1>1. ASSUME NEW k \in 1 .. Len(q), IsMessage(p, q[k]), NEW i \in 0 .. k - 1, OpenFor(c, p, q, i, k),
             NEW s \in U, CursorAt(c, q, i) <= s, s < q[k].seq
      PROVE  Has(c, p, q, s, k)
  <2>1. CASE s \in T
    BY <1>1, <2>1 DEF QueueOK, LiveOK, UpTo
  <2>2. CASE s \notin T
    <3>1. q[k].seq < s
      BY <1>1, <2>2 DEF FrameBelow, IsMessage
    <3>2. q[k].seq \in Nat /\ s \in Nat
      BY <1>0, <1>1
    <3> QED
      BY <1>1, <3>1, <3>2
  <2> QED
    BY <2>1, <2>2
<1>2. ASSUME NEW i \in 1 .. Len(q), IsReady(p, q[i]), NEW s \in U, q[i].before <= s
      PROVE  Has(c, p, q, s, i) \/ (q[i].before < s /\ Later(c, q, s, i))
  <2>1. CASE s \in T
    BY <1>2, <2>1 DEF QueueOK, ReadyOK
  <2>2. CASE s \notin T
    <3>1. \A j \in 1 .. i - 1 : j \in 1 .. Len(q)
      OBVIOUS
    <3> QED
      BY <1>2, <2>2, <3>1 DEF FrameBelow, IsReady, IsStatus, Later
  <2> QED
    BY <2>1, <2>2
<1> QED
  BY <1>1, <1>2 DEF QueueOK, LiveOK, ReadyOK, UpTo

LEMMA StoreReach ==
    ASSUME NEW c, NEW p, NEW q, NEW T, NEW U, NEW n, ReachOK(c, p, q, T, n),
           \A s \in U : s \in T \/ ~(s < n)
    PROVE  ReachOK(c, p, q, U, n)
BY DEF ReachOK, UpTo

(* The client applies a control frame.                                     *)
LEMMA ControlQueue ==
    ASSUME NEW c, NEW d, NEW p, NEW q \in Seq(Chats), NEW T,
           \A s : Got(c, p, s) => Got(d, p, s), d.shown \subseteq c.shown,
           OpenAt(d, p, q, 0) => OpenAt(c, p, q, 0) /\ d.status.before = c.status.before
    PROVE  /\ \A s : \A k : Has(c, p, q, s, k) => Has(d, p, q, s, k)
           /\ QueueOK(c, p, q, T) => QueueOK(d, p, q, T)
           /\ ClosedOK(c, p, q) => ClosedOK(d, p, q)
           /\ \A n : ReachOK(c, p, q, T, n) => ReachOK(d, p, q, T, n)
<1>1. \A s : \A k : Has(c, p, q, s, k) => Has(d, p, q, s, k)
  BY DEF Has
<1>2. \A i : OpenAt(d, p, q, i) => OpenAt(c, p, q, i) /\ CursorAt(d, q, i) = CursorAt(c, q, i)
  BY DEF OpenAt, CursorAt
<1>3. \A i, k : OpenFor(d, p, q, i, k) => OpenFor(c, p, q, i, k) /\ CursorAt(d, q, i) = CursorAt(c, q, i)
  BY <1>2 DEF OpenFor
<1>4. \A i, k, n : OpenFor(d, p, q, i, k) /\ UpTo(c, p, q, T, i, k, n) => UpTo(d, p, q, T, i, k, n)
  BY <1>1, <1>3 DEF UpTo
<1>5. LiveOK(c, p, q, T) => LiveOK(d, p, q, T)
  BY <1>3, <1>4 DEF LiveOK
<1>6. ReadyOK(c, p, q, T) => ReadyOK(d, p, q, T)
  BY <1>1 DEF ReadyOK, Later
<1>7. ClosedOK(c, p, q) => ClosedOK(d, p, q)
  BY <1>3 DEF ClosedOK
<1>8. \A n : ReachOK(c, p, q, T, n) => ReachOK(d, p, q, T, n)
  BY <1>3, <1>4 DEF ReachOK
<1> QED
  BY <1>1, <1>5, <1>6, <1>7, <1>8 DEF QueueOK

(* The client applies the first frame of the queue.                        *)
LEMMA TailFacts ==
    ASSUME NEW q \in Seq(Chats), q # <<>>
    PROVE  /\ Tail(q) \in Seq(Chats) /\ Len(q) \in Nat /\ Len(q) >= 1 /\ Len(Tail(q)) = Len(q) - 1
           /\ Head(q) = q[1] /\ Head(q) \in Chats
           /\ \A j \in 1 .. Len(q) - 1 : Tail(q)[j] = q[j + 1]
OBVIOUS

LEMMA TailQueue ==
    ASSUME NEW c, NEW d, NEW p, NEW q \in Seq(Chats), q # <<>>, NEW T \in SUBSET Nat,
           NEW f, f = Head(q),
           \A s \in T : Got(c, p, s) \/ (IsMessage(p, f) /\ f.seq = s) => Got(d, p, s),
           \A m \in d.shown : \/ m \in c.shown
                              \/ f.kind = "message" /\ m = f.seq
                              \/ f.kind = "page" /\ m \in Nat /\ m < f.req.before,
           OpenAt(d, p, Tail(q), 0) =>
               \/ IsReady(p, f) /\ d.status.before = f.before
               \/ /\ ~IsStatus(p, f) /\ OpenAt(c, p, q, 0)
                  /\ \A s \in T : d.status.before <= s => c.status.before <= s \/ Got(d, p, s)
    PROVE  /\ \A s \in T : Has(c, p, q, s, Len(q) + 1) => Has(d, p, Tail(q), s, Len(Tail(q)) + 1)
           /\ QueueOK(c, p, q, T) => QueueOK(d, p, Tail(q), T)
           /\ ClosedOK(c, p, q) => ClosedOK(d, p, Tail(q))
           /\ \A n : ReachOK(c, p, q, T, n) => ReachOK(d, p, Tail(q), T, n)
<1> DEFINE r == Tail(q)
<1>1. /\ r \in Seq(Chats) /\ Len(q) \in Nat /\ Len(q) >= 1 /\ Len(r) = Len(q) - 1 /\ f = q[1] /\ f \in Chats
      /\ \A j \in 1 .. Len(q) - 1 : r[j] = q[j + 1]
  BY TailFacts
<1>d. /\ OpenAt(d, p, r, 0) => \/ IsReady(p, f) /\ d.status.before = f.before
                               \/ /\ ~IsStatus(p, f) /\ OpenAt(c, p, q, 0)
                                  /\ \A s \in T : d.status.before <= s => c.status.before <= s \/ Got(d, p, s)
  OBVIOUS
<1> HIDE DEF r
<1>2. ASSUME NEW s \in T, NEW k \in 1 .. Len(r) + 1, Has(c, p, q, s, k + 1) PROVE Has(d, p, r, s, k)
  <2>1. CASE Got(c, p, s)
    BY <2>1 DEF Has
  <2>2. CASE ~Got(c, p, s)
    <3>1. PICK j \in 1 .. k : IsMessage(p, q[j]) /\ q[j].seq = s
      BY <1>2, <2>2 DEF Has
    <3>2. CASE j = 1
      BY <1>1, <3>1, <3>2 DEF Has
    <3>3. CASE j # 1
      <4>1. j - 1 \in 1 .. k - 1 /\ j - 1 \in 1 .. Len(q) - 1 /\ j - 1 + 1 = j
        BY <1>1, <3>3
      <4>2. r[j - 1] = q[j]
        BY <1>1, <4>1
      <4> QED
        BY <3>1, <4>1, <4>2 DEF Has
    <3> QED
      BY <3>2, <3>3
  <2> QED
    BY <2>1, <2>2
<1>3. ASSUME NEW k \in 1 .. Len(r) + 1, NEW i \in 1 .. k - 1, OpenFor(d, p, r, i, k)
      PROVE  i + 1 \in 0 .. k /\ OpenFor(c, p, q, i + 1, k + 1) /\ CursorAt(c, q, i + 1) = CursorAt(d, r, i)
  <2>1. i \in 1 .. Len(q) - 1 /\ i + 1 \in 1 .. k /\ i + 1 # 0 /\ i # 0 /\ r[i] = q[i + 1]
    BY <1>1
  <2>2. OpenAt(c, p, q, i + 1) /\ CursorAt(c, q, i + 1) = CursorAt(d, r, i)
    BY <1>3, <2>1 DEF OpenFor, OpenAt, CursorAt
  <2>3. ASSUME NEW j \in i + 1 + 1 .. k + 1 - 1 PROVE ~IsStatus(p, q[j])
    <3>1. j - 1 \in i + 1 .. k - 1 /\ j - 1 \in 1 .. Len(q) - 1 /\ j - 1 + 1 = j
      BY <1>1, <2>1
    <3>2. r[j - 1] = q[j]
      BY <1>1, <3>1
    <3> QED
      BY <1>3, <3>1, <3>2 DEF OpenFor
  <2>4. i + 1 \in 0 .. k + 1 - 1
    BY <2>1
  <2> QED
    BY <2>2, <2>3, <2>4 DEF OpenFor
<1>4. ASSUME NEW k \in 1 .. Len(r) + 1, OpenFor(d, p, r, 0, k)
      PROVE  \E i \in 0 .. 1 : /\ OpenFor(c, p, q, i, k + 1)
                               /\ \A s \in T : CursorAt(d, r, 0) <= s => CursorAt(c, q, i) <= s \/ Got(d, p, s)
  <2>0. OpenAt(d, p, r, 0) /\ CursorAt(d, r, 0) = d.status.before
    BY <1>4 DEF OpenFor, CursorAt
  <2>1. ASSUME NEW j \in 2 .. k PROVE ~IsStatus(p, q[j])
    <3>1. j - 1 \in 0 + 1 .. k - 1 /\ j - 1 \in 1 .. Len(q) - 1 /\ j - 1 + 1 = j
      BY <1>1
    <3>2. r[j - 1] = q[j]
      BY <1>1, <3>1
    <3> QED
      BY <1>4, <3>1, <3>2 DEF OpenFor
  <2>2. CASE IsReady(p, f) /\ d.status.before = f.before
    <3>1. OpenAt(c, p, q, 1) /\ CursorAt(c, q, 1) = f.before
      BY <1>1, <2>2 DEF OpenAt, CursorAt
    <3>2. OpenFor(c, p, q, 1, k + 1)
      BY <1>1, <2>1, <3>1 DEF OpenFor
    <3> QED
      BY <2>0, <2>2, <3>1, <3>2
  <2>3. CASE /\ ~IsStatus(p, f) /\ OpenAt(c, p, q, 0)
             /\ \A s \in T : d.status.before <= s => c.status.before <= s \/ Got(d, p, s)
    <3>1. CursorAt(c, q, 0) = c.status.before
      BY DEF CursorAt
    <3>2. \A j \in 0 + 1 .. k + 1 - 1 : j = 1 \/ j \in 2 .. k
      BY <1>1
    <3>3. OpenFor(c, p, q, 0, k + 1)
      BY <1>1, <2>1, <2>3, <3>2 DEF OpenFor
    <3> QED
      BY <2>0, <2>3, <3>1, <3>3
  <2> QED
    BY <1>d, <2>0, <2>2, <2>3
<1>5. ASSUME NEW k \in 1 .. Len(r) + 1, NEW i \in 0 .. k - 1, OpenFor(d, p, r, i, k)
      PROVE  \E e \in 0 .. k : /\ OpenFor(c, p, q, e, k + 1)
                               /\ \A s \in T : CursorAt(d, r, i) <= s => CursorAt(c, q, e) <= s \/ Got(d, p, s)
  <2>1. CASE i = 0
    <3>1. \A e \in 0 .. 1 : e \in 0 .. k
      BY <1>1
    <3> QED
      BY <1>4, <1>5, <2>1, <3>1
  <2>2. CASE i # 0
    BY <1>3, <1>5, <2>2
  <2> QED
    BY <2>1, <2>2
<1>6. ASSUME NEW k \in 1 .. Len(r) + 1, NEW n, NEW i \in 0 .. k - 1, OpenFor(d, p, r, i, k),
             \A e \in 0 .. k : OpenFor(c, p, q, e, k + 1) => UpTo(c, p, q, T, e, k + 1, n)
      PROVE  UpTo(d, p, r, T, i, k, n)
  <2>1. PICK e \in 0 .. k : /\ OpenFor(c, p, q, e, k + 1)
                            /\ \A s \in T : CursorAt(d, r, i) <= s => CursorAt(c, q, e) <= s \/ Got(d, p, s)
    BY <1>5, <1>6
  <2>2. ASSUME NEW s \in T, CursorAt(d, r, i) <= s, s < n PROVE Has(d, p, r, s, k)
    BY <1>2, <1>6, <2>1, <2>2 DEF UpTo, Has
  <2> QED
    BY <2>2 DEF UpTo
<1>7. LiveOK(c, p, q, T) => LiveOK(d, p, r, T)
  <2> SUFFICES ASSUME LiveOK(c, p, q, T), NEW k \in 1 .. Len(r), IsMessage(p, r[k]),
                      NEW i \in 0 .. k - 1, OpenFor(d, p, r, i, k)
               PROVE  UpTo(d, p, r, T, i, k, r[k].seq)
    BY DEF LiveOK
  <2>1. k + 1 \in 1 .. Len(q) /\ r[k] = q[k + 1] /\ k \in 1 .. Len(r) + 1 /\ k + 1 - 1 = k
    BY <1>1
  <2>2. \A e \in 0 .. k : OpenFor(c, p, q, e, k + 1) => UpTo(c, p, q, T, e, k + 1, r[k].seq)
    BY <2>1 DEF LiveOK
  <2> QED
    BY <1>6, <2>1, <2>2
<1>8. ReadyOK(c, p, q, T) => ReadyOK(d, p, r, T)
  <2> SUFFICES ASSUME ReadyOK(c, p, q, T), NEW i \in 1 .. Len(r), IsReady(p, r[i]), NEW s \in T,
                      r[i].before <= s
               PROVE  Has(d, p, r, s, i) \/ (r[i].before < s /\ Later(d, r, s, i))
    BY DEF ReadyOK
  <2>1. i + 1 \in 1 .. Len(q) /\ r[i] = q[i + 1] /\ i \in 1 .. Len(r) + 1
    BY <1>1
  <2>2. Has(c, p, q, s, i + 1) \/ (r[i].before < s /\ Later(c, q, s, i + 1))
    BY <2>1 DEF ReadyOK
  <2>3. ASSUME Later(c, q, s, i + 1) PROVE Later(d, r, s, i)
    <3>1. FrameBelow(f, s)
      BY <1>1, <2>1, <2>3 DEF Later
    <3>2. ASSUME NEW m \in d.shown PROVE m < s
      <4>1. f.kind = "page" => f.req.before \in Nat
        BY <1>1 DEF Chats, Items, Messages, Statuses, PageFrames, Requests
      <4> QED
        BY <2>3, <3>1, <4>1 DEF Later, FrameBelow
    <3>3. ASSUME NEW j \in 1 .. i - 1 PROVE FrameBelow(r[j], s)
      <4>1. j + 1 \in 1 .. i + 1 - 1 /\ r[j] = q[j + 1]
        BY <1>1
      <4> QED
        BY <2>3, <4>1 DEF Later
    <3> QED
      BY <3>2, <3>3 DEF Later
  <2> QED
    BY <1>2, <2>1, <2>2, <2>3
<1>9. Len(r) + 1 \in 1 .. Len(r) + 1 /\ Len(r) + 1 + 1 = Len(q) + 1 /\ Len(r) + 1 = Len(q) /\ Len(r) + 1 - 1 = Len(r)
  BY <1>1
<1>10. ClosedOK(c, p, q) => ClosedOK(d, p, r)
  BY <1>5, <1>9 DEF ClosedOK
<1>11. ASSUME NEW n, ReachOK(c, p, q, T, n) PROVE ReachOK(d, p, r, T, n)
  <2>1. \A e \in 0 .. Len(q) : OpenFor(c, p, q, e, Len(q) + 1) => UpTo(c, p, q, T, e, Len(q) + 1, n)
    BY <1>11 DEF ReachOK
  <2>2. \A i \in 0 .. Len(r) : OpenFor(d, p, r, i, Len(r) + 1) => UpTo(d, p, r, T, i, Len(r) + 1, n)
    BY <1>6, <1>9, <2>1
  <2> QED
    BY <2>2 DEF ReachOK
<1>12. \A s \in T : Has(c, p, q, s, Len(q) + 1) => Has(d, p, r, s, Len(r) + 1)
  BY <1>2, <1>9
<1> QED
  BY <1>7, <1>8, <1>10, <1>11, <1>12 DEF QueueOK, r
-----------------------------------------------------------------------------
(* The steps of the system.                                                *)

LEMMA GapTypes ==
    ASSUME TypeInv
    PROVE  /\ Len(log) \in Nat /\ Len(requests) \in Nat /\ Len(chatOut) \in Nat /\ Len(out) \in Nat
           /\ client.shown \in SUBSET Nat /\ client.status.before \in Nat /\ pending.before \in Nat
           /\ handler.req.before \in Nat
           /\ \A i \in 1 .. Len(requests) : requests[i] \in Requests /\ requests[i].before \in Nat
           /\ \A i \in 1 .. Len(chatOut) : /\ chatOut[i] \in Chats
                                           /\ chatOut[i].kind = "status" => chatOut[i] \in Statuses
                                           /\ chatOut[i].kind = "message" => chatOut[i] \in Messages
                                           /\ chatOut[i].kind = "page" => chatOut[i] \in PageFrames
           /\ \A c : Stored(c) \in SUBSET Nat
<1>1. /\ log \in Seq([channel : Channels, meant : Channels]) /\ retained \in SUBSET (1 .. Len(log))
      /\ out \in Seq(Controls) /\ chatOut \in Seq(Chats) /\ handler \in Handlers /\ requests \in Seq(Requests)
      /\ client \in Clients /\ pending \in Requests
  BY DEF TypeInv
<1>2. Len(log) \in Nat /\ Len(requests) \in Nat /\ Len(chatOut) \in Nat /\ Len(out) \in Nat
  BY <1>1, LenProperties
<1>3. /\ client.shown \in SUBSET Nat /\ client.status.before \in Nat /\ pending.before \in Nat
      /\ handler.req.before \in Nat
  BY <1>1 DEF Clients, Statuses, Requests, Handlers
<1>4. \A i \in 1 .. Len(requests) : requests[i] \in Requests
  BY <1>1, ElementOfSeq
<1>5. \A i \in 1 .. Len(chatOut) : chatOut[i] \in Chats
  BY <1>1, ElementOfSeq
<1>6. \A c : Stored(c) \in SUBSET Nat
  <2>1. \A s \in retained : s \in Nat
    BY <1>1, <1>2
  <2> QED
    BY <2>1 DEF Stored
<1>7. \A i \in 1 .. Len(requests) : requests[i].before \in Nat
  BY <1>4 DEF Requests
<1>8. \A f \in Chats : /\ f.kind = "status" => f \in Statuses
                       /\ f.kind = "message" => f \in Messages
                       /\ f.kind = "page" => f \in PageFrames
  BY DEF Chats, Items, Messages, Statuses, PageFrames
<1> QED
  BY <1>2, <1>3, <1>4, <1>5, <1>6, <1>7, <1>8

LEMMA FrameMore ==
    ASSUME NEW f \in Chats, NEW x \in Nat, NEW y \in Nat, x <= y, FrameBelow(f, x)
    PROVE  FrameBelow(f, y)
BY DEF FrameBelow, Chats, Items, Messages, Statuses, PageFrames, Requests

LEMMA BelowMore ==
    ASSUME TypeInv, NEW x \in Nat, NEW y \in Nat, x <= y, Below(x)
    PROVE  Below(y)
<1>1. \A i \in 1 .. Len(chatOut) : FrameBelow(chatOut[i], y)
  BY GapTypes, FrameMore DEF Below
<1> QED
  BY <1>1, GapTypes DEF Below

(* Of what is stored after a step, only later messages are new.            *)
Keeps == \A s \in retained' : s \in retained \/ ~(s <= Len(log))

LEMMA StoredStep ==
    ASSUME TypeInv, TypeInv', Grown, Keeps
    PROVE  \A c : \A s \in Stored(c)' : s \in Nat /\ (s \in Stored(c) \/ Len(log) < s)
<1>1. /\ Len(log) \in Nat /\ Len(log') \in Nat /\ retained \in SUBSET (1 .. Len(log))
      /\ retained' \in SUBSET (1 .. Len(log')) /\ \A s \in 1 .. Len(log) : log'[s] = log[s]
  BY LenProperties DEF TypeInv, Grown
<1> SUFFICES ASSUME NEW c, NEW s \in retained', log'[s].channel = c
             PROVE  s \in Nat /\ (s \in Stored(c) \/ Len(log) < s)
  BY DEF Stored
<1>2. s \in Nat
  BY <1>1
<1>3. CASE s \in retained
  BY <1>1, <1>2, <1>3 DEF Stored
<1>4. CASE s \notin retained
  BY <1>1, <1>2, <1>4 DEF Keeps
<1> QED
  BY <1>2, <1>3, <1>4

(* Steps that leave the member, the run, the client and the chat queue.    *)
LEMMA AsideStep ==
    ASSUME Inv, Inv', GapInv, open, UNCHANGED <<peer, run, client, chatOut, excused>>, Grown, Keeps,
           open' => \A i \in 1 .. Len(out) : i \in 1 .. Len(out') /\ out'[i] = out[i],
           open' => \A i \in 1 .. Len(out') : i \in 1 .. Len(out) \/ out'[i].kind = "reply",
           \A x \in Nat : Below(x) =>
               /\ pending'.before < x /\ handler'.req.before < x
               /\ \A i \in 1 .. Len(requests') : requests'[i].before < x,
           Detail /\ handler'.pc = "push" => Whole(handler.page, handler.req)'
    PROVE  GapInv'
<1>0. TypeInv /\ TypeInv'
  BY DEF Inv
<1>1. \A c : \A s \in Stored(c)' : s \in Nat /\ (s \in Stored(c) \/ Len(log) < s)
  BY <1>0, StoredStep
<1>2. Len(log) \in Nat /\ Len(log') \in Nat /\ Len(log) <= Len(log')
  BY DEF Grown
<1>3. CacheInv'
  BY DEF GapInv, CacheInv
<1>4. ASSUME excused' = {} PROVE NoGap(client, Stored(client.channel))'
  <2>1. NoGap(client, Stored(client.channel)) /\ Below(Len(log) + 1)
    BY <1>4 DEF GapInv, Detail, NumberInv
  <2>2. \A m \in client.shown \cup {client.status.before} : m < Len(log) + 1 /\ m \in Nat
    BY <1>0, <2>1, GapTypes DEF Below
  <2>3. \A s \in Stored(client.channel)' : s \in Nat /\ (s \in Stored(client.channel) \/ Len(log) < s)
    BY <1>1 DEF Stored
  <2>4. ASSUME NEW s \in Stored(client.channel)', NEW m \in client.shown \cup {client.status.before},
               s <= m
        PROVE  s \in Stored(client.channel)
    BY <1>2, <2>2, <2>3, <2>4
  <2> QED
    BY <2>1, <2>4 DEF NoGap, Dropped
<1>5. ASSUME open', excused' = {} PROVE Detail'
  <2>0. /\ NumberInv /\ TodoInv /\ CancelInv /\ ItemInv /\ GenerationInv /\ ToldInv /\ StaleInv
        /\ WholeInv /\ FreshInv /\ HistoryInv /\ LiveInv /\ ClosedInv /\ QueueInv /\ Detail
    BY <1>5 DEF GapInv, Detail
  <2>1. ASSUME NEW x \in Nat, Below(x) PROVE Below(x)'
    BY <2>1 DEF Below
  <2>2. /\ \A i \in 1 .. Len(out) : i \in 1 .. Len(out') /\ out'[i] = out[i]
        /\ \A i \in 1 .. Len(out') : i \in 1 .. Len(out) \/ out'[i].kind = "reply"
    BY <1>5
  <2>3. \A s \in Here' : s \in Nat /\ (s \in Here \/ Len(log) < s)
    BY <1>1 DEF Here
  <2>4. Here \in SUBSET Nat /\ Here' \in SUBSET Nat
    BY <1>0, <2>3, GapTypes DEF Here
  <2>5. run.position \in Nat /\ run.position <= Len(log)
    BY <2>0, RunFacts DEF TodoInv
  <2>n. NumberInv'
    <3>1. PICK n \in Nat : n = Len(log') + 1
      BY <1>2
    <3>2. Below(n)
      BY <1>0, <1>2, <2>0, <3>1, BelowMore DEF NumberInv
    <3>3. Below(n)'
      BY <2>1, <3>2
    <3> QED
      BY <3>1, <3>3 DEF NumberInv, Below
  <2>t. TodoInv' /\ CancelInv'
    BY <1>2, <2>0, <2>5 DEF TodoInv, CancelInv, Busy
  <2>i. ItemInv'
    <3>1. CASE run.pc = "pushLive"
      <4>1. /\ run.item.kind = "message" /\ run.item.epoch = run.at.epoch
            /\ run.position < run.item.seq /\ run.item.seq <= Len(log)
            /\ \A s \in Stored(run.at.channel) : run.position < s => run.item.seq <= s
        BY <2>0, <3>1 DEF ItemInv
      <4>2. run.item.seq \in Nat
        BY <4>1, RunFacts DEF Items, Messages, Statuses
      <4>3. \A s \in Stored(run.at.channel)' : run.position < s => run.item.seq <= s
        <5>1. \A s \in Stored(run.at.channel)' : s \in Nat /\ (s \in Stored(run.at.channel) \/ Len(log) < s)
          BY <1>1 DEF Stored
        <5> QED
          BY <1>2, <4>1, <4>2, <5>1
      <4> QED
        BY <1>2, <3>1, <4>1, <4>2, <4>3 DEF ItemInv
    <3>2. CASE run.pc # "pushLive"
      BY <2>0, <3>2 DEF ItemInv
    <3> QED
      BY <3>1, <3>2
  <2>g. GenerationInv'
    BY <2>0, <2>2 DEF GenerationInv
  <2>o. ToldInv'
    BY <2>0, <2>2 DEF ToldInv
  <2>s. StaleInv'
    <3>1. Announced => Announced'
      <4>1. CASE client.epoch = peer.epoch /\ client.status.generation = peer.generation
        BY <4>1 DEF Announced
      <4>2. ASSUME NEW i \in 1 .. Len(out), out[i] = StatusOf(peer, 0, EmptyPage),
                   \A j \in i .. Len(out) : out[j].kind # "state"
            PROVE  Announced'
        <5>1. i \in 1 .. Len(out') /\ out'[i] = StatusOf(peer, 0, EmptyPage)'
          BY <2>2, <4>2 DEF StatusOf
        <5>2. \A j \in i .. Len(out') : out'[j].kind # "state"
          <6>1. Len(out) \in Nat /\ Len(out') \in Nat
            BY <1>0, GapTypes, LenProperties DEF TypeInv
          <6> SUFFICES ASSUME NEW j \in i .. Len(out') PROVE out'[j].kind # "state"
            OBVIOUS
          <6>2. CASE j \in 1 .. Len(out)
            BY <2>2, <4>2, <6>1, <6>2
          <6>3. CASE j \notin 1 .. Len(out)
            BY <2>2, <6>1, <6>3
          <6> QED
            BY <6>2, <6>3
        <5> QED
          BY <5>1, <5>2 DEF Announced
      <4> QED
        BY <4>1, <4>2 DEF Announced
    <3> QED
      BY <2>0, <3>1 DEF StaleInv, Outdated, Busy
  <2>w. WholeInv'
    <3>1. ASSUME NEW i \in 1 .. Len(chatOut), chatOut[i].kind = "page"
          PROVE  Whole(chatOut[i].page, chatOut[i].req)'
      <4>1. chatOut[i].req.before < Len(log) + 1 /\ chatOut[i].req.before \in Nat
        BY <1>0, <2>0, <3>1, GapTypes DEF NumberInv, Below, FrameBelow, PageFrames, Requests
      <4>2. Whole(chatOut[i].page, chatOut[i].req)
        BY <2>0, <3>1 DEF WholeInv
      <4>3. \A s \in Stored(chatOut[i].req.channel)' :
                s \in Nat /\ (s \in Stored(chatOut[i].req.channel) \/ Len(log) < s)
        BY <1>1 DEF Stored
      <4>4. \A s \in Stored(chatOut[i].req.channel)' : s < chatOut[i].req.before => s \in Stored(chatOut[i].req.channel)
        BY <1>2, <4>1, <4>3
      <4> QED
        BY <4>2, <4>4 DEF Whole
    <3>2. handler'.pc = "push" => Whole(handler.page, handler.req)'
      BY <2>0
    <3> QED
      BY <3>1, <3>2 DEF WholeInv
  <2>f. FreshInv'
    <3> SUFFICES ASSUME run'.pc \in {"page", "history", "pushHistory", "pushReady"}, run'.at = peer',
                        NEW s \in Here', run'.position < s
                 PROVE  Below(s)'
      BY DEF FreshInv
    <3>1. CASE s \in Here
      BY <2>0, <2>1, <2>3, <3>1 DEF FreshInv
    <3>2. CASE s \notin Here
      <4>1. s \in Nat /\ Len(log) + 1 <= s
        BY <1>2, <2>3, <3>2
      <4>2. Below(s)
        BY <1>0, <1>2, <2>0, <4>1, BelowMore DEF NumberInv
      <4> QED
        BY <2>1, <4>1, <4>2
    <3> QED
      BY <3>1, <3>2
  <2>h. HistoryInv'
    <3>1. \A s \in Here' : s <= run.position => s \in Here
      BY <1>2, <2>3, <2>5
    <3> QED
      BY <2>0, <3>1 DEF HistoryInv
  <2>l. LiveInv'
    <3>1. \A s \in Here' : s \in Here \/ ~(s < run.position + 1)
      BY <1>2, <2>3, <2>5
    <3>2. ASSUME run.pc \in {"live", "pushLive"}, run.at = peer
          PROVE  ReachOK(client, peer, chatOut, Here', run.position + 1)
      BY <2>0, <3>1, <3>2, StoreReach DEF LiveInv
    <3> QED
      BY <3>2 DEF LiveInv
  <2>c. ClosedInv'
    BY <2>0 DEF ClosedInv
  <2>q. QueueInv'
    <3>1. chatOut \in Seq(Chats) /\ QueueOK(client, peer, chatOut, Here)
      BY <1>0, <2>0 DEF TypeInv, QueueInv
    <3>2. \A s \in Here' : s \in Here \/ (/\ \A m \in client.shown : m < s
                                          /\ \A j \in 1 .. Len(chatOut) : FrameBelow(chatOut[j], s))
      <4> SUFFICES ASSUME NEW s \in Here', s \notin Here PROVE Below(s)
        BY DEF Below
      <4>1. s \in Nat /\ Len(log) + 1 <= s
        BY <1>2, <2>3
      <4> QED
        BY <1>0, <1>2, <2>0, <4>1, BelowMore DEF NumberInv
    <3>3. QueueOK(client, peer, chatOut, Here')
      BY <2>4, <3>1, <3>2, StoreQueue
    <3> QED
      BY <3>3 DEF QueueInv
  <2> QED
    BY <2>n, <2>t, <2>i, <2>g, <2>o, <2>s, <2>w, <2>f, <2>h, <2>l, <2>c, <2>q DEF Detail
<1> QED
  BY <1>3, <1>4, <1>5 DEF GapInv
-----------------------------------------------------------------------------
LEMMA PageWhole ==
    ASSUME TypeInv, NEW c \in Channels, NEW before \in Nat, NEW k \in Nat \ {0}
    PROVE  \A s \in Stored(c) : PageBelow(c, before, k).next <= s /\ s < before =>
               s \in PageBelow(c, before, k).msgs
<1> DEFINE older == {s \in Stored(c) : s < before}
           From(s) == {t \in older : t >= s}
           msgs == {s \in older : Cardinality(From(s)) <= k}
<1>1. /\ PageBelow(c, before, k).msgs = msgs
      /\ PageBelow(c, before, k).next = IF msgs = {} THEN 0 ELSE Min(msgs)
  BY DEF PageBelow
<1>2. older \in SUBSET (1 .. Len(log)) /\ Len(log) \in Nat /\ older \in SUBSET Nat
  BY StoredFacts
<1>3. IsFiniteSet(older)
  <2>1. IsFiniteSet(1 .. Len(log))
    BY <1>2, FS_Interval
  <2> HIDE DEF older
  <2> QED
    BY <1>2, <2>1, FS_Subset
<1>4. ASSUME NEW s \in older, older \cap msgs = {} PROVE FALSE
  <2>1. older # {}
    BY <1>4
  <2>2. PICK m \in older : \A t \in older : t <= m
    <3> HIDE DEF older
    <3> QED
      BY <1>2, <2>1, MaxFacts
  <2>3. From(m) = {m}
    BY <1>2, <2>2
  <2>4. Cardinality(From(m)) = 1
    BY <2>3, FS_Singleton
  <2>5. m \in msgs
    BY <2>4
  <2> QED
    BY <1>4, <2>5
<1>5. ASSUME NEW s \in older, NEW m \in msgs, m <= s PROVE s \in msgs
  <2>1. From(s) \subseteq From(m) /\ From(m) \subseteq older
    BY <1>2, <1>5
  <2>2. IsFiniteSet(From(m))
    BY <1>3, <2>1, FS_Subset
  <2>3. Cardinality(From(s)) <= Cardinality(From(m)) /\ IsFiniteSet(From(s))
    BY <2>1, <2>2, FS_Subset
  <2>4. Cardinality(From(s)) \in Nat /\ Cardinality(From(m)) \in Nat /\ Cardinality(From(m)) <= k
    BY <1>5, <2>2, <2>3, FS_CardinalityType
  <2>5. Cardinality(From(s)) <= k
    <3> HIDE DEF From
    <3> QED
      BY <2>3, <2>4
  <2> QED
    BY <2>5
<1>6. msgs \subseteq older
  OBVIOUS
<1>7. \A s \in Stored(c) : s < before => s \in older
  OBVIOUS
<1> HIDE DEF older, msgs
<1> QED
  BY <1>1, <1>2, <1>4, <1>5, <1>6, <1>7, MinFacts

LEMMA PageNext ==
    ASSUME NEW c, NEW before, NEW k
    PROVE  PageBelow(c, before, k).next =
               IF PageBelow(c, before, k).msgs = {} THEN 0 ELSE Min(PageBelow(c, before, k).msgs)
<1> DEFINE older == {s \in Stored(c) : s < before}
           msgs == {s \in older : Cardinality({t \in older : t >= s}) <= k}
<1>1. /\ PageBelow(c, before, k).msgs = msgs
      /\ PageBelow(c, before, k).next = IF msgs = {} THEN 0 ELSE Min(msgs)
  BY DEF PageBelow
<1> HIDE DEF msgs
<1> QED
  BY <1>1

LEMMA PageEnds ==
    ASSUME TypeInv, NEW c \in Channels, NEW before \in Nat, NEW k \in Nat
    PROVE  PageBelow(c, before, k).next <= before
<1> DEFINE page == PageBelow(c, before, k)
<1>1. page \in Pages /\ \A s \in page.msgs : s < before
  BY PageFacts
<1>2. page.next = IF page.msgs = {} THEN 0 ELSE Min(page.msgs)
  BY PageNext
<1> HIDE DEF page
<1>3. page.msgs \in SUBSET Nat
  BY <1>1 DEF Pages
<1>4. page.next = 0 \/ page.next \in page.msgs
  BY <1>2, <1>3, MinFacts
<1>5. page.next <= before
  BY <1>1, <1>3, <1>4
<1> QED
  BY <1>5 DEF page

LEMMA EnqueueFull ==
    ASSUME out \in Seq(Controls), NEW frames \in Seq(Controls), Enqueue(frames), open'
    PROVE  /\ Len(out) \in Nat /\ Len(frames) \in Nat /\ Len(out') = Len(out) + Len(frames)
           /\ \A i \in 1 .. Len(out) : out'[i] = out[i]
           /\ \A i \in 1 .. Len(frames) : out'[Len(out) + i] = frames[i]
<1> DEFINE n == Len(out) + Len(frames)
<1>0. n <= OutSlots
  BY DEF Enqueue
<1>1. Len(out) \in Nat /\ Len(frames) \in Nat /\ OutSlots \in Nat /\ n \in Nat
  BY ChatAssumption, LenProperties
<1>2. Min({n, OutSlots}) = n
  <2>1. {n, OutSlots} \in SUBSET Nat /\ {n, OutSlots} # {}
    BY <1>1
  <2>2. Min({n, OutSlots}) \in {n, OutSlots} /\ Min({n, OutSlots}) <= n
    BY <2>1, MinFacts
  <2> HIDE DEF n
  <2> QED
    BY <1>0, <1>1, <2>2
<1>3. out' = SubSeq(out \o frames, 1, n)
  BY <1>2 DEF Enqueue
<1>4. /\ out \o frames \in Seq(Controls) /\ Len(out \o frames) = n
      /\ \A i \in 1 .. n :
            (out \o frames)[i] = IF i <= Len(out) THEN out[i] ELSE frames[i - Len(out)]
  BY ConcatProperties
<1>5. out' = out \o frames
  BY <1>3, <1>4
<1>6. \A i \in 1 .. Len(out) : i \in 1 .. n /\ i <= Len(out)
  BY <1>1
<1>7. \A i \in 1 .. Len(frames) : Len(out) + i \in 1 .. n /\ ~(Len(out) + i <= Len(out)) /\ Len(out) + i - Len(out) = i
  BY <1>1
<1> QED
  BY <1>1, <1>4, <1>5, <1>6, <1>7

(* What a reply adds to the control queue.                                 *)
LEMMA ReplyAdded ==
    ASSUME TypeInv, NEW req \in Requests, Enqueue(<<ReplyTo(req)>>), open'
    PROVE  /\ \A i \in 1 .. Len(out) : i \in 1 .. Len(out') /\ out'[i] = out[i]
           /\ \A i \in 1 .. Len(out') : i \in 1 .. Len(out) \/ out'[i].kind = "reply"
<1> DEFINE frames == <<ReplyTo(req)>>
<1>1. frames \in Seq(Controls) /\ Len(frames) = 1 /\ frames[1].kind = "reply"
  BY ReplyFacts
<1>2. Enqueue(frames) /\ out \in Seq(Controls)
  BY DEF TypeInv
<1> HIDE DEF frames
<1>3. /\ Len(out) \in Nat /\ Len(out') = Len(out) + 1
      /\ \A i \in 1 .. Len(out) : out'[i] = out[i]
      /\ out'[Len(out) + 1] = frames[1]
  <2>1. /\ Len(out) \in Nat /\ Len(out') = Len(out) + Len(frames)
        /\ \A i \in 1 .. Len(out) : out'[i] = out[i]
        /\ \A i \in 1 .. Len(frames) : out'[Len(out) + i] = frames[i]
    BY <1>1, <1>2, EnqueueFull
  <2> QED
    BY <1>1, <2>1
<1> QED
  BY <1>1, <1>3

(* The commands that are left when one is taken.                           *)
LEMMA TakenBelow ==
    ASSUME TypeInv, requests # <<>>, Taken, NEW x \in Nat, Below(x)
    PROVE  /\ Head(requests) \in Requests /\ Head(requests).before < x
           /\ \A i \in 1 .. Len(requests') : requests'[i].before < x
<1>1. requests \in Seq(Requests) /\ requests' = Tail(requests)
  BY DEF TypeInv, Taken
<1>2. /\ Len(requests) \in Nat /\ Len(requests) >= 1 /\ Len(requests') = Len(requests) - 1
      /\ Head(requests) = requests[1] /\ \A i \in 1 .. Len(requests') : requests'[i] = requests[i + 1]
  BY <1>1
<1>3. 1 \in 1 .. Len(requests) /\ \A i \in 1 .. Len(requests') : i + 1 \in 1 .. Len(requests)
  BY <1>2
<1> QED
  BY <1>1, <1>2, <1>3, TakenFacts DEF Below

LEMMA NoneBelow ==
    ASSUME TypeInv, NEW x \in Nat, Below(x)
    PROVE  /\ NoRequest.before < x /\ IdleHandler.req.before < x /\ pending.before < x
           /\ handler.req.before < x /\ client.status.before < x
           /\ \A i \in 1 .. Len(requests) : requests[i].before < x
BY GapTypes DEF Below, NoRequest, IdleHandler

LEMMA SameStored == ASSUME UNCHANGED retained PROVE Keeps
BY DEF Keeps

LEMMA PublishGap == ASSUME Inv, Inv', GapInv, NEW c \in Channels, Publish(c) PROVE GapInv'
<1>1. TypeInv
  BY DEF Inv
<1>2. /\ open /\ UNCHANGED <<open, peer, out, chatOut, run, handler, requests, client, pending, excused>>
      /\ log' = Append(log, [channel |-> c, meant |-> c]) /\ retained' = retained \cup {Len(log) + 1}
  BY DEF Publish, server
<1>3. [channel |-> c, meant |-> c] \in [channel : Channels, meant : Channels]
  OBVIOUS
<1>4. Grown /\ Keeps
  BY <1>1, <1>2, <1>3, Grows, GapTypes DEF Keeps
<1>5. Detail /\ handler'.pc = "push" => Whole(handler.page, handler.req)'
  <2> SUFFICES ASSUME Detail, handler.pc = "push" PROVE Whole(handler.page, handler.req)'
    BY <1>2
  <2>1. handler.req.before < Len(log) + 1 /\ handler.req.before \in Nat /\ Len(log) \in Nat
    BY <1>1, GapTypes DEF Detail, NumberInv, Below
  <2>2. \A s \in Stored(handler.req.channel)' :
            s \in Nat /\ (s \in Stored(handler.req.channel) \/ Len(log) < s)
    <3>1. \A d : \A s \in Stored(d)' : s \in Nat /\ (s \in Stored(d) \/ Len(log) < s)
      BY <1>1, <1>4, StoredStep DEF Inv
    <3> QED
      BY <1>2, <3>1 DEF Stored
  <2>3. \A s \in Stored(handler.req.channel)' : s < handler.req.before => s \in Stored(handler.req.channel)
    BY <2>1, <2>2
  <2> QED
    BY <1>2, <2>3 DEF Detail, WholeInv, Whole
<1>6. \A x \in Nat : Below(x) =>
          /\ pending'.before < x /\ handler'.req.before < x
          /\ \A i \in 1 .. Len(requests') : requests'[i].before < x
  BY <1>1, <1>2, NoneBelow
<1> QED
  BY <1>2, <1>4, <1>5, <1>6, AsideStep

(* Steps that change nothing that is stored.                               *)
LEMMA StillStep ==
    ASSUME Inv, Inv', GapInv, open,
           UNCHANGED <<peer, run, client, chatOut, excused, log, retained>>,
           open' => \A i \in 1 .. Len(out) : i \in 1 .. Len(out') /\ out'[i] = out[i],
           open' => \A i \in 1 .. Len(out') : i \in 1 .. Len(out) \/ out'[i].kind = "reply",
           \A x \in Nat : Below(x) =>
               /\ pending'.before < x /\ handler'.req.before < x
               /\ \A i \in 1 .. Len(requests') : requests'[i].before < x,
           handler'.pc = "push" => handler' = handler \/ Whole(handler'.page, handler'.req)
    PROVE  GapInv'
<1>1. Grown /\ Keeps
  BY SameLog, SameStored DEF Inv
<1>2. Detail /\ handler'.pc = "push" => Whole(handler.page, handler.req)'
  BY DEF Detail, WholeInv, Whole, Stored
<1> QED
  BY <1>1, <1>2, AsideStep

LEMMA EvictGap == ASSUME Inv, Inv', GapInv, NEW c \in Channels, Evict(c) PROVE GapInv'
<1>1. TypeInv
  BY DEF Inv
<1>2. /\ open /\ UNCHANGED <<open, peer, out, chatOut, run, handler, requests, client, pending, excused, log>>
      /\ retained' \subseteq retained
  BY DEF Evict, server
<1>3. Grown /\ Keeps
  BY <1>1, <1>2, SameLog DEF Keeps
<1>4. Detail /\ handler'.pc = "push" => Whole(handler.page, handler.req)'
  BY <1>2 DEF Detail, WholeInv, Whole, Stored
<1>5. \A x \in Nat : Below(x) =>
          /\ pending'.before < x /\ handler'.req.before < x
          /\ \A i \in 1 .. Len(requests') : requests'[i].before < x
  BY <1>1, <1>2, NoneBelow
<1> QED
  BY <1>2, <1>3, <1>4, <1>5, AsideStep

LEMMA RefuseGap == ASSUME Inv, Inv', GapInv, Refuse PROVE GapInv'
<1>1. TypeInv
  BY DEF Inv
<1>2. /\ open /\ requests # <<>> /\ Taken /\ Enqueue(<<ReplyTo(Head(requests))>>)
      /\ UNCHANGED <<log, retained, peer, chatOut, run, handler, client, pending, excused>>
  BY DEF Refuse
<1>3. Head(requests) \in Requests
  BY <1>1, <1>2, TakenFacts
<1>4. \A x \in Nat : Below(x) =>
          /\ pending'.before < x /\ handler'.req.before < x
          /\ \A i \in 1 .. Len(requests') : requests'[i].before < x
  BY <1>1, <1>2, NoneBelow, TakenBelow
<1>5. open' => /\ \A i \in 1 .. Len(out) : i \in 1 .. Len(out') /\ out'[i] = out[i]
               /\ \A i \in 1 .. Len(out') : i \in 1 .. Len(out) \/ out'[i].kind = "reply"
  BY <1>1, <1>2, <1>3, ReplyAdded
<1> QED
  BY <1>2, <1>4, <1>5, StillStep

LEMMA HandleGap == ASSUME Inv, Inv', GapInv, HandleChat \/ HandleHistory PROVE GapInv'
<1>1. TypeInv
  BY DEF Inv
<1>2. /\ open /\ requests # <<>> /\ Taken
      /\ UNCHANGED <<log, retained, open, peer, out, chatOut, run, client, pending, excused>>
      /\ handler'.pc # "push" /\ handler'.req = Head(requests)
  BY DEF HandleChat, HandleHistory, server, Takes, IdleHandler
<1>3. \A x \in Nat : Below(x) =>
          /\ pending'.before < x /\ handler'.req.before < x
          /\ \A i \in 1 .. Len(requests') : requests'[i].before < x
  BY <1>1, <1>2, NoneBelow, TakenBelow
<1> QED
  BY <1>2, <1>3, StillStep

LEMMA HistoryReadGap == ASSUME Inv, Inv', GapInv, HistoryRead PROVE GapInv'
<1>1. TypeInv
  BY DEF Inv
<1>2. PICK k \in 1 .. PageSize :
          handler' = [handler EXCEPT !.pc = "push",
                         !.page = PageBelow(handler.req.channel, handler.req.before, k)]
  BY DEF HistoryRead
<1>3. open /\ UNCHANGED <<log, retained, open, peer, out, chatOut, run, requests, client, pending, excused>>
  BY DEF HistoryRead, server
<1>4. handler \in Handlers /\ handler.req.channel \in Channels /\ handler.req.before \in Nat
  BY <1>1 DEF TypeInv, Handlers, Requests
<1>5. k \in Nat \ {0}
  BY ChatAssumption
<1>6. handler'.req = handler.req /\ handler'.page = PageBelow(handler.req.channel, handler.req.before, k)
  BY <1>2, <1>4 DEF Handlers
<1>7. Whole(handler'.page, handler'.req)
  BY <1>1, <1>4, <1>5, <1>6, PageWhole, PageEnds DEF Whole
<1>8. \A x \in Nat : Below(x) =>
          /\ pending'.before < x /\ handler'.req.before < x
          /\ \A i \in 1 .. Len(requests') : requests'[i].before < x
  BY <1>1, <1>3, <1>6, NoneBelow
<1> QED
  BY <1>3, <1>7, <1>8, StillStep

LEMMA HistoryFailsGap == ASSUME Inv, Inv', GapInv, HistoryFails PROVE GapInv'
<1>1. TypeInv
  BY DEF Inv
<1>2. /\ open /\ handler' = IdleHandler /\ Enqueue(<<ReplyTo(handler.req)>>)
      /\ UNCHANGED <<log, retained, peer, chatOut, run, requests, client, pending, excused>>
  BY DEF HistoryFails
<1>3. handler.req \in Requests /\ IdleHandler.pc # "push"
  BY <1>1 DEF TypeInv, Handlers, IdleHandler
<1>4. \A x \in Nat : Below(x) =>
          /\ pending'.before < x /\ handler'.req.before < x
          /\ \A i \in 1 .. Len(requests') : requests'[i].before < x
  BY <1>1, <1>2, NoneBelow
<1>5. open' => /\ \A i \in 1 .. Len(out) : i \in 1 .. Len(out') /\ out'[i] = out[i]
               /\ \A i \in 1 .. Len(out') : i \in 1 .. Len(out) \/ out'[i].kind = "reply"
  BY <1>1, <1>2, <1>3, ReplyAdded
<1> QED
  BY <1>2, <1>3, <1>4, <1>5, StillStep

LEMMA ChatPublishedGap == ASSUME Inv, Inv', GapInv, ChatPublished PROVE GapInv'
<1>1. TypeInv
  BY DEF Inv
<1>2. /\ open /\ handler' = IdleHandler /\ Enqueue(<<ReplyTo(handler.req)>>)
      /\ UNCHANGED <<peer, chatOut, run, requests, client, pending, excused>>
  BY DEF ChatPublished
<1>3. handler.req \in Requests /\ IdleHandler.pc # "push"
  BY <1>1 DEF TypeInv, Handlers, IdleHandler
<1>4. \A x \in Nat : Below(x) =>
          /\ pending'.before < x /\ handler'.req.before < x
          /\ \A i \in 1 .. Len(requests') : requests'[i].before < x
  BY <1>1, <1>2, NoneBelow
<1>5. open' => /\ \A i \in 1 .. Len(out) : i \in 1 .. Len(out') /\ out'[i] = out[i]
               /\ \A i \in 1 .. Len(out') : i \in 1 .. Len(out) \/ out'[i].kind = "reply"
  BY <1>1, <1>2, <1>3, ReplyAdded
<1>6. Grown /\ Keeps
  <2>1. CASE UNCHANGED <<log, retained>>
    BY <1>1, <2>1, SameLog, SameStored
  <2>2. CASE log' = Append(log, ChatMessage) /\ retained' = retained \cup {Len(log) + 1}
    <3>1. ChatMessage \in [channel : Channels, meant : Channels]
      BY <1>1 DEF ChatMessage, TypeInv, Handlers, Requests
    <3> QED
      BY <1>1, <2>2, <3>1, Grows, GapTypes DEF Keeps
  <2> QED
    BY <2>1, <2>2 DEF ChatPublished
<1> QED
  BY <1>2, <1>3, <1>4, <1>5, <1>6, AsideStep

LEMMA SubmitGap ==
    ASSUME Inv, Inv', GapInv, NEW req \in Requests, Submit(req), req.before \in {0, client.status.before}
    PROVE  GapInv'
<1>1. TypeInv
  BY DEF Inv
<1>2. /\ open /\ pending' = req /\ requests' = Append(requests, req)
      /\ UNCHANGED <<log, retained, open, peer, out, chatOut, run, handler, client, excused>>
  BY DEF Submit, server
<1>3. \A x \in Nat : Below(x) => req.before < x
  BY <1>1, NoneBelow DEF NoRequest
<1>4. /\ requests \in Seq(Requests) /\ Len(requests) \in Nat /\ Len(requests') = Len(requests) + 1
      /\ requests'[Len(requests) + 1] = req /\ \A i \in 1 .. Len(requests) : requests'[i] = requests[i]
  BY <1>1, <1>2 DEF TypeInv
<1>5. \A i \in 1 .. Len(requests') : i \in 1 .. Len(requests) \/ i = Len(requests) + 1
  BY <1>4
<1>6. \A x \in Nat : Below(x) =>
          /\ pending'.before < x /\ handler'.req.before < x
          /\ \A i \in 1 .. Len(requests') : requests'[i].before < x
  BY <1>1, <1>2, <1>3, <1>4, <1>5, NoneBelow
<1> QED
  BY <1>2, <1>6, StillStep

LEMMA CommandGap ==
    ASSUME Inv, Inv', GapInv,
           \/ \E kind \in {"move", "account", "sync", "chat"}, c \in Channels : ClientCommand(kind, c)
           \/ ClientHistory
    PROVE  GapInv'
<1>1. sent + 1 \in Nat /\ client \in Clients /\ client.status \in Statuses
  BY DEF Inv, TypeInv, Clients
<1>2. ASSUME NEW kind \in {"move", "account", "sync", "chat"}, NEW c \in Channels, ClientCommand(kind, c)
      PROVE  GapInv'
  <2> DEFINE n == sent + 1
             req == [NoRequest EXCEPT !.kind = kind, !.id = n, !.channel = c]
  <2>1. n \in Nat /\ Submit(req)
    BY <1>1, <1>2 DEF ClientCommand
  <2> HIDE DEF n
  <2>2. req \in Requests /\ req.before = 0
    BY <2>1, ConstantFacts DEF Requests, NoRequest
  <2> HIDE DEF req
  <2> QED
    BY <2>1, <2>2, SubmitGap
<1>3. CASE ClientHistory
  <2> DEFINE req == [kind |-> "history", id |-> sent + 1, channel |-> client.channel,
               epoch |-> client.epoch, generation |-> client.status.generation,
               before |-> client.status.before]
  <2>1. req \in Requests /\ Submit(req) /\ req.before = client.status.before
    BY <1>1, <1>3 DEF ClientHistory, Requests, Clients, Statuses
  <2> HIDE DEF req
  <2> QED
    BY <2>1, SubmitGap
<1> QED
  BY <1>2, <1>3

LEMMA IdleGap == ASSUME Inv, Inv', GapInv, NoControl \/ ClientTimeout PROVE GapInv'
<1>1. TypeInv
  BY DEF Inv
<1>2. /\ open /\ UNCHANGED <<log, retained, open, peer, out, chatOut, run, handler, requests, client, excused>>
      /\ pending' \in {pending, NoRequest}
  BY DEF NoControl, ClientTimeout, server
<1>3. \A x \in Nat : Below(x) =>
          /\ pending'.before < x /\ handler'.req.before < x
          /\ \A i \in 1 .. Len(requests') : requests'[i].before < x
  BY <1>1, <1>2, NoneBelow
<1> QED
  BY <1>2, <1>3, StillStep

LEMMA ConnectionEndsGap == ASSUME GapInv, ConnectionEnds PROVE GapInv'
BY DEF ConnectionEnds, GapInv, CacheInv, NoGap, Dropped, Stored
-----------------------------------------------------------------------------
(* Steps of the chat run that leave the queue.                             *)
LEMMA RunGap ==
    ASSUME Inv, GapInv, open, RunStep, UNCHANGED chatOut, excused' = {} => excused = {},
           Busy' => (Busy /\ run'.at = run.at) \/ run'.at = peer,
           Detail /\ excused' = {} =>
               TodoInv' /\ CancelInv' /\ ItemInv' /\ FreshInv' /\ HistoryInv' /\ LiveInv' /\ ClosedInv'
    PROVE  GapInv'
<1>1. UNCHANGED <<log, retained, open, peer, out, handler, requests, client, pending>>
  BY DEF RunStep
<1>2. CacheInv' /\ (excused' = {} => NoGap(client, Stored(client.channel))')
  BY <1>1 DEF GapInv, CacheInv, NoGap, Dropped, Stored
<1>3. ASSUME excused' = {} PROVE Detail'
  <2>1. Detail
    BY <1>3 DEF GapInv
  <2>2. NumberInv' /\ GenerationInv' /\ ToldInv' /\ WholeInv' /\ QueueInv'
    BY <1>1, <2>1 DEF Detail, NumberInv, Below, GenerationInv, ToldInv, StateOf, WholeInv, Whole,
                      Stored, QueueInv, Here
  <2>3. StaleInv'
    <3>1. Announced => Announced'
      BY <1>1 DEF Announced
    <3>2. ~Outdated(peer)
      BY DEF Outdated, Inv, TypeInv, Spots
    <3>3. StaleInv
      BY <2>1 DEF Detail
    <3> QED
      BY <1>1, <3>1, <3>2, <3>3 DEF StaleInv, Outdated
  <2> QED
    BY <1>3, <2>1, <2>2, <2>3 DEF Detail
<1> QED
  BY <1>2, <1>3 DEF GapInv

(* What is left when the run is not one of those that matter.              *)
LEMMA RunElse ==
    ASSUME Detail, Inv, RunStep, UNCHANGED chatOut, run'.pc \in {"idle", "begin", "boundary", "failed"},
           run' \in Runs, run'.position = 0, run'.page.next = 0, run'.todo = {}
    PROVE  TodoInv' /\ ItemInv' /\ FreshInv' /\ HistoryInv' /\ LiveInv'
<1>1. Len(log') \in Nat
  BY LogFacts DEF Inv, RunStep
<1> QED
  BY <1>1 DEF TodoInv, ItemInv, FreshInv, HistoryInv, LiveInv

LEMMA Canceled ==
    ASSUME Detail, Inv, run.canceled
    PROVE  Busy /\ run.at # peer /\ ClosedOK(client, peer, chatOut)
BY RunFacts DEF Detail, CancelInv, ClosedInv, Spots

(* A canceled run ends.                                                    *)
LEMMA GoesIdle ==
    ASSUME Inv, GapInv, open, RunStep, UNCHANGED <<chatOut, excused>>, run' = IdleRun,
           run.canceled
    PROVE  GapInv'
<1>1. /\ run'.pc = "idle" /\ run'.position = 0 /\ run'.page.next = 0 /\ run'.todo = {} /\ run' \in Runs
      /\ ~run'.canceled
  BY ConstantFacts DEF IdleRun, EmptyPage
<1>2. ~Busy'
  BY <1>1 DEF Busy
<1>3. ASSUME Detail PROVE TodoInv' /\ CancelInv' /\ ItemInv' /\ FreshInv' /\ HistoryInv' /\ LiveInv' /\ ClosedInv'
  <2>1. TodoInv' /\ ItemInv' /\ FreshInv' /\ HistoryInv' /\ LiveInv'
    BY <1>1, <1>3, RunElse
  <2>2. CancelInv'
    BY <1>1, <1>2 DEF CancelInv
  <2>3. ClosedInv'
    BY <1>3, Canceled DEF ClosedInv, RunStep
  <2> QED
    BY <2>1, <2>2, <2>3
<1> QED
  BY <1>2, <1>3, RunGap

LEMMA WakeGap == ASSUME Inv, GapInv, ChatWake \/ ChatBegin PROVE GapInv'
<1>1. open /\ RunStep /\ UNCHANGED <<chatOut, excused>>
  BY DEF ChatWake, ChatBegin
<1>2. CASE ChatWake
  <2>1. run.pc = "idle" /\ run' = [run EXCEPT !.pc = "begin"]
    BY <1>2 DEF ChatWake
  <2>2. /\ run'.pc = "begin" /\ run'.at = run.at /\ run'.canceled = run.canceled /\ run'.page = run.page
        /\ run'.todo = run.todo /\ run'.position = run.position
    BY <2>1, RunFacts DEF Runs
  <2>3. ~Busy /\ ~Busy'
    BY <2>1, <2>2 DEF Busy
  <2>4. ASSUME Detail PROVE TodoInv' /\ CancelInv' /\ ItemInv' /\ FreshInv' /\ HistoryInv' /\ LiveInv' /\ ClosedInv'
    <3>1. TodoInv'
      BY <1>1, <2>2, <2>4 DEF Detail, TodoInv, RunStep
    <3>2. CancelInv'
      BY <2>2, <2>3, <2>4 DEF Detail, CancelInv
    <3>3. ItemInv' /\ FreshInv' /\ HistoryInv' /\ LiveInv'
      BY <2>2 DEF ItemInv, FreshInv, HistoryInv, LiveInv
    <3>4. ClosedInv'
      BY <1>1, <2>1, <2>2, <2>4 DEF Detail, ClosedInv, RunStep
    <3> QED
      BY <3>1, <3>2, <3>3, <3>4
  <2> QED
    BY <1>1, <2>3, <2>4, RunGap
<1>3. CASE ChatBegin
  <2>1. run.pc = "begin" /\ run' = [IdleRun EXCEPT !.pc = "boundary", !.at = peer]
    BY <1>3 DEF ChatBegin
  <2>2. /\ run'.pc = "boundary" /\ run'.at = peer /\ ~run'.canceled /\ run'.page = EmptyPage
        /\ run'.todo = {} /\ run'.position = 0 /\ EmptyPage.next = 0
    BY <2>1 DEF IdleRun, EmptyPage
  <2>3. run' \in Runs
    BY <2>1, ConstantFacts, RunFacts DEF Runs
  <2>4. ASSUME Detail PROVE TodoInv' /\ CancelInv' /\ ItemInv' /\ FreshInv' /\ HistoryInv' /\ LiveInv' /\ ClosedInv'
    <3>1. TodoInv' /\ ItemInv' /\ FreshInv' /\ HistoryInv' /\ LiveInv'
      BY <1>1, <2>2, <2>3, <2>4, RunElse
    <3>2. CancelInv'
      BY <1>1, <2>2 DEF CancelInv, Busy, RunStep
    <3>3. ClosedInv'
      BY <1>1, <2>1, <2>2, <2>4 DEF Detail, ClosedInv, RunStep
    <3> QED
      BY <3>1, <3>2, <3>3
  <2> QED
    BY <1>1, <2>2, <2>4, RunGap
<1> QED
  BY <1>2, <1>3

LEMMA FailedGap == ASSUME Inv, GapInv, ChatStall \/ StorageFails \/ ChatCanceled PROVE GapInv'
<1>1. open /\ RunStep /\ UNCHANGED chatOut
  BY DEF ChatStall, StorageFails, ChatCanceled
<1>2. CASE ChatCanceled
  BY <1>1, <1>2, GoesIdle DEF ChatCanceled
<1>3. CASE ChatStall /\ run.pc = "pushFailed"
  <2>1. run' = IdleRun /\ excused' # {}
    BY <1>3 DEF ChatStall
  <2>2. run'.pc = "idle"
    BY <2>1 DEF IdleRun
  <2> QED
    BY <1>1, <2>1, <2>2, RunGap DEF Busy
<1>4. CASE (ChatStall /\ run.pc # "pushFailed") \/ StorageFails
  <2>1. run' = FailedRun /\ excused' = excused /\ ~run.canceled /\ Busy
    BY <1>4 DEF ChatStall, StorageFails, Busy, Pushing
  <2>2. /\ run'.pc = "failed" /\ run'.at = run.at /\ ~run'.canceled /\ run'.page = EmptyPage
        /\ run'.todo = {} /\ run'.position = 0 /\ EmptyPage.next = 0
    BY <2>1 DEF FailedRun, IdleRun, EmptyPage
  <2>3. run' \in Runs
    BY <2>1, ConstantFacts, RunFacts DEF Runs, FailedRun
  <2>4. ASSUME Detail PROVE TodoInv' /\ CancelInv' /\ ItemInv' /\ FreshInv' /\ HistoryInv' /\ LiveInv' /\ ClosedInv'
    <3>1. TodoInv' /\ ItemInv' /\ FreshInv' /\ HistoryInv' /\ LiveInv'
      BY <1>1, <2>2, <2>3, <2>4, RunElse
    <3>2. run.at = peer
      BY <2>1, <2>4 DEF Detail, CancelInv
    <3>3. CancelInv' /\ ClosedInv'
      BY <1>1, <2>2, <3>2 DEF CancelInv, Busy, RunStep, ClosedInv
    <3> QED
      BY <3>1, <3>3
  <2> QED
    BY <1>1, <2>1, <2>2, <2>4, RunGap
<1> QED
  BY <1>2, <1>3, <1>4

LEMMA BoundaryGap == ASSUME Inv, GapInv, ReadBoundary PROVE GapInv'
<1>1. open /\ RunStep /\ UNCHANGED <<chatOut, excused>> /\ run.pc = "boundary"
  BY DEF ReadBoundary
<1> DEFINE stored == Stored(run.at.channel)
           last == IF stored = {} THEN 0 ELSE Max(stored)
<1>2. run' = [run EXCEPT !.pc = "page", !.position = last]
  BY DEF ReadBoundary
<1>3. stored \in SUBSET (1 .. Len(log)) /\ Len(log) \in Nat
  BY StoredFacts, RunFacts DEF Inv
<1>4. last \in Nat /\ last <= Len(log) /\ \A s \in stored : s <= last
  <2> HIDE DEF stored
  <2>1. CASE stored = {}
    BY <1>3, <2>1
  <2>2. CASE stored # {}
    <3>1. Max(stored) \in stored /\ \A s \in stored : s <= Max(stored)
      BY <1>3, <2>2, MaxFacts
    <3>2. Max(stored) \in Nat /\ Max(stored) <= Len(log)
      <4>1. \A s \in stored : s \in Nat /\ s <= Len(log)
        BY <1>3
      <4> QED
        BY <3>1, <4>1
    <3>3. last = Max(stored)
      BY <2>2
    <3> HIDE DEF last
    <3> QED
      BY <3>1, <3>2, <3>3
  <2> QED
    BY <2>1, <2>2
<1> HIDE DEF last
<1>5. /\ run'.pc = "page" /\ run'.at = run.at /\ run'.canceled = run.canceled /\ run'.page = run.page
      /\ run'.todo = run.todo /\ run'.position = last
  BY <1>2, RunFacts DEF Runs
<1>6. Busy /\ Busy'
  BY <1>1, <1>5 DEF Busy
<1>7. ASSUME Detail PROVE TodoInv' /\ CancelInv' /\ ItemInv' /\ FreshInv' /\ HistoryInv' /\ LiveInv' /\ ClosedInv'
  <2>1. TodoInv'
    <3>1. run.page.next <= 0 /\ \A s \in run.todo : s <= 0
      BY <1>1, <1>7 DEF Detail, TodoInv
    <3>2. run.page.next \in Nat /\ run.todo \in SUBSET Nat
      BY RunFacts DEF Pages
    <3>3. run.page.next <= last /\ \A s \in run.todo : s <= last
      BY <1>4, <3>1, <3>2
    <3> QED
      BY <1>1, <1>4, <1>5, <3>3 DEF TodoInv, RunStep
  <2>2. CancelInv'
    BY <1>1, <1>5, <1>6, <1>7 DEF Detail, CancelInv, RunStep
  <2>3. FreshInv'
    <3>1. run.at = peer => \A s \in Here : s <= last
      BY <1>4 DEF Here
    <3>2. Here' = Here /\ \A s \in Here : s \in Nat
      BY <1>1, GapTypes DEF Here, Stored, RunStep, Inv
    <3> QED
      BY <1>1, <1>4, <1>5, <3>1, <3>2 DEF FreshInv, RunStep
  <2>4. ItemInv' /\ HistoryInv' /\ LiveInv'
    BY <1>5 DEF ItemInv, HistoryInv, LiveInv
  <2>5. ClosedInv'
    BY <1>1, <1>5, <1>7 DEF Detail, ClosedInv, RunStep
  <2> QED
    BY <2>1, <2>2, <2>3, <2>4, <2>5
<1> QED
  BY <1>1, <1>5, <1>6, <1>7, RunGap
-----------------------------------------------------------------------------
LEMMA PageGap == ASSUME Inv, GapInv, ReadPage PROVE GapInv'
<1>1. open /\ RunStep /\ UNCHANGED <<chatOut, excused>> /\ run.pc = "page"
  BY DEF ReadPage
<1>2. PICK k \in 1 .. PageSize :
          run' = [run EXCEPT !.pc = "history",
                     !.page = IF run.position = 0 THEN EmptyPage
                              ELSE PageBelow(run.at.channel, run.position + 1, k),
                     !.todo = (IF run.position = 0 THEN EmptyPage
                               ELSE PageBelow(run.at.channel, run.position + 1, k)).msgs]
  BY DEF ReadPage
<1> DEFINE page == IF run.position = 0 THEN EmptyPage
                   ELSE PageBelow(run.at.channel, run.position + 1, k)
<1>3. TypeInv /\ run.at.channel \in Channels /\ run.position \in Nat /\ k \in Nat \ {0}
  BY RunFacts, ChatAssumption DEF Inv
<1>4. /\ \A s \in Stored(run.at.channel) : page.next <= s /\ s <= run.position => s \in page.msgs
      /\ page.next \in Nat /\ page.next <= run.position /\ \A s \in page.msgs : s <= run.position
  <2>1. CASE run.position = 0
    <3>1. page.next = 0 /\ page.msgs = {}
      BY <2>1 DEF EmptyPage
    <3>2. \A s \in Stored(run.at.channel) : s \in 1 .. Len(log) /\ Len(log) \in Nat
      BY <1>3, StoredFacts
    <3> HIDE DEF page
    <3> QED
      BY <2>1, <3>1, <3>2
  <2>2. CASE run.position # 0
    <3>1. PICK n \in Nat : n = run.position + 1
      BY <1>3
    <3>2. page = PageBelow(run.at.channel, n, k)
      BY <2>2, <3>1
    <3>3. /\ \A s \in Stored(run.at.channel) : page.next <= s /\ s < n => s \in page.msgs
          /\ page \in Pages /\ \A s \in page.msgs : s < n
      BY <1>3, <3>2, PageWhole, PageFacts
    <3>4. Stored(run.at.channel) \in SUBSET Nat
      BY <1>3, GapTypes
    <3>5. page.next = 0 \/ page.next \in page.msgs
      <4>1. page.next = IF page.msgs = {} THEN 0 ELSE Min(page.msgs)
        BY <3>2, PageNext
      <4>2. page.msgs \in SUBSET Nat
        BY <3>3 DEF Pages
      <4> QED
        BY <4>1, <4>2, MinFacts
    <3>6. page.next \in Nat /\ page.msgs \in SUBSET Nat
      BY <3>3 DEF Pages
    <3> HIDE DEF page
    <3> QED
      BY <1>3, <3>1, <3>3, <3>4, <3>5, <3>6
  <2> QED
    BY <2>1, <2>2
<1>5. run' = [run EXCEPT !.pc = "history", !.page = page, !.todo = page.msgs]
  BY <1>2
<1> HIDE DEF page
<1>6. /\ run'.pc = "history" /\ run'.at = run.at /\ run'.canceled = run.canceled /\ run'.page = page
      /\ run'.todo = page.msgs /\ run'.position = run.position
  BY <1>5, RunFacts DEF Runs
<1>7. Busy /\ Busy'
  BY <1>1, <1>6 DEF Busy
<1>8. ASSUME Detail PROVE TodoInv' /\ CancelInv' /\ ItemInv' /\ FreshInv' /\ HistoryInv' /\ LiveInv' /\ ClosedInv'
  <2>1. TodoInv'
    BY <1>1, <1>4, <1>6, <1>8 DEF Detail, TodoInv, RunStep
  <2>2. CancelInv'
    BY <1>1, <1>6, <1>7, <1>8 DEF Detail, CancelInv, RunStep
  <2>3. FreshInv'
    BY <1>1, <1>6, <1>8 DEF Detail, FreshInv, RunStep, Here, Stored, Below
  <2>4. HistoryInv'
    <3>1. Here' = Here
      BY <1>1 DEF Here, Stored, RunStep
    <3>2. run.at = peer => \A s \in Here : page.next <= s /\ s <= run.position => s \in page.msgs
      BY <1>4 DEF Here
    <3> QED
      BY <1>1, <1>6, <3>1, <3>2 DEF HistoryInv, RunStep
  <2>5. ItemInv' /\ LiveInv'
    BY <1>6 DEF ItemInv, LiveInv
  <2>6. ClosedInv'
    BY <1>1, <1>6, <1>8 DEF Detail, ClosedInv, RunStep
  <2> QED
    BY <2>1, <2>2, <2>3, <2>4, <2>5, <2>6
<1> QED
  BY <1>1, <1>6, <1>7, <1>8, RunGap

(* The run takes up what it sends next.                                    *)
LEMMA SendsGap ==
    ASSUME Inv, GapInv, open, NEW pc, NEW item, Sends(pc, item), Busy,
           <<run.pc, pc>> \in {<<"history", "pushHistory">>, <<"history", "pushReady">>,
                               <<"live", "pushLive">>, <<"failed", "pushFailed">>},
           Detail =>
           /\ pc = "pushHistory" => /\ item.kind = "message" /\ item.epoch = run.at.epoch
                                    /\ item.seq \in run.todo
           /\ pc = "pushReady" => item = StatusOf(run.at, 1, run.page) /\ run.todo = {}
           /\ pc = "pushLive" =>
                 /\ item.kind = "message" /\ item.epoch = run.at.epoch
                 /\ run.position < item.seq /\ item.seq <= Len(log)
                 /\ \A s \in Stored(run.at.channel) : run.position < s => item.seq <= s
           /\ pc = "pushFailed" => item = StatusOf(run.at, 2, EmptyPage)
    PROVE  GapInv'
<1>1. RunStep /\ UNCHANGED <<chatOut, excused>>
  BY DEF Sends
<1>2. CASE run.canceled
  <2>1. run' = IdleRun
    BY <1>2 DEF Sends, Current
  <2> QED
    BY <1>1, <1>2, <2>1, GoesIdle
<1>3. CASE ~run.canceled
  <2>1. run' = [run EXCEPT !.pc = pc, !.item = item]
    BY <1>3 DEF Sends, Current
  <2>2. /\ run'.pc = pc /\ run'.at = run.at /\ run'.canceled = run.canceled /\ run'.page = run.page
        /\ run'.todo = run.todo /\ run'.position = run.position /\ run'.item = item
    BY <2>1, RunFacts DEF Runs
  <2>3. pc \in {"pushHistory", "pushReady", "pushLive", "pushFailed"} /\ Busy'
    BY <2>2 DEF Busy
  <2>4. ASSUME Detail PROVE TodoInv' /\ CancelInv' /\ ItemInv' /\ FreshInv' /\ HistoryInv' /\ LiveInv' /\ ClosedInv'
    <3>1. TodoInv'
      BY <1>1, <2>2, <2>3, <2>4 DEF Detail, TodoInv, RunStep
    <3>2. CancelInv'
      BY <1>1, <2>2, <2>3, <2>4 DEF Detail, CancelInv, RunStep
    <3>3. FreshInv'
      BY <1>1, <2>2, <2>3, <2>4 DEF Detail, FreshInv, RunStep, Here, Stored, Below
    <3>4. HistoryInv'
      BY <1>1, <2>2, <2>3, <2>4 DEF Detail, HistoryInv, RunStep, Here, Stored
    <3>5. LiveInv'
      BY <1>1, <2>2, <2>3, <2>4 DEF Detail, LiveInv, RunStep, Here, Stored
    <3>6. ClosedInv'
      BY <1>1, <2>2, <2>3, <2>4 DEF Detail, ClosedInv, RunStep
    <3>7. ItemInv'
      BY <1>1, <2>2, <2>3, <2>4 DEF ItemInv, RunStep, Stored, StatusOf
    <3> QED
      BY <3>1, <3>2, <3>3, <3>4, <3>5, <3>6, <3>7
  <2> QED
    BY <1>1, <2>2, <2>4, RunGap
<1> QED
  BY <1>2, <1>3

LEMMA EmitGap == ASSUME Inv, GapInv, EmitHistory \/ EmitLive \/ Ready \/ ReportFailure PROVE GapInv'
<1>1. CASE EmitHistory
  <2>1. Min(run.todo) \in run.todo
    BY <1>1, RunFacts, MinFacts DEF EmitHistory
  <2>2. open /\ run.pc = "history" /\ Sends("pushHistory", MessageOf(Min(run.todo), run.at.epoch))
    BY <1>1 DEF EmitHistory
  <2> QED
    BY <2>1, <2>2, SendsGap DEF MessageOf, Busy
<1>2. CASE EmitLive
  <2>1. /\ open /\ run.pc = "live" /\ Ahead # {}
        /\ Sends("pushLive", MessageOf(Min(Ahead), run.at.epoch))
    BY <1>2 DEF EmitLive
  <2>2. Stored(run.at.channel) \in SUBSET (1 .. Len(log)) /\ Len(log) \in Nat
    BY StoredFacts, RunFacts DEF Inv
  <2>3. /\ Ahead \in SUBSET Nat /\ \A s \in Ahead : run.position < s /\ s <= Len(log)
        /\ \A s \in Stored(run.at.channel) : run.position < s => s \in Ahead
    BY <2>2, RunFacts DEF Ahead
  <2>4. Min(Ahead) \in Ahead /\ \A s \in Ahead : Min(Ahead) <= s
    BY <2>1, <2>3, MinFacts
  <2>5. /\ MessageOf(Min(Ahead), run.at.epoch).kind = "message"
        /\ MessageOf(Min(Ahead), run.at.epoch).epoch = run.at.epoch
        /\ MessageOf(Min(Ahead), run.at.epoch).seq = Min(Ahead)
    BY DEF MessageOf
  <2> QED
    BY <2>1, <2>3, <2>4, <2>5, SendsGap DEF Busy
<1>3. CASE Ready
  <2>1. open /\ run.pc = "history" /\ run.todo = {} /\ Sends("pushReady", StatusOf(run.at, 1, run.page))
    BY <1>3 DEF Ready
  <2> QED
    BY <2>1, SendsGap DEF Busy
<1>4. CASE ReportFailure
  <2>1. open /\ run.pc = "failed" /\ Sends("pushFailed", StatusOf(run.at, 2, EmptyPage))
    BY <1>4 DEF ReportFailure
  <2> QED
    BY <2>1, SendsGap DEF Busy
<1> QED
  BY <1>1, <1>2, <1>3, <1>4
-----------------------------------------------------------------------------
(* A frame is put into the chat queue.                                     *)
LEMMA PushGap ==
    ASSUME Inv, Inv', GapInv, open,
           UNCHANGED <<log, retained, open, peer, out, requests, client, pending, excused>>,
           handler' \in {handler, IdleHandler}, Busy' => Busy /\ run'.at = run.at,
           NEW f \in Chats, chatOut' = Append(chatOut, f),
           Detail =>
             /\ FrameBelow(f, Len(log) + 1)
             /\ f.kind = "status" => /\ f.epoch <= peer.epoch /\ f.generation <= peer.generation
                                     /\ f.epoch = peer.epoch => f.channel = peer.channel
                                     /\ ~Announced => ~Outdated(f)
             /\ f.kind = "page" => Whole(f.page, f.req)
             /\ IsMessage(peer, f) => ReachOK(client, peer, chatOut, Here, f.seq)
             /\ IsReady(peer, f) => \A s \in Here : f.before <= s =>
                   \/ Has(client, peer, chatOut, s, Len(chatOut) + 1)
                   \/ f.before < s /\ Below(s)
             /\ TodoInv' /\ CancelInv' /\ ItemInv' /\ FreshInv' /\ HistoryInv' /\ LiveInv' /\ ClosedInv'
    PROVE  GapInv'
<1>0. TypeInv /\ TypeInv' /\ chatOut \in Seq(Chats) /\ Here \in SUBSET Nat /\ Len(log) \in Nat
  BY GapTypes DEF Inv, TypeInv, Here
<1>1. CacheInv' /\ (excused' = {} => NoGap(client, Stored(client.channel))')
  BY DEF GapInv, CacheInv, NoGap, Dropped, Stored
<1>2. /\ Len(chatOut) \in Nat /\ Len(chatOut') = Len(chatOut) + 1
      /\ chatOut'[Len(chatOut) + 1] = f /\ \A j \in 1 .. Len(chatOut) : chatOut'[j] = chatOut[j]
  BY <1>0, AppendFacts
<1>3. \A i \in 1 .. Len(chatOut') : i \in 1 .. Len(chatOut) \/ i = Len(chatOut) + 1
  BY <1>2
<1>4. ASSUME excused' = {} PROVE Detail'
  <2>1. Detail
    BY <1>4 DEF GapInv
  <2>2. NumberInv'
    <3>1. PICK n \in Nat : n = Len(log) + 1
      BY <1>0
    <3>2. Below(n) /\ FrameBelow(f, n)
      BY <2>1, <3>1 DEF Detail, NumberInv
    <3>3. handler'.req.before < n
      BY <1>0, <3>2, NoneBelow
    <3>4. Below(n)'
      BY <1>2, <1>3, <3>2, <3>3 DEF Below
    <3> QED
      BY <3>1, <3>4 DEF NumberInv, Below
  <2>3. GenerationInv'
    BY <1>2, <1>3, <2>1 DEF Detail, GenerationInv
  <2>4. ToldInv'
    BY <2>1 DEF Detail, ToldInv, StateOf
  <2>5. StaleInv'
    <3>1. Announced => Announced'
      BY DEF Announced
    <3>2. StaleInv
      BY <2>1 DEF Detail
    <3>3. ASSUME ~Announced, NEW i \in 1 .. Len(chatOut'), chatOut'[i].kind = "status"
          PROVE  ~Outdated(chatOut'[i])
      BY <1>2, <1>3, <2>1, <3>2, <3>3 DEF StaleInv
    <3> QED
      BY <3>1, <3>2, <3>3 DEF StaleInv, Outdated
  <2>6. WholeInv'
    <3>1. ASSUME NEW i \in 1 .. Len(chatOut'), chatOut'[i].kind = "page"
          PROVE  Whole(chatOut'[i].page, chatOut'[i].req)
      BY <1>2, <1>3, <2>1, <3>1 DEF Detail, WholeInv
    <3>2. handler'.pc = "push" => Whole(handler'.page, handler'.req)
      BY <2>1 DEF Detail, WholeInv, IdleHandler
    <3> QED
      BY <3>1, <3>2 DEF WholeInv, Whole, Stored
  <2>7. QueueInv'
    <3>1. Here' = Here
      BY DEF Here, Stored
    <3>2. QueueOK(client, peer, chatOut, Here)
      BY <2>1 DEF Detail, QueueInv
    <3>3. IsReady(peer, f) => \A s \in Here : f.before <= s =>
               \/ Has(client, peer, chatOut, s, Len(chatOut) + 1)
               \/ /\ f.before < s /\ (\A m \in client.shown : m < s)
                  /\ \A j \in 1 .. Len(chatOut) : FrameBelow(chatOut[j], s)
      BY <2>1 DEF Below
    <3>4. QueueOK(client, peer, Append(chatOut, f), Here)
      BY <1>0, <2>1, <3>2, <3>3, AppendQueue
    <3> QED
      BY <3>1, <3>4 DEF QueueInv
  <2> QED
    BY <2>1, <2>2, <2>3, <2>4, <2>5, <2>6, <2>7 DEF Detail
<1> QED
  BY <1>1, <1>4 DEF GapInv

(* Pages are not part of the chat they are queued with.                    *)
LEMMA HistoryPushGap == ASSUME Inv, Inv', GapInv, HistoryPush PROVE GapInv'
<1> DEFINE f == [kind |-> "page", req |-> handler.req, page |-> handler.page]
<1>0. TypeInv /\ chatOut \in Seq(Chats) /\ Here \in SUBSET Nat /\ Len(log) \in Nat /\ handler \in Handlers
  BY GapTypes DEF Inv, TypeInv, Here
<1>1. /\ open /\ handler.pc = "push" /\ chatOut' = Append(chatOut, f) /\ handler' = IdleHandler
      /\ UNCHANGED <<log, retained, open, peer, out, wake, run, requests, client, pending, excused>>
  BY DEF HistoryPush, server
<1>2. f \in Chats /\ f.kind = "page" /\ f.req = handler.req /\ f.page = handler.page
  BY <1>0 DEF Handlers, Chats, PageFrames
<1> HIDE DEF f
<1>3. Busy' => Busy /\ run'.at = run.at
  BY <1>1 DEF Busy
<1>4. ~IsStatus(peer, f) /\ ~IsReady(peer, f) /\ ~IsMessage(peer, f)
  BY <1>2 DEF IsStatus, IsReady, IsMessage
<1>5. \A s, k : k \in 1 .. Len(chatOut) + 1 /\ Has(client, peer, chatOut, s, k) => Has(client, peer, chatOut', s, k)
  BY <1>0, <1>1, <1>2, AppendHas
<1>6. Len(chatOut) \in Nat /\ Len(chatOut') = Len(chatOut) + 1
      /\ chatOut'[Len(chatOut) + 1] = f /\ \A j \in 1 .. Len(chatOut) : chatOut'[j] = chatOut[j]
  BY <1>0, <1>1, <1>2, AppendFacts
<1>7. \A s : Has(client, peer, chatOut, s, Len(chatOut) + 1) => Has(client, peer, chatOut', s, Len(chatOut') + 1)
  <2>1. Len(chatOut) + 1 \in 1 .. Len(chatOut) + 1 /\ Len(chatOut') + 1 \in Nat
        /\ Len(chatOut) + 1 <= Len(chatOut') + 1 /\ Len(chatOut) + 1 \in Nat
    BY <1>6
  <2> QED
    BY <1>5, <2>1, HasMore
<1>8. Here' = Here
  BY <1>1 DEF Here, Stored
<1>9. ASSUME Detail
      PROVE  /\ FrameBelow(f, Len(log) + 1) /\ Whole(f.page, f.req)
             /\ TodoInv' /\ CancelInv' /\ ItemInv' /\ FreshInv' /\ HistoryInv' /\ LiveInv' /\ ClosedInv'
  <2>1. FrameBelow(f, Len(log) + 1) /\ Whole(f.page, f.req)
    BY <1>1, <1>2, <1>9 DEF Detail, NumberInv, Below, FrameBelow, WholeInv
  <2>2. TodoInv' /\ CancelInv' /\ ItemInv'
    BY <1>1, <1>9 DEF Detail, TodoInv, CancelInv, Busy, ItemInv, StatusOf, Stored
  <2>3. FreshInv'
    <3>1. ASSUME NEW s \in Here, Below(s) PROVE Below(s)'
      <4>1. \A i \in 1 .. Len(chatOut') : i \in 1 .. Len(chatOut) \/ i = Len(chatOut) + 1
        BY <1>6
      <4>2. FrameBelow(f, s) /\ handler'.req.before < s
        BY <1>0, <1>1, <1>2, <3>1, NoneBelow DEF FrameBelow
      <4> QED
        BY <1>1, <1>6, <3>1, <4>1, <4>2 DEF Below
    <3> QED
      BY <1>1, <1>8, <1>9, <3>1 DEF Detail, FreshInv
  <2>4. HistoryInv'
    BY <1>1, <1>7, <1>8, <1>9 DEF Detail, HistoryInv
  <2>5. LiveInv'
    <3>1. ASSUME run.pc \in {"live", "pushLive"}, run.at = peer
          PROVE  ReachOK(client, peer, Append(chatOut, f), Here, run.position + 1)
      <4>1. PICK n \in Nat : n = run.position + 1
        BY RunFacts
      <4>2. ReachOK(client, peer, chatOut, Here, n)
        BY <1>9, <3>1, <4>1 DEF Detail, LiveInv
      <4>3. \A s \in Here : ~(n <= s /\ s < n)
        BY <1>0
      <4>4. ReachOK(client, peer, Append(chatOut, f), Here, n)
        BY <1>0, <1>2, <1>4, <4>2, <4>3, AppendReach
      <4> QED
        BY <4>1, <4>4
    <3> QED
      BY <1>1, <1>8, <3>1 DEF LiveInv
  <2>6. ClosedInv'
    <3>1. ClosedOK(client, peer, chatOut) => ClosedOK(client, peer, Append(chatOut, f))
      BY <1>0, <1>2, <1>4, AppendClosed
    <3> QED
      BY <1>1, <1>9, <3>1 DEF Detail, ClosedInv
  <2> QED
    BY <2>1, <2>2, <2>3, <2>4, <2>5, <2>6
<1> QED
  BY <1>1, <1>2, <1>3, <1>4, <1>9, PushGap
-----------------------------------------------------------------------------
(* What the run pushes, and where the run is.                              *)
LEMMA PushFacts ==
    ASSUME Inv, Detail, Busy
    PROVE  /\ run.at.epoch <= peer.epoch /\ run.at.generation <= peer.generation
           /\ run.at.epoch = peer.epoch => run.at.channel = peer.channel
           /\ run.at.generation = peer.generation => run.at = peer
           /\ ~Announced => ~Outdated(run.at)
           /\ run.at # peer => ClosedOK(client, peer, chatOut)
<1>1. PICK Chan \in [Nat -> Channels] : EpochInv(Chan)
  BY DEF Inv
<1>2. run.at.epoch <= peer.epoch /\ (run.at.epoch = peer.epoch => run.at.channel = peer.channel)
  BY <1>1 DEF EpochInv, PlaceInv
<1>3. peer \in Spots /\ run.at \in Spots
  BY RunFacts
<1>4. /\ run.at.generation <= peer.generation
      /\ run.at.generation = peer.generation => run.at = peer
  BY <1>3 DEF Detail, CancelInv, Spots
<1>5. ~Announced => ~Outdated(run.at)
  BY DEF Detail, StaleInv
<1>6. run.at # peer => ClosedOK(client, peer, chatOut)
  BY DEF Detail, ClosedInv
<1> QED
  BY <1>2, <1>4, <1>5, <1>6

(* With no chat ready, there is nothing to have been sent.                 *)
LEMMA ClosedReach ==
    ASSUME NEW c, NEW p, NEW q, NEW T, NEW n, ClosedOK(c, p, q)
    PROVE  ReachOK(c, p, q, T, n)
BY DEF ClosedOK, ReachOK

LEMMA PushesBelow ==
    ASSUME Inv, Inv', NEW f \in Chats, chatOut' = Append(chatOut, f),
           UNCHANGED <<client, pending, handler, requests>>, NEW x \in Nat, Below(x), FrameBelow(f, x)
    PROVE  Below(x)'
<1>1. chatOut \in Seq(Chats)
  BY DEF Inv, TypeInv
<1>2. /\ Len(chatOut) \in Nat /\ Len(chatOut') = Len(chatOut) + 1
      /\ chatOut'[Len(chatOut) + 1] = f /\ \A j \in 1 .. Len(chatOut) : chatOut'[j] = chatOut[j]
  BY <1>1, AppendFacts
<1>3. \A i \in 1 .. Len(chatOut') : i \in 1 .. Len(chatOut) \/ i = Len(chatOut) + 1
  BY <1>2
<1> QED
  BY <1>2, <1>3 DEF Below

LEMMA PushesHas ==
    ASSUME Inv, NEW f \in Chats, chatOut' = Append(chatOut, f), NEW c, NEW p, NEW s
    PROVE  /\ Has(c, p, chatOut, s, Len(chatOut) + 1) => Has(c, p, chatOut', s, Len(chatOut') + 1)
           /\ IsMessage(p, f) /\ f.seq = s => Has(c, p, chatOut', s, Len(chatOut') + 1)
<1>1. chatOut \in Seq(Chats)
  BY DEF Inv, TypeInv
<1>2. /\ Len(chatOut) \in Nat /\ Len(chatOut') = Len(chatOut) + 1 /\ chatOut'[Len(chatOut) + 1] = f
  BY <1>1, AppendFacts
<1>3. /\ Len(chatOut) + 1 \in 1 .. Len(chatOut) + 1 /\ Len(chatOut') + 1 \in Nat
      /\ Len(chatOut) + 1 <= Len(chatOut') + 1 /\ Len(chatOut) + 1 \in Nat
      /\ Len(chatOut) + 1 \in 1 .. Len(chatOut') + 1 - 1
  BY <1>2
<1>4. Has(c, p, chatOut, s, Len(chatOut) + 1) => Has(c, p, chatOut', s, Len(chatOut) + 1)
  BY <1>1, <1>3, AppendHas
<1>5. Has(c, p, chatOut, s, Len(chatOut) + 1) => Has(c, p, chatOut', s, Len(chatOut') + 1)
  BY <1>3, <1>4, HasMore
<1>6. IsMessage(p, f) /\ f.seq = s => Has(c, p, chatOut', s, Len(chatOut') + 1)
  BY <1>2, <1>3 DEF Has
<1> QED
  BY <1>5, <1>6

LEMMA ChatPushGap == ASSUME Inv, Inv', GapInv, ChatPush PROVE GapInv'
<1>0. TypeInv /\ chatOut \in Seq(Chats) /\ Here \in SUBSET Nat /\ Len(log) \in Nat
  BY GapTypes DEF Inv, TypeInv, Here
<1>1. PICK f \in Chats : f = run.item
  BY RunFacts DEF Chats
<1>2. /\ open /\ Pushing /\ chatOut' = Append(chatOut, f) /\ RunStep /\ UNCHANGED excused
  BY <1>1 DEF ChatPush
<1>3. /\ UNCHANGED <<log, retained, open, peer, out, handler, requests, client, pending>>
      /\ Here' = Here /\ Busy
  BY <1>2 DEF RunStep, Here, Stored, Busy, Pushing
<1>r. /\ run \in Runs /\ peer \in Spots /\ run.at \in Spots /\ run.position \in Nat
      /\ run.page.next \in Nat /\ run.todo \in SUBSET Nat
  BY RunFacts DEF Pages
<1>m. f.kind = "message" => f.seq \in Nat /\ f.epoch \in Nat
  BY <1>1 DEF Chats, Items, Messages, Statuses, PageFrames
<1>4. CASE run.pc = "pushHistory"
  <2>1. run' = [run EXCEPT !.pc = "history", !.todo = run.todo \ {f.seq}, !.item = NoStatus]
    BY <1>1, <1>4 DEF ChatPush
  <2>2. /\ run'.pc = "history" /\ run'.at = run.at /\ run'.canceled = run.canceled /\ run'.page = run.page
        /\ run'.todo = run.todo \ {f.seq} /\ run'.position = run.position
    BY <1>r, <2>1 DEF Runs
  <2>3. Busy' => Busy /\ run'.at = run.at
    BY <1>3, <2>2
  <2>4. ASSUME Detail
        PROVE  /\ FrameBelow(f, Len(log) + 1) /\ f.kind = "message" /\ ~IsReady(peer, f)
               /\ IsMessage(peer, f) => ReachOK(client, peer, chatOut, Here, f.seq)
               /\ TodoInv' /\ CancelInv' /\ ItemInv' /\ FreshInv' /\ HistoryInv' /\ LiveInv' /\ ClosedInv'
    <3>1. /\ f.kind = "message" /\ f.epoch = run.at.epoch /\ f.seq \in run.todo
          /\ \A s \in run.todo : s <= run.position
          /\ run.position <= Len(log)
      BY <1>1, <1>4, <2>4 DEF Detail, ItemInv, TodoInv
    <3>2. f.seq <= run.position
      BY <3>1
    <3>3. FrameBelow(f, Len(log) + 1)
      BY <1>0, <1>m, <1>r, <3>1, <3>2 DEF FrameBelow
    <3>4. ~IsReady(peer, f) /\ ~IsStatus(peer, f)
      BY <3>1 DEF IsReady, IsStatus
    <3>5. ClosedOK(client, peer, chatOut)
      BY <1>4, <2>4 DEF Detail, ClosedInv
    <3>6. ReachOK(client, peer, chatOut, Here, f.seq)
      BY <3>5, ClosedReach
    <3>7. TodoInv'
      BY <1>3, <2>2, <2>4 DEF Detail, TodoInv
    <3>8. CancelInv' /\ ItemInv' /\ LiveInv'
      BY <1>3, <2>2, <2>3, <2>4 DEF Detail, CancelInv, ItemInv, LiveInv, Busy
    <3>9. FreshInv'
      <4> SUFFICES ASSUME run.at = peer, NEW s \in Here, run.position < s PROVE Below(s)'
        BY <1>3, <2>2 DEF FreshInv
      <4>1. Below(s) /\ s \in Nat
        BY <1>0, <1>4, <2>4 DEF Detail, FreshInv
      <4>2. FrameBelow(f, s)
        BY <1>m, <1>r, <3>1, <3>2, <4>1 DEF FrameBelow
      <4> QED
        BY <1>2, <1>3, <4>1, <4>2, PushesBelow
    <3>10. HistoryInv'
      <4> SUFFICES ASSUME run.at = peer, NEW s \in Here, run.page.next <= s, s <= run.position
                   PROVE  s \in run.todo \ {f.seq} \/ Has(client, peer, chatOut', s, Len(chatOut') + 1)
        BY <1>3, <2>2 DEF HistoryInv
      <4>1. s \in run.todo \/ Has(client, peer, chatOut, s, Len(chatOut) + 1)
        BY <1>4, <2>4 DEF Detail, HistoryInv
      <4>2. IsMessage(peer, f)
        BY <3>1 DEF IsMessage
      <4> QED
        BY <1>2, <4>1, <4>2, PushesHas
    <3>11. ClosedInv'
      <4>1. ClosedOK(client, peer, Append(chatOut, f))
        BY <1>0, <3>4, <3>5, AppendClosed
      <4> QED
        BY <1>2, <1>3, <4>1 DEF ClosedInv
    <3> QED
      BY <3>1, <3>3, <3>4, <3>6, <3>7, <3>8, <3>9, <3>10, <3>11
  <2> QED
    BY <1>2, <1>3, <2>3, <2>4, PushGap
<1>5. CASE run.pc = "pushReady"
  <2>1. run' = [run EXCEPT !.pc = "live", !.page = EmptyPage, !.item = NoStatus]
    BY <1>5 DEF ChatPush
  <2>2. /\ run'.pc = "live" /\ run'.at = run.at /\ run'.canceled = run.canceled /\ run'.page = EmptyPage
        /\ run'.todo = run.todo /\ run'.position = run.position /\ EmptyPage.next = 0
    BY <1>r, <2>1 DEF Runs, EmptyPage
  <2>3. Busy' => Busy /\ run'.at = run.at
    BY <1>3, <2>2
  <2>4. ASSUME Detail
        PROVE  /\ FrameBelow(f, Len(log) + 1) /\ f.kind = "status"
               /\ f.epoch <= peer.epoch /\ f.generation <= peer.generation
               /\ f.epoch = peer.epoch => f.channel = peer.channel
               /\ ~Announced => ~Outdated(f)
               /\ IsReady(peer, f) => \A s \in Here : f.before <= s =>
                      Has(client, peer, chatOut, s, Len(chatOut) + 1) \/ (f.before < s /\ Below(s))
               /\ TodoInv' /\ CancelInv' /\ ItemInv' /\ FreshInv' /\ HistoryInv' /\ LiveInv' /\ ClosedInv'
    <3>1. f = StatusOf(run.at, 1, run.page) /\ run.todo = {}
      BY <1>1, <1>5, <2>4 DEF Detail, ItemInv
    <3>2. /\ f.kind = "status" /\ f.epoch = run.at.epoch /\ f.generation = run.at.generation
          /\ f.channel = run.at.channel /\ f.status = 1 /\ f.before = run.page.next
      BY <3>1 DEF StatusOf
    <3>3. run.page.next <= run.position /\ run.position <= Len(log)
      BY <2>4 DEF Detail, TodoInv
    <3>4. FrameBelow(f, Len(log) + 1)
      BY <1>0, <1>r, <3>2, <3>3 DEF FrameBelow
    <3>5. /\ f.epoch <= peer.epoch /\ f.generation <= peer.generation
          /\ f.epoch = peer.epoch => f.channel = peer.channel
          /\ ~Announced => ~Outdated(f)
          /\ IsStatus(peer, f) <=> run.at = peer
          /\ run.at # peer => ClosedOK(client, peer, chatOut)
      BY <1>3, <2>4, <3>2, PushFacts DEF Outdated, IsStatus
    <3>6. IsReady(peer, f) <=> run.at = peer
      BY <3>2, <3>5 DEF IsReady
    <3>7. run.at = peer => \A s \in Here : f.before <= s /\ s <= run.position =>
              Has(client, peer, chatOut, s, Len(chatOut) + 1)
      BY <1>5, <2>4, <3>1, <3>2 DEF Detail, HistoryInv
    <3>8. ASSUME run.at = peer, NEW s \in Here, f.before <= s
          PROVE  Has(client, peer, chatOut, s, Len(chatOut) + 1) \/ (f.before < s /\ Below(s))
      <4>1. s \in Nat
        BY <1>0
      <4>2. CASE s <= run.position
        BY <3>7, <3>8, <4>2
      <4>3. CASE ~(s <= run.position)
        <5>1. run.position < s /\ f.before < s
          BY <1>r, <3>2, <3>3, <4>1, <4>3
        <5> QED
          BY <1>5, <2>4, <3>8, <5>1 DEF Detail, FreshInv
      <4> QED
        BY <4>2, <4>3
    <3>9. TodoInv'
      BY <1>3, <1>r, <2>2, <2>4 DEF Detail, TodoInv
    <3>10. CancelInv' /\ ItemInv' /\ FreshInv' /\ HistoryInv'
      BY <1>3, <2>2, <2>3, <2>4 DEF Detail, CancelInv, ItemInv, FreshInv, HistoryInv, Busy
    <3>11. LiveInv'
      <4>1. ASSUME run.at = peer PROVE ReachOK(client, peer, Append(chatOut, f), Here, run.position + 1)
        <5>1. PICK n \in Nat : n = run.position + 1
          BY <1>r
        <5>2. \A s \in Here : f.before <= s /\ s < n => Has(client, peer, chatOut, s, Len(chatOut) + 1)
          <6>1. \A s \in Here : s < n => s <= run.position
            BY <1>0, <1>r, <5>1
          <6> QED
            BY <3>7, <4>1, <6>1
        <5>3. ReachOK(client, peer, Append(chatOut, f), Here, n)
          BY <1>0, <3>6, <4>1, <5>2, ReadyReach
        <5> QED
          BY <5>1, <5>3
      <4> QED
        BY <1>2, <1>3, <2>2, <4>1 DEF LiveInv
    <3>12. ClosedInv'
      <4>1. ASSUME run.at # peer PROVE ClosedOK(client, peer, Append(chatOut, f))
        BY <1>0, <3>5, <3>6, <4>1, AppendClosed
      <4> QED
        BY <1>2, <1>3, <2>2, <4>1 DEF ClosedInv
    <3> QED
      BY <3>2, <3>4, <3>5, <3>6, <3>8, <3>9, <3>10, <3>11, <3>12
  <2>5. Detail => ~IsMessage(peer, f)
    BY <2>4 DEF IsMessage
  <2> QED
    BY <1>2, <1>3, <2>3, <2>4, <2>5, PushGap
<1>6. CASE run.pc = "pushLive"
  <2>1. run' = [run EXCEPT !.pc = "live", !.position = f.seq, !.item = NoStatus]
    BY <1>1, <1>6 DEF ChatPush
  <2>2. /\ run'.pc = "live" /\ run'.at = run.at /\ run'.canceled = run.canceled /\ run'.page = run.page
        /\ run'.todo = run.todo /\ run'.position = f.seq
    BY <1>r, <2>1 DEF Runs
  <2>3. Busy' => Busy /\ run'.at = run.at
    BY <1>3, <2>2
  <2>4. ASSUME Detail
        PROVE  /\ FrameBelow(f, Len(log) + 1) /\ f.kind = "message" /\ ~IsReady(peer, f)
               /\ IsMessage(peer, f) => ReachOK(client, peer, chatOut, Here, f.seq)
               /\ TodoInv' /\ CancelInv' /\ ItemInv' /\ FreshInv' /\ HistoryInv' /\ LiveInv' /\ ClosedInv'
    <3>1. /\ f.kind = "message" /\ f.epoch = run.at.epoch
          /\ run.position < f.seq /\ f.seq <= Len(log)
          /\ \A s \in Stored(run.at.channel) : run.position < s => f.seq <= s
      BY <1>1, <1>6, <2>4 DEF Detail, ItemInv
    <3>2. FrameBelow(f, Len(log) + 1)
      BY <1>0, <1>m, <3>1 DEF FrameBelow
    <3>3. ~IsReady(peer, f) /\ ~IsStatus(peer, f)
      BY <3>1 DEF IsReady, IsStatus
    <3>4. run.at = peer => /\ ReachOK(client, peer, chatOut, Here, run.position + 1)
                           /\ \A s \in Here : run.position < s => f.seq <= s
      BY <1>6, <2>4, <3>1 DEF Detail, LiveInv, Here
    <3>5. run.at # peer => ClosedOK(client, peer, chatOut)
      BY <1>3, <2>4, PushFacts
    <3>6. ReachOK(client, peer, chatOut, Here, f.seq)
      <4>1. CASE run.at = peer
        <5>1. \A s \in Here : s < f.seq => s < run.position + 1
          BY <1>0, <1>m, <1>r, <3>1, <3>4, <4>1
        <5> QED
          BY <3>4, <4>1, <5>1 DEF ReachOK, UpTo
      <4>2. CASE run.at # peer
        BY <3>5, <4>2, ClosedReach
      <4> QED
        BY <4>1, <4>2
    <3>7. TodoInv'
      <4>1. run.page.next <= run.position /\ \A s \in run.todo : s <= run.position
        BY <2>4 DEF Detail, TodoInv
      <4>2. run.page.next <= f.seq /\ \A s \in run.todo : s <= f.seq
        BY <1>m, <1>r, <3>1, <4>1
      <4> QED
        BY <1>3, <2>2, <3>1, <4>2 DEF TodoInv
    <3>8. CancelInv' /\ ItemInv' /\ FreshInv' /\ HistoryInv'
      BY <1>3, <2>2, <2>3, <2>4 DEF Detail, CancelInv, ItemInv, FreshInv, HistoryInv, Busy
    <3>9. LiveInv'
      <4>1. ASSUME run.at = peer PROVE ReachOK(client, peer, Append(chatOut, f), Here, f.seq + 1)
        <5>1. PICK n \in Nat : n = run.position + 1
          BY <1>r
        <5>2. PICK m \in Nat : m = f.seq + 1
          BY <1>m, <3>1
        <5>3. \A s \in Here : n <= s /\ s < m => f.seq = s
          BY <1>0, <1>m, <1>r, <3>1, <3>4, <4>1, <5>1, <5>2
        <5>4. IsMessage(peer, f)
          BY <3>1, <4>1 DEF IsMessage
        <5>5. ReachOK(client, peer, chatOut, Here, n)
          BY <3>4, <4>1, <5>1
        <5>6. ReachOK(client, peer, Append(chatOut, f), Here, m)
          BY <1>0, <3>3, <5>3, <5>4, <5>5, AppendReach
        <5> QED
          BY <5>2, <5>6
      <4> QED
        BY <1>2, <1>3, <2>2, <4>1 DEF LiveInv
    <3>10. ClosedInv'
      <4>1. ASSUME run.at # peer PROVE ClosedOK(client, peer, Append(chatOut, f))
        BY <1>0, <3>3, <3>5, <4>1, AppendClosed
      <4> QED
        BY <1>2, <1>3, <2>2, <4>1 DEF ClosedInv
    <3> QED
      BY <3>1, <3>2, <3>3, <3>6, <3>7, <3>8, <3>9, <3>10
  <2> QED
    BY <1>2, <1>3, <2>3, <2>4, PushGap
<1>7. CASE run.pc = "pushFailed"
  <2>1. run' = IdleRun
    BY <1>7 DEF ChatPush
  <2>2. /\ run'.pc = "idle" /\ ~run'.canceled /\ run'.page.next = 0 /\ run'.todo = {} /\ run'.position = 0
    BY <2>1 DEF IdleRun, EmptyPage
  <2>3. ~Busy'
    BY <2>2 DEF Busy
  <2>4. ASSUME Detail
        PROVE  /\ FrameBelow(f, Len(log) + 1) /\ f.kind = "status" /\ ~IsReady(peer, f)
               /\ f.epoch <= peer.epoch /\ f.generation <= peer.generation
               /\ f.epoch = peer.epoch => f.channel = peer.channel
               /\ ~Announced => ~Outdated(f)
               /\ TodoInv' /\ CancelInv' /\ ItemInv' /\ FreshInv' /\ HistoryInv' /\ LiveInv' /\ ClosedInv'
    <3>1. f = StatusOf(run.at, 2, EmptyPage)
      BY <1>1, <1>7, <2>4 DEF Detail, ItemInv
    <3>2. /\ f.kind = "status" /\ f.epoch = run.at.epoch /\ f.generation = run.at.generation
          /\ f.channel = run.at.channel /\ f.status = 2 /\ f.before = 0
      BY <3>1 DEF StatusOf, EmptyPage
    <3>3. FrameBelow(f, Len(log) + 1)
      BY <1>0, <3>2 DEF FrameBelow
    <3>4. /\ f.epoch <= peer.epoch /\ f.generation <= peer.generation
          /\ f.epoch = peer.epoch => f.channel = peer.channel
          /\ ~Announced => ~Outdated(f)
          /\ IsStatus(peer, f) <=> run.at = peer
          /\ run.at # peer => ClosedOK(client, peer, chatOut)
      BY <1>3, <2>4, <3>2, PushFacts DEF Outdated, IsStatus
    <3>5. ~IsReady(peer, f)
      BY <3>2 DEF IsReady
    <3>6. TodoInv'
      BY <1>0, <1>3, <2>2 DEF TodoInv
    <3>7. CancelInv' /\ ItemInv' /\ FreshInv' /\ HistoryInv' /\ LiveInv'
      BY <2>2, <2>3 DEF CancelInv, ItemInv, FreshInv, HistoryInv, LiveInv
    <3>8. ClosedInv'
      <4>1. ClosedOK(client, peer, Append(chatOut, f))
        BY <1>0, <3>4, <3>5, AppendClosed
      <4> QED
        BY <1>2, <1>3, <4>1 DEF ClosedInv
    <3> QED
      BY <3>2, <3>3, <3>4, <3>5, <3>6, <3>7, <3>8
  <2>5. Detail => ~IsMessage(peer, f)
    BY <2>4 DEF IsMessage
  <2> QED
    BY <1>2, <1>3, <2>3, <2>4, <2>5, PushGap
<1> QED
  BY <1>2, <1>4, <1>5, <1>6, <1>7 DEF Pushing
-----------------------------------------------------------------------------
LEMMA Prefixed ==
    ASSUME NEW f \in Controls, NEW frames \in Seq(Controls)
    PROVE  /\ <<f>> \o frames \in Seq(Controls) /\ Len(frames) \in Nat
           /\ Len(<<f>> \o frames) = Len(frames) + 1 /\ (<<f>> \o frames)[1] = f
           /\ \A i \in 1 .. Len(frames) : (<<f>> \o frames)[i + 1] = frames[i]
<1> DEFINE one == <<f>>
<1>1. one \in Seq(Controls) /\ Len(one) = 1 /\ one[1] = f /\ Len(frames) \in Nat
  BY LenProperties
<1> HIDE DEF one
<1>2. /\ one \o frames \in Seq(Controls) /\ Len(one \o frames) = 1 + Len(frames)
      /\ \A i \in 1 .. 1 + Len(frames) : (one \o frames)[i] = IF i <= 1 THEN one[i] ELSE frames[i - 1]
  <2>1. /\ one \o frames \in Seq(Controls) /\ Len(one \o frames) = Len(one) + Len(frames)
        /\ \A i \in 1 .. Len(one) + Len(frames) :
              (one \o frames)[i] = IF i <= Len(one) THEN one[i] ELSE frames[i - Len(one)]
    BY <1>1, ConcatProperties
  <2> QED
    BY <1>1, <2>1
<1>3. /\ \A i \in 1 .. Len(frames) : i + 1 \in 1 .. 1 + Len(frames) /\ ~(i + 1 <= 1) /\ i + 1 - 1 = i
      /\ 1 \in 1 .. 1 + Len(frames) /\ 1 <= 1 /\ 1 + Len(frames) = Len(frames) + 1
  BY <1>1
<1>4. /\ one \o frames \in Seq(Controls) /\ Len(one \o frames) = Len(frames) + 1
      /\ (one \o frames)[1] = f /\ \A i \in 1 .. Len(frames) : (one \o frames)[i + 1] = frames[i]
  BY <1>1, <1>2, <1>3
<1> QED
  BY <1>1, <1>4 DEF one

(* Moves and reloads: all that was sent is of an earlier generation.       *)
LEMMA RestartGap ==
    ASSUME Inv, Inv', GapInv, open, NEW p \in Spots, NEW frames \in Seq(Controls), RestartChat(p, frames),
           UNCHANGED <<log, retained, chatOut, handler, client, pending, excused>>,
           \A x \in Nat : Below(x) => \A i \in 1 .. Len(requests') : requests'[i].before < x,
           p.generation = peer.generation,
           \/ /\ p.epoch = peer.epoch /\ p.channel = peer.channel
              /\ \A i \in 1 .. Len(frames) : frames[i].kind = "reply"
           \/ /\ p.epoch = peer.epoch + 1 /\ Len(frames) >= 1 /\ frames[1] = StateOf(p)
              /\ \A i \in 1 .. Len(frames) : frames[i].kind # "status"
    PROVE  GapInv'
<1> DEFINE g == p.generation + 1
           q == [p EXCEPT !.generation = g]
           st == StatusOf(q, 0, EmptyPage)
           all == <<st>> \o frames
<1>0. TypeInv /\ TypeInv' /\ Len(log) \in Nat
  BY GapTypes DEF Inv
<1>1. g \in Nat
  BY DEF Spots
<1>2. /\ peer' = q /\ Enqueue(all)
      /\ run' = [run EXCEPT !.canceled = run.pc \notin {"idle", "begin"}]
  BY DEF RestartChat
<1>3. /\ q \in Spots /\ q.channel = p.channel /\ q.epoch = p.epoch /\ q.generation = g
      /\ StateOf(q) = StateOf(p)
  <2> HIDE DEF g
  <2>1. q \in Spots /\ q.channel = p.channel /\ q.epoch = p.epoch /\ q.generation = g
    BY <1>1 DEF Spots
  <2> HIDE DEF q
  <2> QED
    BY <2>1 DEF StateOf
<1>g. g = peer.generation + 1 /\ peer.generation \in Nat /\ peer.epoch \in Nat
  BY DEF Inv, TypeInv, Spots
<1> HIDE DEF q
<1>4. /\ st \in Controls /\ st.kind = "status" /\ st.generation = g /\ st.status = 0 /\ st.before = 0
  BY <1>3, ConstantFacts DEF StatusOf, Controls, Statuses, Spots, Pages, EmptyPage
<1>5. st = StatusOf(peer, 0, EmptyPage)'
  BY <1>2 DEF StatusOf, EmptyPage
<1> HIDE DEF st, g
<1>6. /\ all \in Seq(Controls) /\ Len(frames) \in Nat /\ Len(all) = Len(frames) + 1 /\ all[1] = st
      /\ \A i \in 1 .. Len(frames) : all[i + 1] = frames[i]
  BY <1>4, Prefixed
<1> HIDE DEF all
<1>7. /\ run'.at = run.at /\ run'.item = run.item /\ run'.todo = run.todo /\ run'.position = run.position
      /\ run'.pc = run.pc /\ run'.page = run.page /\ run'.canceled = Busy
  <2> DEFINE c == run.pc \notin {"idle", "begin"}
  <2>1. c \in BOOLEAN /\ run' = [run EXCEPT !.canceled = c]
    BY <1>2
  <2> HIDE DEF c
  <2>2. run'.canceled = c
    BY <2>1, RunFacts DEF Runs
  <2>3. /\ run'.at = run.at /\ run'.item = run.item /\ run'.todo = run.todo /\ run'.position = run.position
        /\ run'.pc = run.pc /\ run'.page = run.page
    BY <2>1, RunFacts DEF Runs
  <2>4. c = Busy
    BY DEF c, Busy
  <2> QED
    BY <2>2, <2>3, <2>4
<1>8. CacheInv' /\ (excused' = {} => NoGap(client, Stored(client.channel))')
  BY DEF GapInv, CacheInv, NoGap, Dropped, Stored
<1>9. ASSUME open', excused' = {} PROVE Detail'
  <2>0. Detail
    BY <1>9 DEF GapInv
  <2>1. /\ Len(out) \in Nat /\ Len(out') = Len(out) + Len(frames) + 1
        /\ \A i \in 1 .. Len(out) : out'[i] = out[i]
        /\ out'[Len(out) + 1] = st
        /\ \A i \in 1 .. Len(frames) : out'[Len(out) + 1 + i] = frames[i]
    <3>1. out \in Seq(Controls)
      BY <1>0 DEF TypeInv
    <3>2. /\ Len(out) \in Nat /\ Len(out') = Len(out) + Len(all)
          /\ \A i \in 1 .. Len(out) : out'[i] = out[i]
          /\ \A i \in 1 .. Len(all) : out'[Len(out) + i] = all[i]
      BY <1>2, <1>6, <1>9, <3>1, EnqueueFull
    <3>3. /\ 1 \in 1 .. Len(all)
          /\ \A i \in 1 .. Len(frames) : i + 1 \in 1 .. Len(all) /\ Len(out) + (i + 1) = Len(out) + 1 + i
          /\ Len(out) + Len(all) = Len(out) + Len(frames) + 1
      BY <1>6, <3>2
    <3>4. out'[Len(out) + 1] = st
      BY <1>6, <3>2, <3>3
    <3>5. ASSUME NEW i \in 1 .. Len(frames) PROVE out'[Len(out) + 1 + i] = frames[i]
      <4>1. out'[Len(out) + (i + 1)] = all[i + 1]
        BY <3>2, <3>3
      <4> QED
        BY <1>6, <3>3, <4>1
    <3> QED
      BY <3>2, <3>3, <3>4, <3>5
  <2>2. \A i \in 1 .. Len(out') : \/ i \in 1 .. Len(out) \/ i = Len(out) + 1
                                  \/ \E j \in 1 .. Len(frames) : i = Len(out) + 1 + j
    <3>1. \A i \in 1 .. Len(out') : i > Len(out) + 1 =>
              i - (Len(out) + 1) \in 1 .. Len(frames) /\ i = Len(out) + 1 + (i - (Len(out) + 1))
      BY <1>6, <2>1
    <3>2. \A i \in 1 .. Len(out') : i \in 1 .. Len(out) \/ i = Len(out) + 1 \/ i > Len(out) + 1
      BY <1>6, <2>1
    <3> SUFFICES ASSUME NEW i \in 1 .. Len(out'), i > Len(out) + 1
                 PROVE  \E j \in 1 .. Len(frames) : i = Len(out) + 1 + j
      BY <3>2
    <3> QED
      BY <3>1
  <2>3. \A i \in 1 .. Len(out) : i \in 1 .. Len(out')
    BY <1>6, <2>1
  <2>4. /\ peer'.generation = g /\ peer'.epoch = p.epoch /\ peer'.channel = p.channel
        /\ StateOf(peer)' = StateOf(p)
    BY <1>2, <1>3 DEF StateOf
  <2>5. \A f \in Chats : f.kind = "status" => f.generation \in Nat /\ f.epoch \in Nat
    BY DEF Chats, Items, Messages, Statuses, PageFrames
  <2>6. /\ client.status.generation < g
        /\ \A i \in 1 .. Len(chatOut) : chatOut[i].kind = "status" =>
              /\ chatOut[i].generation < g /\ chatOut[i].epoch <= peer.epoch /\ chatOut[i].epoch <= p.epoch
              /\ chatOut[i].epoch = p.epoch => chatOut[i].channel = p.channel
    <3>1. client.status.generation \in Nat
      BY <1>0 DEF TypeInv, Clients, Statuses
    <3>2. client.status.generation < g
      BY <1>g, <2>0, <3>1 DEF Detail, GenerationInv
    <3>3. ASSUME NEW i \in 1 .. Len(chatOut), chatOut[i].kind = "status"
          PROVE  /\ chatOut[i].generation < g /\ chatOut[i].epoch <= peer.epoch /\ chatOut[i].epoch <= p.epoch
                 /\ chatOut[i].epoch = p.epoch => chatOut[i].channel = p.channel
      <4>1. chatOut[i].generation \in Nat /\ chatOut[i].epoch \in Nat
        BY <1>0, <2>5, <3>3, GapTypes
      <4>2. /\ chatOut[i].epoch <= peer.epoch /\ chatOut[i].generation <= peer.generation
            /\ chatOut[i].epoch = peer.epoch => chatOut[i].channel = peer.channel
        BY <2>0, <3>3 DEF Detail, GenerationInv
      <4>3. (p.epoch = peer.epoch /\ p.channel = peer.channel) \/ p.epoch = peer.epoch + 1
        OBVIOUS
      <4> QED
        BY <1>g, <4>1, <4>2, <4>3
    <3> QED
      BY <3>2, <3>3
  <2>7. Busy => run.at.generation < g /\ run.at.epoch <= peer.epoch /\ run.at.epoch <= p.epoch
    <3>1. p.epoch = peer.epoch \/ p.epoch = peer.epoch + 1
      OBVIOUS
    <3>2. run.at.generation \in Nat /\ run.at.epoch \in Nat
      BY RunFacts DEF Spots
    <3>3. Busy => run.at.generation <= peer.generation /\ run.at.epoch <= peer.epoch
      BY <2>0, PushFacts
    <3> QED
      BY <1>g, <3>1, <3>2, <3>3
  <2>n. NumberInv'
    <3>1. PICK n \in Nat : n = Len(log) + 1
      BY <1>0
    <3>2. Below(n)
      BY <2>0, <3>1 DEF Detail, NumberInv
    <3>3. Below(n)'
      BY <3>2 DEF Below
    <3> QED
      BY <3>1, <3>3 DEF NumberInv, Below
  <2>t. TodoInv'
    BY <1>7, <2>0 DEF Detail, TodoInv
  <2>a. Busy' <=> Busy
    BY <1>7 DEF Busy
  <2>c. CancelInv'
    <3>1. run'.canceled <=> Busy
      BY <1>7 DEF Busy
    <3>2. Busy => run'.at.generation < peer'.generation
      BY <1>7, <2>4, <2>7
    <3> QED
      BY <2>a, <3>1, <3>2 DEF CancelInv
  <2>i. ItemInv'
    BY <1>7, <2>0 DEF Detail, ItemInv, Stored, StatusOf, EmptyPage
  <2>g. GenerationInv'
    <3>1. /\ client'.status.generation <= peer'.generation
          /\ \A i \in 1 .. Len(chatOut') : chatOut'[i].kind = "status" =>
                /\ chatOut'[i].epoch <= peer'.epoch /\ chatOut'[i].generation <= peer'.generation
                /\ chatOut'[i].epoch = peer'.epoch => chatOut'[i].channel = peer'.channel
      <4>1. client.status.generation \in Nat
        BY <1>0 DEF TypeInv, Clients, Statuses
      <4>2. \A i \in 1 .. Len(chatOut) : chatOut[i].kind = "status" => chatOut[i].generation \in Nat
        BY <1>0, <2>5, GapTypes
      <4> QED
        BY <1>1, <2>4, <2>6, <4>1, <4>2
    <3>2. ASSUME NEW i \in 1 .. Len(out'), out'[i].kind = "status"
          PROVE  out'[i].generation <= peer'.generation /\ out'[i].status = 0 /\ out'[i].before = 0
      <4>1. CASE i \in 1 .. Len(out)
        <5>1. out[i].generation <= peer.generation /\ out[i].status = 0 /\ out[i].before = 0
          BY <2>0, <2>1, <3>2, <4>1 DEF Detail, GenerationInv
        <5>2. out[i].generation \in Nat
          BY <1>0, <2>1, <3>2, <4>1, LogFacts DEF Controls, States, Statuses, Replies
        <5> QED
          BY <1>g, <2>1, <2>4, <4>1, <5>1, <5>2
      <4>2. CASE i = Len(out) + 1
        BY <1>1, <1>4, <2>1, <2>4, <4>2
      <4>3. ASSUME NEW j \in 1 .. Len(frames), i = Len(out) + 1 + j PROVE FALSE
        BY <2>1, <3>2, <4>3
      <4> QED
        BY <2>2, <4>1, <4>2, <4>3
    <3> QED
      BY <3>1, <3>2 DEF GenerationInv
  <2>o. ToldInv'
    <3>1. CASE p.epoch = peer.epoch /\ p.channel = peer.channel
      <4>1. StateOf(p) = StateOf(peer)
        BY <3>1 DEF StateOf
      <4> QED
        BY <2>0, <2>1, <2>3, <2>4, <3>1, <4>1 DEF Detail, ToldInv
    <3>2. CASE Len(frames) >= 1 /\ frames[1] = StateOf(p)
      <4>1. 1 \in 1 .. Len(frames) /\ Len(out) + 1 + 1 \in 1 .. Len(out')
        BY <1>6, <2>1, <3>2
      <4> QED
        BY <2>1, <2>4, <3>2, <4>1 DEF ToldInv
    <3> QED
      BY <3>1, <3>2
  <2>s. StaleInv'
    <3>1. CASE /\ p.epoch = peer.epoch /\ p.channel = peer.channel
               /\ \A i \in 1 .. Len(frames) : frames[i].kind = "reply"
      <4>1. Len(out) + 1 \in 1 .. Len(out') /\ out'[Len(out) + 1] = StatusOf(peer, 0, EmptyPage)'
        BY <1>5, <1>6, <2>1
      <4>2. ASSUME NEW j \in Len(out) + 1 .. Len(out') PROVE out'[j].kind # "state"
        <5>1. j \in 1 .. Len(out') /\ j \notin 1 .. Len(out)
          BY <1>6, <2>1
        <5>2. CASE j = Len(out) + 1
          BY <1>4, <2>1, <5>2
        <5>3. CASE \E k \in 1 .. Len(frames) : j = Len(out) + 1 + k
          BY <2>1, <3>1, <5>3
        <5> QED
          BY <2>2, <5>1, <5>2, <5>3
      <4>3. Announced'
        BY <4>1, <4>2 DEF Announced
      <4> QED
        BY <4>3 DEF StaleInv
    <3>2. CASE p.epoch = peer.epoch + 1
      <4>1. \A i \in 1 .. Len(chatOut) : chatOut[i].kind = "status" => chatOut[i].epoch # p.epoch
        <5>1. \A i \in 1 .. Len(chatOut) : chatOut[i].kind = "status" => chatOut[i].epoch \in Nat
          BY <1>0, <2>5, GapTypes
        <5> QED
          BY <1>g, <2>6, <3>2, <5>1
      <4>2. Busy => run.at.epoch # p.epoch
        BY <1>g, <2>7, <3>2, RunFacts
      <4>3. client.epoch # p.epoch
        <5>1. PICK Chan \in [Nat -> Channels] : EpochInv(Chan)
          BY DEF Inv
        <5>2. client.epoch <= peer.epoch /\ client.epoch \in Nat
          BY <5>1, ClientFacts DEF EpochInv, PlaceInv
        <5> QED
          BY <1>g, <3>2, <5>2
      <4> QED
        BY <1>7, <2>4, <2>a, <4>1, <4>2, <4>3 DEF StaleInv, Outdated
    <3> QED
      BY <3>1, <3>2
  <2>w. WholeInv'
    BY <2>0 DEF Detail, WholeInv, Whole, Stored
  <2>8. \A i, k : ~OpenFor(client, peer', chatOut, i, k) \/ i \notin 0 .. Len(chatOut)
    <3> SUFFICES ASSUME NEW i \in 0 .. Len(chatOut) PROVE ~OpenAt(client, peer', chatOut, i)
      BY DEF OpenFor
    <3>1. CASE i = 0
      <4>1. client.status.generation \in Nat
        BY <1>0 DEF TypeInv, Clients, Statuses
      <4> QED
        BY <1>1, <2>4, <2>6, <3>1, <4>1 DEF OpenAt
    <3>2. CASE i # 0
      <4>1. i \in 1 .. Len(chatOut)
        BY <1>0, <3>2, GapTypes
      <4>2. chatOut[i].kind = "status" => chatOut[i].generation \in Nat
        BY <1>0, <2>5, <4>1, GapTypes
      <4> QED
        BY <1>1, <2>4, <2>6, <3>2, <4>1, <4>2 DEF OpenAt, IsReady, IsStatus
    <3> QED
      BY <3>1, <3>2
  <2>9. \A i \in 1 .. Len(chatOut) : ~IsReady(peer', chatOut[i])
    <3> SUFFICES ASSUME NEW i \in 1 .. Len(chatOut), chatOut[i].kind = "status"
                 PROVE  chatOut[i].generation # peer'.generation
      BY DEF IsReady, IsStatus
    <3>1. chatOut[i].generation \in Nat
      BY <1>0, <2>5, GapTypes
    <3> QED
      BY <1>1, <2>4, <2>6, <3>1
  <2>10. Busy => run'.at # peer'
    <3>1. run.at.generation \in Nat
      BY RunFacts DEF Spots
    <3> QED
      BY <1>1, <1>7, <2>4, <2>7, <3>1
  <2>11. FreshInv' /\ HistoryInv' /\ LiveInv'
    BY <1>7, <2>10 DEF FreshInv, HistoryInv, LiveInv, Busy
  <2>12. ClosedInv'
    BY <2>8 DEF ClosedInv, ClosedOK
  <2>13. QueueInv'
    <3>1. \A T : LiveOK(client, peer', chatOut, T)
      <4>1. \A k \in 1 .. Len(chatOut) : \A i \in 0 .. k - 1 : i \in 0 .. Len(chatOut)
        BY <1>0, GapTypes
      <4> QED
        BY <2>8, <4>1 DEF LiveOK
    <3>2. \A T : ReadyOK(client, peer', chatOut, T)
      BY <2>9 DEF ReadyOK
    <3> QED
      BY <3>1, <3>2 DEF QueueInv, QueueOK
  <2> QED
    BY <2>n, <2>t, <2>c, <2>i, <2>g, <2>o, <2>s, <2>w, <2>11, <2>12, <2>13 DEF Detail
<1> QED
  BY <1>8, <1>9 DEF GapInv

LEMMA MoveGap ==
    ASSUME Inv, Inv', GapInv, open, NEW c \in Channels, NEW frames \in Seq(Controls), MovePeer(c, frames),
           \A i \in 1 .. Len(frames) : frames[i].kind = "reply",
           UNCHANGED <<log, retained, chatOut, handler, client, pending, excused>>,
           \A x \in Nat : Below(x) => \A i \in 1 .. Len(requests') : requests'[i].before < x
    PROVE  GapInv'
<1> DEFINE e == peer.epoch + 1
           moved == [peer EXCEPT !.channel = c, !.epoch = e]
           all == <<StateOf(moved)>> \o frames
<1>1. RestartChat(moved, all)
  BY DEF MovePeer
<1>2. e \in Nat /\ peer \in Spots
  BY DEF Inv, TypeInv, Spots
<1>3. moved \in Spots /\ moved.epoch = e /\ moved.generation = peer.generation
  <2> HIDE DEF e
  <2> QED
    BY <1>2 DEF Spots
<1> HIDE DEF moved
<1>4. StateOf(moved) \in Controls /\ StateOf(moved).kind = "state"
  BY <1>3 DEF StateOf, Controls, States, Spots
<1>5. /\ all \in Seq(Controls) /\ Len(all) >= 1 /\ all[1] = StateOf(moved)
      /\ \A i \in 1 .. Len(all) : all[i].kind # "status"
  <2>1. /\ all \in Seq(Controls) /\ Len(frames) \in Nat /\ Len(all) = Len(frames) + 1
        /\ all[1] = StateOf(moved) /\ \A i \in 1 .. Len(frames) : all[i + 1] = frames[i]
    BY <1>4, Prefixed
  <2> HIDE DEF all
  <2>2. \A i \in 1 .. Len(all) : i = 1 \/ (i - 1 \in 1 .. Len(frames) /\ i - 1 + 1 = i)
    BY <2>1
  <2>3. Len(all) >= 1
    BY <2>1
  <2>4. ASSUME NEW i \in 1 .. Len(all) PROVE all[i].kind # "status"
    BY <1>4, <2>1, <2>2
  <2> QED
    BY <2>1, <2>3, <2>4
<1> HIDE DEF all
<1>6. moved.epoch = peer.epoch + 1
  BY <1>3
<1> HIDE DEF e
<1> QED
  BY <1>1, <1>3, <1>5, <1>6, RestartGap

LEMMA MovesGap ==
    ASSUME Inv, Inv', GapInv, HandleMove \/ HandleAccount \/ HandleSync \/ \E c \in Channels : MovedByOther(c)
    PROVE  GapInv'
<1> DEFINE req == Head(requests)
<1>1. TypeInv /\ open /\ UNCHANGED <<log, retained, chatOut, handler, client, pending, excused>>
  BY DEF HandleMove, HandleAccount, HandleSync, MovedByOther, Takes, Inv
<1>2. CASE \E c \in Channels : MovedByOther(c)
  <2>1. PICK c \in Channels : MovePeer(c, <<>>) /\ requests' = requests
    BY <1>2 DEF MovedByOther
  <2>2. <<>> \in Seq(Controls) /\ Len(<<>>) = 0
    BY EmptySeq
  <2>3. \A i \in 1 .. Len(<<>>) : <<>>[i].kind = "reply"
    BY <2>2
  <2>4. \A x \in Nat : Below(x) => \A i \in 1 .. Len(requests') : requests'[i].before < x
    BY <1>1, <2>1, NoneBelow
  <2> QED
    BY <1>1, <2>1, <2>2, <2>3, <2>4, MoveGap
<1>3. CASE HandleMove \/ HandleAccount \/ HandleSync
  <2>1. req \in Requests /\ req.channel \in Channels /\ requests # <<>> /\ Taken
    BY <1>3, TakenFacts DEF HandleMove, HandleAccount, HandleSync, Takes, Inv, Requests
  <2>0. \A x \in Nat : Below(x) => \A i \in 1 .. Len(requests') : requests'[i].before < x
    BY <1>1, <2>1, TakenBelow
  <2> DEFINE frames == <<ReplyTo(req)>>
  <2>2. frames \in Seq(Controls) /\ \A i \in 1 .. Len(frames) : frames[i].kind = "reply"
    <3>1. frames \in Seq(Controls) /\ Len(frames) = 1 /\ frames[1].kind = "reply"
      BY <2>1, ReplyFacts
    <3> HIDE DEF frames
    <3>2. \A i \in 1 .. Len(frames) : i = 1
      BY <3>1
    <3> QED
      BY <3>1, <3>2
  <2>3. CASE HandleMove
    <3>1. MovePeer(req.channel, frames)
      BY <2>3 DEF HandleMove
    <3> HIDE DEF frames, req
    <3> QED
      BY <1>1, <2>0, <2>1, <2>2, <3>1, MoveGap
  <2>5. CASE HandleAccount
    <3>1. MovePeer(peer.channel, frames)
      BY <2>5 DEF HandleAccount
    <3>2. peer.channel \in Channels
      BY DEF Inv, TypeInv, Spots
    <3> HIDE DEF frames, req
    <3> QED
      BY <1>1, <2>0, <2>1, <2>2, <3>1, <3>2, MoveGap
  <2>4. CASE HandleSync
    <3>1. RestartChat(peer, frames)
      BY <2>4 DEF HandleSync
    <3>2. peer \in Spots
      BY DEF Inv, TypeInv
    <3> HIDE DEF frames, req
    <3> QED
      BY <1>1, <2>0, <2>1, <2>2, <3>1, <3>2, RestartGap
  <2> QED
    BY <1>3, <2>3, <2>4, <2>5
<1> QED
  BY <1>2, <1>3
-----------------------------------------------------------------------------
(* The client applies a control frame: the chat it shows is not ready, or  *)
(* stays as it is.                                                         *)
LEMMA ControlChange ==
    ASSUME Inv, NEW f \in Controls, f.kind = "state" => client.epoch < f.epoch
    PROVE  \/ Apply(client, f) = client /\ f.kind = "reply"
           \/ /\ Apply(client, f) = client /\ f.kind = "status"
              /\ ~(f.epoch = client.epoch /\ f.channel = client.channel
                   /\ f.generation >= client.status.generation)
           \/ /\ f.kind = "status" /\ f.generation >= client.status.generation
              /\ Apply(client, f).shown = client.shown /\ Apply(client, f).limited = client.limited
              /\ Apply(client, f).epoch = client.epoch /\ Apply(client, f).status = f
           \/ /\ f.kind = "state" /\ Apply(client, f).shown = {} /\ Apply(client, f).limited = FALSE
              /\ Apply(client, f).epoch = f.epoch /\ Apply(client, f).status = NoStatus
<1>1. CASE f \in Statuses
  <2>1. Apply(client, f) = ApplyStatus(client, f) /\ f.kind = "status"
    BY <1>1 DEF Apply, Statuses
  <2>2. CASE f.epoch = client.epoch /\ f.channel = client.channel /\ f.generation >= client.status.generation
    <3>1. Apply(client, f) = [client EXCEPT !.status = f]
      BY <2>1, <2>2 DEF ApplyStatus
    <3>2. /\ Apply(client, f).shown = client.shown /\ Apply(client, f).limited = client.limited
          /\ Apply(client, f).epoch = client.epoch /\ Apply(client, f).status = f
      BY <3>1, ClientFacts DEF Clients
    <3> QED
      BY <2>1, <2>2, <3>2
  <2>3. CASE ~(f.epoch = client.epoch /\ f.channel = client.channel /\ f.generation >= client.status.generation)
    BY <2>1, <2>3 DEF ApplyStatus
  <2> QED
    BY <2>2, <2>3
<1>2. CASE f \in Replies
  BY <1>2 DEF Apply, Replies
<1>3. CASE f \in States
  <2>1. f.kind = "state" /\ f.channel \in Channels /\ f.epoch \in Nat
    BY <1>3 DEF States
  <2>2. ~(f.epoch < client.epoch) /\ f.epoch # client.epoch
    BY <2>1, ClientFacts
  <2>3. Apply(client, f) = [NewClient EXCEPT !.channel = f.channel, !.epoch = f.epoch]
    BY <2>1, <2>2 DEF Apply, ApplyState
  <2>4. /\ Apply(client, f).shown = NewClient.shown /\ Apply(client, f).limited = NewClient.limited
        /\ Apply(client, f).epoch = f.epoch /\ Apply(client, f).status = NewClient.status
    BY <2>3, ConstantFacts DEF Clients
  <2>5. NewClient.shown = {} /\ NewClient.limited = FALSE /\ NewClient.status = NoStatus
    BY DEF NewClient
  <2> QED
    BY <2>1, <2>4, <2>5
<1> QED
  BY <1>1, <1>2, <1>3 DEF Controls

LEMMA ControlGap ==
    ASSUME Inv, Inv', GapInv, open, UNCHANGED <<log, retained, peer, chatOut, run, handler, requests, excused>>,
           pending' \in {pending, NoRequest},
           Cardinality(client'.shown) <= MaxShown, client'.shown \subseteq client.shown,
           client'.status.before \in {client.status.before, 0},
           excused = {} => NoGap(client, Stored(client.channel))',
           Detail =>
             /\ \A s : Got(client, peer, s) => Got(client', peer, s)
             /\ OpenAt(client', peer, chatOut, 0) =>
                    OpenAt(client, peer, chatOut, 0) /\ client'.status.before = client.status.before
             /\ GenerationInv' /\ ToldInv' /\ StaleInv'
    PROVE  GapInv'
<1>0. TypeInv /\ chatOut \in Seq(Chats) /\ Len(log) \in Nat /\ Here' = Here
  BY GapTypes DEF Inv, TypeInv, Here, Stored
<1>1. CacheInv'
  BY DEF CacheInv
<1>2. ASSUME excused' = {} PROVE Detail'
  <2>1. Detail
    BY <1>2 DEF GapInv
  <2>2. ASSUME NEW x \in Nat, Below(x) PROVE Below(x)'
    <3>1. pending'.before < x /\ client'.status.before < x
      BY <1>0, <2>2, NoneBelow, GapTypes DEF NoRequest
    <3> QED
      BY <2>2, <3>1 DEF Below
  <2>3. /\ \A s : \A k : Has(client, peer, chatOut, s, k) => Has(client', peer, chatOut, s, k)
        /\ QueueOK(client, peer, chatOut, Here) => QueueOK(client', peer, chatOut, Here)
        /\ ClosedOK(client, peer, chatOut) => ClosedOK(client', peer, chatOut)
        /\ \A n : ReachOK(client, peer, chatOut, Here, n) => ReachOK(client', peer, chatOut, Here, n)
    BY <1>0, <2>1, ControlQueue
  <2>4. NumberInv'
    <3>1. PICK n \in Nat : n = Len(log) + 1
      BY <1>0
    <3>2. Below(n)
      BY <2>1, <3>1 DEF Detail, NumberInv
    <3>3. Below(n)'
      BY <2>2, <3>2
    <3> QED
      BY <3>1, <3>3 DEF NumberInv, Below
  <2>5. TodoInv' /\ CancelInv' /\ ItemInv' /\ WholeInv'
    BY <2>1 DEF Detail, TodoInv, CancelInv, Busy, ItemInv, StatusOf, Stored, WholeInv, Whole
  <2>6. FreshInv'
    <3>1. Here \in SUBSET Nat
      BY <1>0, GapTypes DEF Here
    <3> QED
      BY <1>0, <2>1, <2>2, <3>1 DEF Detail, FreshInv
  <2>7. HistoryInv' /\ LiveInv' /\ ClosedInv' /\ QueueInv'
    BY <1>0, <2>1, <2>3 DEF Detail, HistoryInv, LiveInv, ClosedInv, QueueInv
  <2> QED
    BY <2>1, <2>4, <2>5, <2>6, <2>7 DEF Detail
<1>3. excused' = {} => NoGap(client, Stored(client.channel))'
  OBVIOUS
<1> QED
  BY <1>1, <1>2, <1>3 DEF GapInv

LEMMA WriteControlGap == ASSUME Inv, Inv', GapInv, WriteControl PROVE GapInv'
<1> DEFINE f == Head(out)
<1>1. /\ open /\ out # <<>> /\ client' = Apply(client, f) /\ out' = Tail(out)
      /\ pending' \in {pending, NoRequest}
      /\ UNCHANGED <<log, retained, peer, run, handler, requests, chatOut, excused>>
  BY DEF WriteControl, Writes
<1>2. /\ f \in Controls /\ f = out[1] /\ 1 \in 1 .. Len(out) /\ Len(out) \in Nat /\ Len(out') = Len(out) - 1
      /\ \A i \in 1 .. Len(out') : out'[i] = out[i + 1] /\ i + 1 \in 1 .. Len(out)
  <2>1. out \in Seq(Controls)
    BY DEF Inv, TypeInv
  <2>2. /\ f \in Controls /\ Len(out') = Len(out) - 1 /\ Len(out) \in Nat
        /\ \A i \in 1 .. Len(out') : out'[i] = out[i + 1]
    BY <1>1, <2>1, HeadTailProperties, LenProperties
  <2>3. f = out[1] /\ Len(out) # 0
    BY <1>1, <2>1
  <2> HIDE DEF f
  <2> QED
    BY <2>2, <2>3
<1> HIDE DEF f
<1>3. PICK Chan \in [Nat -> Channels] : EpochInv(Chan)
  BY DEF Inv
<1>4. f.kind = "state" => client.epoch < f.epoch /\ f.epoch <= peer.epoch
  BY <1>2, <1>3 DEF EpochInv, StateInv
<1>5. /\ client.epoch = peer.epoch => client.channel = peer.channel
      /\ peer.epoch \in Nat /\ client.epoch \in Nat /\ client.status.generation \in Nat
      /\ f.kind = "state" => f.epoch \in Nat
      /\ f.kind = "status" => f.generation \in Nat
      /\ peer.generation \in Nat
  <2>1. client.epoch = peer.epoch => client.channel = peer.channel
    BY <1>3 DEF EpochInv, PlaceInv
  <2>2. (f.kind = "state" => f.epoch \in Nat) /\ (f.kind = "status" => f.generation \in Nat)
    BY <1>2 DEF Controls, States, Statuses, Replies
  <2>3. peer.epoch \in Nat /\ client.epoch \in Nat /\ client.status.generation \in Nat /\ peer.generation \in Nat
    BY DEF Inv, TypeInv, Spots, Clients, Statuses
  <2> QED
    BY <2>1, <2>2, <2>3
<1>6. f.kind = "state" => client.epoch # peer.epoch
  BY <1>4, <1>5
<1> DEFINE Reply == client' = client /\ f.kind = "reply"
           Dropt == /\ client' = client /\ f.kind = "status"
                    /\ ~(f.epoch = client.epoch /\ f.channel = client.channel
                         /\ f.generation >= client.status.generation)
           Status == /\ f.kind = "status" /\ f.generation >= client.status.generation
                     /\ client'.shown = client.shown /\ client'.limited = client.limited
                     /\ client'.epoch = client.epoch /\ client'.status = f
           State == /\ f.kind = "state" /\ client'.shown = {} /\ client'.limited = FALSE
                    /\ client'.epoch = f.epoch /\ client'.status = NoStatus
<1>7. Reply \/ Dropt \/ Status \/ State
  BY <1>1, <1>2, <1>4, ControlChange
<1>8. NoStatus.before = 0 /\ NoStatus.status = 0 /\ NoStatus.generation = 0
  BY DEF NoStatus
<1>9. ASSUME Detail, f.kind = "status" PROVE f.generation <= peer.generation /\ f.status = 0 /\ f.before = 0
  BY <1>2, <1>9 DEF Detail, GenerationInv
<1>10. Cardinality(client'.shown) <= MaxShown /\ client'.shown \subseteq client.shown
  <2>1. CASE Reply \/ Dropt \/ Status
    BY <2>1 DEF GapInv, CacheInv
  <2>2. CASE State
    BY <2>2, FS_EmptySet, ChatAssumption
  <2> QED
    BY <1>7, <2>1, <2>2
<1>11. ASSUME Detail
       PROVE  /\ client'.status.before \in {client.status.before, 0}
              /\ client'.status = client.status \/ client'.status.status = 0
              /\ \A s : Got(client, peer, s) => Got(client', peer, s)
              /\ GenerationInv' /\ ToldInv' /\ StaleInv'
  <2>1. /\ client'.status.before \in {client.status.before, 0}
        /\ client'.status = client.status \/ client'.status.status = 0
        /\ client'.status.generation <= peer.generation
    BY <1>5, <1>7, <1>8, <1>9, <1>11 DEF Detail, GenerationInv
  <2>2. \A s : Got(client, peer, s) => Got(client', peer, s)
    BY <1>6, <1>7 DEF Got, Dropped
  <2>3. GenerationInv'
    BY <1>1, <1>2, <1>11, <2>1 DEF Detail, GenerationInv
  <2>4. ToldInv'
    <3>1. CASE client.epoch = peer.epoch
      BY <1>1, <1>6, <1>7, <3>1 DEF ToldInv
    <3>2. ASSUME NEW i \in 1 .. Len(out), out[i] = StateOf(peer) PROVE ToldInv'
      <4>1. CASE i = 1
        <5>1. f.kind = "state" /\ f.epoch = peer.epoch
          BY <1>2, <3>2, <4>1 DEF StateOf
        <5> QED
          BY <1>1, <1>7, <5>1 DEF ToldInv
      <4>2. CASE i # 1
        <5>1. i - 1 \in 1 .. Len(out') /\ i - 1 + 1 = i
          BY <1>2, <4>2
        <5>2. out'[i - 1] = StateOf(peer)'
          BY <1>1, <1>2, <3>2, <5>1 DEF StateOf
        <5> QED
          BY <5>1, <5>2 DEF ToldInv
      <4> QED
        BY <4>1, <4>2
    <3> QED
      BY <1>11, <3>1, <3>2 DEF Detail, ToldInv
  <2>5. StaleInv'
    <3>1. CASE client.epoch = peer.epoch /\ client.status.generation = peer.generation
      <4>1. client'.epoch = peer.epoch /\ client'.status.generation = peer.generation
        BY <1>5, <1>6, <1>7, <1>9, <1>11, <3>1
      <4> QED
        BY <1>1, <4>1 DEF StaleInv, Announced
    <3>2. ASSUME NEW i \in 1 .. Len(out), out[i] = StatusOf(peer, 0, EmptyPage),
                 \A j \in i .. Len(out) : out[j].kind # "state"
          PROVE  StaleInv'
      <4>1. CASE i = 1
        <5>1. /\ f.kind = "status" /\ f.epoch = peer.epoch /\ f.channel = peer.channel
              /\ f.generation = peer.generation
          BY <1>2, <3>2, <4>1 DEF StatusOf
        <5>2. client.epoch = peer.epoch
          <6>1. StateOf(peer).kind = "state"
            BY DEF StateOf
          <6> QED
            BY <1>11, <3>2, <4>1, <6>1 DEF Detail, ToldInv
        <5>3. client.status.generation <= peer.generation
          BY <1>11 DEF Detail, GenerationInv
        <5>4. client'.epoch = peer.epoch /\ client'.status.generation = peer.generation
          BY <1>5, <1>7, <5>1, <5>2, <5>3
        <5> QED
          BY <1>1, <5>4 DEF StaleInv, Announced
      <4>2. CASE i # 1
        <5>1. i - 1 \in 1 .. Len(out') /\ i - 1 + 1 = i
          BY <1>2, <4>2
        <5>2. out'[i - 1] = StatusOf(peer, 0, EmptyPage)'
          BY <1>1, <1>2, <3>2, <5>1 DEF StatusOf
        <5>3. ASSUME NEW j \in i - 1 .. Len(out') PROVE out'[j].kind # "state"
          <6>1. j \in 1 .. Len(out') /\ j + 1 \in i .. Len(out)
            BY <1>2, <4>2
          <6> QED
            BY <1>2, <3>2, <6>1
        <5> QED
          BY <5>1, <5>2, <5>3 DEF StaleInv, Announced
      <4> QED
        BY <4>1, <4>2
    <3>3. ASSUME /\ \A i \in 1 .. Len(chatOut) : chatOut[i].kind = "status" => ~Outdated(chatOut[i])
                 /\ Busy => ~Outdated(run.at)
                 /\ client.epoch = peer.epoch => client.status.status # 1
          PROVE  StaleInv'
      <4>1. client'.epoch = peer.epoch => client'.status.status # 1
        BY <1>7, <1>8, <1>9, <1>11, <3>3
      <4> QED
        BY <1>1, <3>3, <4>1 DEF StaleInv, Outdated, Busy
    <3> QED
      BY <1>11, <3>1, <3>2, <3>3 DEF Detail, StaleInv, Announced
  <2> QED
    BY <2>1, <2>2, <2>3, <2>4, <2>5
<1>12. Detail => (OpenAt(client', peer, chatOut, 0) =>
                    OpenAt(client, peer, chatOut, 0) /\ client'.status.before = client.status.before)
  BY <1>6, <1>7, <1>8, <1>11 DEF OpenAt
<1>13. excused = {} => NoGap(client, Stored(client.channel))'
  <2> SUFFICES ASSUME excused = {} PROVE NoGap(client, Stored(client.channel))'
    OBVIOUS
  <2>1. Detail /\ NoGap(client, Stored(client.channel))
    BY <1>1 DEF GapInv
  <2>2. CASE client' = client
    BY <1>1, <2>1, <2>2 DEF NoGap, Dropped, Stored
  <2>3. CASE client'.status.status = 0
    BY <2>3 DEF NoGap
  <2> QED
    BY <1>7, <1>8, <1>9, <2>1, <2>2, <2>3
<1>14. excused # {} \/ Detail
  BY <1>1 DEF GapInv
<1>15. CASE excused = {}
  BY <1>1, <1>10, <1>11, <1>12, <1>13, <1>14, <1>15, ControlGap
<1>16. CASE excused # {}
  BY <1>1, <1>10, <1>16 DEF GapInv, CacheInv
<1> QED
  BY <1>15, <1>16
-----------------------------------------------------------------------------
(* The client's limit drops the oldest message only.                       *)
LEMMA TrimGot ==
    ASSUME NEW c \in Clients, IsFiniteSet(c.shown), Cardinality(c.shown) <= MaxShown, NEW n \in Nat, NEW p,
           NEW d, d = Trim(c, c.shown \cup {n})
    PROVE  /\ Cardinality(d.shown) <= MaxShown /\ d.shown \subseteq c.shown \cup {n}
           /\ d.status = c.status /\ d.epoch = c.epoch
           /\ \A s \in Nat : Got(c, p, s) \/ (s = n /\ c.epoch = p.epoch) => Got(d, p, s)
<1> DEFINE all == c.shown \cup {n}
           low == Min(all)
           kept == all \ {low}
<1>1. /\ c.shown \in SUBSET Nat /\ all \in SUBSET Nat /\ all # {} /\ MaxShown \in Nat
  BY ChatAssumption DEF Clients
<1>2. /\ Cardinality(c.shown) \in Nat /\ IsFiniteSet(all) /\ Cardinality(all) \in Nat
      /\ Cardinality(all) = IF n \in c.shown THEN Cardinality(c.shown) ELSE Cardinality(c.shown) + 1
  BY FS_CardinalityType, FS_AddElement
<1>3. low \in all /\ \A m \in all : low <= m
  BY <1>1, MinFacts
<1>4. CASE Cardinality(all) <= MaxShown
  <2>1. d = [c EXCEPT !.shown = all]
    BY <1>4 DEF Trim
  <2>2. d.shown = all /\ d.status = c.status /\ d.epoch = c.epoch /\ d.limited = c.limited
    <3> HIDE DEF all
    <3> QED
      BY <1>1, <2>1 DEF Clients
  <2>3. Cardinality(c.shown) = MaxShown => n \in c.shown
    BY <1>1, <1>2, <1>4
  <2>4. n \in c.shown => all = c.shown
    OBVIOUS
  <2>5. \A s : Dropped(c, s) => Dropped(d, s)
    BY <2>2, <2>3, <2>4 DEF Dropped
  <2> QED
    BY <1>4, <2>2, <2>5 DEF Got
<1>5. CASE ~(Cardinality(all) <= MaxShown)
  <2>1. d = [c EXCEPT !.shown = kept, !.limited = TRUE]
    BY <1>5 DEF Trim
  <2>2. d.shown = kept /\ d.status = c.status /\ d.epoch = c.epoch /\ d.limited = TRUE
    <3>1. kept \in SUBSET Nat
      BY <1>1
    <3> HIDE DEF kept
    <3> QED
      BY <2>1, <3>1 DEF Clients
  <2>3. n \notin c.shown /\ Cardinality(c.shown) = MaxShown /\ Cardinality(all) = MaxShown + 1
    BY <1>1, <1>2, <1>5
  <2>4. Cardinality(kept) = Cardinality(all) - 1
    <3> HIDE DEF all, low
    <3> QED
      BY <1>2, <1>3, FS_RemoveElement
  <2>5. Cardinality(kept) = MaxShown /\ Cardinality(kept) <= MaxShown
    BY <1>1, <2>3, <2>4
  <2> HIDE DEF low
  <2>6. \A m \in kept : low < m /\ m \in Nat
    BY <1>1, <1>3
  <2>7. Dropped(d, low)
    BY <2>2, <2>5, <2>6 DEF Dropped
  <2>8. ASSUME NEW s \in Nat, \A m \in c.shown : s < m PROVE \A m \in kept : s < m
    <3>1. CASE low = n
      BY <2>3, <2>8, <3>1
    <3>2. CASE low # n
      <4>1. s < low
        BY <1>3, <2>8, <3>2
      <4> QED
        BY <1>1, <1>3, <2>6, <4>1
    <3> QED
      BY <3>1, <3>2
  <2>9. \A s \in Nat : Dropped(c, s) => Dropped(d, s)
    BY <2>2, <2>5, <2>8 DEF Dropped
  <2>10. \A s \in all : s \in d.shown \/ Dropped(d, s)
    BY <2>2, <2>7
  <2>11. d.shown \subseteq all
    BY <2>2
  <2>12. \A s \in Nat : Got(c, p, s) \/ (s = n /\ c.epoch = p.epoch) => Got(d, p, s)
    BY <2>2, <2>9, <2>10 DEF Got
  <2> QED
    BY <2>2, <2>5, <2>11, <2>12
<1> QED
  BY <1>4, <1>5

(* The client takes a page.                                                *)
LEMMA PageGot ==
    ASSUME NEW c \in Clients, IsFiniteSet(c.shown), NEW msgs, IsFiniteSet(msgs),
           Cardinality(c.shown \cup msgs) <= MaxShown, NEW p,
           NEW d, d.shown = c.shown \cup msgs, d.limited = c.limited, d.epoch = c.epoch
    PROVE  \A s : Got(c, p, s) => Got(d, p, s)
<1> DEFINE all == c.shown \cup msgs
<1>1. IsFiniteSet(all) /\ MaxShown \in Nat
  BY FS_Union, ChatAssumption
<1>2. Cardinality(all) \in Nat /\ c.shown \in SUBSET all
  BY <1>1, FS_CardinalityType
<1>3. Cardinality(c.shown) <= Cardinality(all) /\ (Cardinality(all) = Cardinality(c.shown) => all = c.shown)
  <2> HIDE DEF all
  <2> QED
    BY <1>1, <1>2, FS_Subset
<1>4. Cardinality(c.shown) \in Nat
  BY FS_CardinalityType
<1>5. Cardinality(c.shown) = MaxShown => all = c.shown
  BY <1>1, <1>2, <1>3, <1>4
<1>6. \A s : Dropped(c, s) => Dropped(d, s)
  BY <1>5 DEF Dropped
<1> QED
  BY <1>6 DEF Got

(* The client applies the first chat frame.                                *)
LEMMA ChatGap ==
    ASSUME Inv, Inv', GapInv, open, out = <<>>, excused = {}, NEW f, f = Head(chatOut), chatOut # <<>>,
           chatOut' = Tail(chatOut), pending' \in {pending, NoRequest},
           UNCHANGED <<log, retained, peer, out, run, handler, requests, excused>>,
           Cardinality(client'.shown) <= MaxShown, client'.epoch = client.epoch,
           NoGap(client', Here),
           \A s \in Here : Got(client, peer, s) \/ (IsMessage(peer, f) /\ f.seq = s) => Got(client', peer, s),
           \A m \in client'.shown : \/ m \in client.shown
                                    \/ f.kind = "message" /\ m = f.seq
                                    \/ f.kind = "page" /\ m \in Nat /\ m < f.req.before,
           OpenAt(client', peer, Tail(chatOut), 0) =>
               \/ IsReady(peer, f) /\ client'.status.before = f.before
               \/ /\ ~IsStatus(peer, f) /\ OpenAt(client, peer, chatOut, 0)
                  /\ \A s \in Here : client'.status.before <= s =>
                         client.status.before <= s \/ Got(client', peer, s),
           \/ client'.status.before = client.status.before
           \/ f.kind = "status" /\ client'.status.before = f.before
           \/ f.kind = "page" /\ client'.status.before <= f.req.before,
           \/ client'.status.generation = client.status.generation /\ client'.status.status = client.status.status
           \/ client'.status.generation = peer.generation
    PROVE  GapInv'
<1>0. /\ TypeInv /\ TypeInv' /\ chatOut \in Seq(Chats) /\ Len(log) \in Nat
      /\ Here' = Here /\ Here \in SUBSET Nat
  BY GapTypes DEF Inv, TypeInv, Here, Stored
<1>1. /\ chatOut' \in Seq(Chats) /\ Len(chatOut) \in Nat /\ Len(chatOut') = Len(chatOut) - 1
      /\ f = chatOut[1] /\ 1 \in 1 .. Len(chatOut) /\ f \in Chats
      /\ \A i \in 1 .. Len(chatOut') : chatOut'[i] = chatOut[i + 1] /\ i + 1 \in 1 .. Len(chatOut)
  <2>1. /\ Tail(chatOut) \in Seq(Chats) /\ Len(chatOut) \in Nat /\ Len(chatOut) >= 1
        /\ Len(Tail(chatOut)) = Len(chatOut) - 1 /\ Head(chatOut) = chatOut[1] /\ Head(chatOut) \in Chats
        /\ \A j \in 1 .. Len(chatOut) - 1 : Tail(chatOut)[j] = chatOut[j + 1]
    BY <1>0, TailFacts
  <2> QED
    BY <2>1
<1>2. Detail
  BY DEF GapInv
<1>3. /\ \A s \in Here : Has(client, peer, chatOut, s, Len(chatOut) + 1) => Has(client', peer, chatOut', s, Len(chatOut') + 1)
      /\ QueueOK(client, peer, chatOut, Here) => QueueOK(client', peer, chatOut', Here)
      /\ ClosedOK(client, peer, chatOut) => ClosedOK(client', peer, chatOut')
      /\ \A n : ReachOK(client, peer, chatOut, Here, n) => ReachOK(client', peer, chatOut', Here, n)
  BY <1>0, TailQueue
<1>4. ASSUME NEW x \in Nat, Below(x) PROVE Below(x)'
  <2>1. FrameBelow(f, x)
    BY <1>1, <1>4 DEF Below
  <2>2. pending'.before < x /\ client'.status.before < x
    <3>1. f.kind = "page" => f.req.before \in Nat
      BY <1>1 DEF Chats, Items, Messages, Statuses, PageFrames, Requests
    <3>2. client'.status.before \in Nat
      BY <1>0 DEF TypeInv, Clients, Statuses
    <3>3. pending'.before < x
      BY <1>0, <1>4, NoneBelow
    <3>4. client'.status.before < x
      BY <1>4, <2>1, <3>1, <3>2 DEF Below, FrameBelow
    <3> QED
      BY <3>3, <3>4
  <2>3. \A m \in client'.shown : m < x
    <3>1. f.kind = "page" => f.req.before \in Nat
      BY <1>1 DEF Chats, Items, Messages, Statuses, PageFrames, Requests
    <3> QED
      BY <1>4, <2>1, <3>1 DEF Below, FrameBelow
  <2>4. \A i \in 1 .. Len(chatOut') : FrameBelow(chatOut'[i], x)
    BY <1>1, <1>4 DEF Below
  <2> QED
    BY <1>4, <2>2, <2>3, <2>4 DEF Below
<1>5. NumberInv'
  <2>1. PICK n \in Nat : n = Len(log) + 1
    BY <1>0
  <2>2. Below(n)
    BY <1>2, <2>1 DEF Detail, NumberInv
  <2>3. Below(n)'
    BY <1>4, <2>2
  <2> QED
    BY <2>1, <2>3 DEF NumberInv, Below
<1>6. TodoInv' /\ CancelInv' /\ ItemInv'
  BY <1>2 DEF Detail, TodoInv, CancelInv, Busy, ItemInv, StatusOf, Stored
<1>7. Len(out) = 0
  OBVIOUS
<1>8. GenerationInv'
  <2>1. client'.status.generation <= peer'.generation
    BY <1>2 DEF Detail, GenerationInv, Inv, TypeInv, Spots
  <2> QED
    BY <1>1, <1>2, <1>7, <2>1 DEF Detail, GenerationInv
<1>9. client.epoch = peer.epoch
  BY <1>2, <1>7 DEF Detail, ToldInv
<1>10. ToldInv'
  BY <1>9 DEF ToldInv
<1>11. StaleInv'
  <2>1. StaleInv
    BY <1>2 DEF Detail
  <2>2. CASE client'.status.generation = peer.generation
    BY <1>9, <2>2 DEF StaleInv, Announced
  <2>3. CASE /\ client'.status.generation = client.status.generation
             /\ client'.status.status = client.status.status
             /\ client.status.generation # peer.generation
    <3>1. ~Announced
      BY <1>7, <2>3 DEF Announced
    <3> QED
      BY <1>1, <2>1, <2>3, <3>1 DEF StaleInv, Outdated, Busy
  <2> QED
    BY <2>2, <2>3
<1>12. WholeInv'
  BY <1>1, <1>2 DEF Detail, WholeInv, Whole, Stored
<1>13. FreshInv'
  BY <1>0, <1>2, <1>4 DEF Detail, FreshInv
<1>14. HistoryInv' /\ LiveInv' /\ ClosedInv' /\ QueueInv'
  BY <1>0, <1>2, <1>3 DEF Detail, HistoryInv, LiveInv, ClosedInv, QueueInv
<1>15. Detail'
  BY <1>5, <1>6, <1>8, <1>10, <1>11, <1>12, <1>13, <1>14 DEF Detail
<1>16. NoGap(client, Stored(client.channel))'
  <2>1. PICK Chan \in [Nat -> Channels] : EpochInv(Chan)'
    BY DEF Inv
  <2>2. client'.channel = peer'.channel
    BY <1>9, <2>1 DEF EpochInv, PlaceInv
  <2>3. Stored(client.channel)' = Here
    BY <2>2 DEF Here, Stored
  <2> QED
    BY <2>3 DEF NoGap, Dropped
<1> QED
  BY <1>15, <1>16 DEF GapInv, CacheInv
-----------------------------------------------------------------------------
LEMMA ShownFinite == ASSUME Inv PROVE IsFiniteSet(client.shown)
<1>1. \A s \in client.shown : s \in 1 .. Len(log)
  BY ClientFacts DEF Of
<1>2. Len(log) \in Nat
  BY LogFacts DEF Inv
<1>3. IsFiniteSet(1 .. Len(log))
  BY <1>2, FS_Interval
<1> QED
  BY <1>1, <1>3, FS_Subset

(* What the client makes of a page.                                        *)
LEMMA PageChange ==
    ASSUME Inv, NEW f \in PageFrames, Asked(f.page.msgs, f.req)
    PROVE  \/ Apply(client, f) = client
           \/ /\ Apply(client, f).shown = client.shown /\ Apply(client, f).limited = TRUE
              /\ Apply(client, f).epoch = client.epoch /\ Apply(client, f).status = client.status
           \/ /\ f.req.channel = client.channel /\ f.req.before = client.status.before
              /\ Apply(client, f).shown = client.shown \cup f.page.msgs
              /\ Cardinality(client.shown \cup f.page.msgs) <= MaxShown
              /\ Apply(client, f).limited = client.limited /\ Apply(client, f).epoch = client.epoch
              /\ Apply(client, f).status.before = f.page.next
              /\ Apply(client, f).status.generation = client.status.generation
              /\ Apply(client, f).status.status = client.status.status
<1>1. /\ f.kind = "page" /\ Apply(client, f) = ApplyPage(client, f)
      /\ f.page \in Pages /\ f.page.msgs \in SUBSET Nat /\ f.page.next \in Nat
      /\ f.page.more \in BOOLEAN /\ f.req.before \in Nat
  BY DEF Apply, PageFrames, Pages, Requests
<1> DEFINE Stale == \/ f.req # pending \/ f.req.channel # client.channel \/ f.req.epoch # client.epoch
                    \/ f.req.generation # client.status.generation \/ f.req.before # client.status.before
<1>2. CASE Stale
  BY <1>1, <1>2 DEF ApplyPage
<1>3. CASE ~Stale
  <2> DEFINE shown == client.shown \cup f.page.msgs
             status == [client.status EXCEPT !.before = f.page.next, !.more = f.page.more]
  <2>1. f.req.channel = client.channel /\ f.req.before = client.status.before
    BY <1>3
  <2>2. ~ \E s \in f.page.msgs : log[s].channel # client.channel \/ s >= f.req.before
    <3>1. \A s \in f.page.msgs : Of(s, f.req.channel) /\ ~(s >= f.req.before)
      BY <1>1 DEF Asked
    <3> QED
      BY <2>1, <3>1 DEF Of
  <2>3. shown \in SUBSET Nat
    BY <1>1, ClientFacts
  <2>4. /\ status \in Statuses /\ status.before = f.page.next
        /\ status.generation = client.status.generation /\ status.status = client.status.status
    BY <1>1, ClientFacts DEF Statuses
  <2>5. CASE Cardinality(shown) > MaxShown
    <3>1. Apply(client, f) = [client EXCEPT !.limited = TRUE]
      BY <1>1, <1>3, <2>2, <2>5 DEF ApplyPage
    <3> QED
      BY <3>1, ClientFacts DEF Clients
  <2>6. CASE ~(Cardinality(shown) > MaxShown)
    <3>1. Apply(client, f) = [client EXCEPT !.shown = shown, !.status = status]
      BY <1>1, <1>3, <2>2, <2>6 DEF ApplyPage
    <3>2. Cardinality(shown) <= MaxShown
      <4>1. \A s \in f.page.msgs : s \in 1 .. Len(log)
        BY DEF Asked, Of
      <4>2. IsFiniteSet(1 .. Len(log))
        BY LogFacts, FS_Interval DEF Inv
      <4>3. IsFiniteSet(f.page.msgs)
        BY <4>1, <4>2, FS_Subset
      <4>4. Cardinality(shown) \in Nat
        BY <4>3, ShownFinite, FS_Union, FS_CardinalityType
      <4> HIDE DEF shown
      <4> QED
        BY <2>6, <4>4, ChatAssumption
    <3> HIDE DEF shown, status
    <3>3. /\ Apply(client, f).shown = shown /\ Apply(client, f).limited = client.limited
          /\ Apply(client, f).epoch = client.epoch /\ Apply(client, f).status = status
      BY <2>3, <2>4, <3>1, ClientFacts DEF Clients
    <3> QED
      BY <2>1, <2>4, <3>2, <3>3 DEF shown
  <2> QED
    BY <2>5, <2>6
<1> QED
  BY <1>2, <1>3

LEMMA WriteChatGap == ASSUME Inv, Inv', GapInv, WriteChat PROVE GapInv'
<1> DEFINE f == Head(chatOut)
<1>1. /\ open /\ chatOut # <<>> /\ client' = Apply(client, f) /\ chatOut' = Tail(chatOut)
      /\ pending' \in {pending, NoRequest}
      /\ UNCHANGED <<log, retained, peer, run, handler, requests, out>>
      /\ excused' = IF out = <<>> THEN excused ELSE excused \cup {"overtaken"}
  BY DEF WriteChat, Writes
<1>2. /\ f \in Chats /\ f = chatOut[1] /\ 1 \in 1 .. Len(chatOut) /\ chatOut \in Seq(Chats)
  <2>1. chatOut \in Seq(Chats)
    BY DEF Inv, TypeInv
  <2> QED
    BY <1>1, <2>1, TailFacts
<1> HIDE DEF f
<1>3. PICK Chan \in [Nat -> Channels] : EpochInv(Chan)
  BY DEF Inv
<1>4. /\ f.kind = "message" /\ f.epoch = client.epoch => Of(f.seq, client.channel)
      /\ f.kind = "page" => Asked(f.page.msgs, f.req)
  BY <1>2, <1>3 DEF EpochInv, PlaceInv, FrameInv, RightEpoch, Inv, PageInv
<1>5. client \in Clients /\ IsFiniteSet(client.shown) /\ Cardinality(client.shown) <= MaxShown
  BY ClientFacts, ShownFinite DEF GapInv, CacheInv
<1>6. f \in Messages => f.seq \in Nat /\ f.kind = "message" /\ f.epoch \in Nat
  BY DEF Messages
<1>7. ASSUME f \in Messages
      PROVE  \/ client' = client /\ f.epoch # client.epoch
             \/ f.epoch = client.epoch /\ client' = Trim(client, client.shown \cup {f.seq})
  <2>1. client' = ApplyMessage(client, f)
    BY <1>1, <1>6, <1>7 DEF Apply
  <2>2. f.epoch = client.epoch => log[f.seq].channel = client.channel
    BY <1>4, <1>6, <1>7 DEF Of
  <2> QED
    BY <2>1, <2>2 DEF ApplyMessage
<1>8. ASSUME f \in Statuses
      PROVE  \/ /\ client' = client
                /\ ~(f.epoch = client.epoch /\ f.channel = client.channel
                     /\ f.generation >= client.status.generation)
             \/ /\ f.generation >= client.status.generation /\ f.epoch = client.epoch
                /\ client'.shown = client.shown /\ client'.limited = client.limited
                /\ client'.epoch = client.epoch /\ client'.status = f
  <2>1. client' = ApplyStatus(client, f)
    BY <1>1, <1>8 DEF Apply, Statuses
  <2>2. CASE f.epoch = client.epoch /\ f.channel = client.channel /\ f.generation >= client.status.generation
    <3>1. client' = [client EXCEPT !.status = f]
      BY <2>1, <2>2 DEF ApplyStatus
    <3> QED
      BY <1>5, <2>2, <3>1 DEF Clients
  <2>3. CASE ~(f.epoch = client.epoch /\ f.channel = client.channel /\ f.generation >= client.status.generation)
    BY <2>1, <2>3 DEF ApplyStatus
  <2> QED
    BY <2>2, <2>3
<1>9. f \in PageFrames => f.kind = "page" /\ Asked(f.page.msgs, f.req)
  BY <1>4 DEF PageFrames
<1>10. CacheInv'
  <2>1. CASE f \in Messages
    BY <1>5, <1>6, <1>7, <2>1, TrimGot DEF CacheInv
  <2>2. CASE f \in Statuses
    BY <1>5, <1>8, <2>2 DEF CacheInv
  <2>3. CASE f \in PageFrames
    BY <1>1, <1>5, <1>9, <2>3, PageChange DEF CacheInv
  <2> QED
    BY <1>2, <2>1, <2>2, <2>3 DEF Chats, Items
<1>11. CASE excused' # {}
  BY <1>10, <1>11 DEF GapInv
<1>12. CASE excused' = {}
  <2>1. out = <<>> /\ excused = {} /\ excused' = excused
    BY <1>1, <1>12
  <2>2. Detail /\ Len(out) = 0
    BY <1>1, <2>1 DEF GapInv
  <2>3. client.epoch = peer.epoch
    BY <2>2 DEF Detail, ToldInv
  <2>4. client.channel = peer.channel
    BY <1>3, <2>3 DEF EpochInv, PlaceInv
  <2>5. Here \in SUBSET Nat /\ Stored(client.channel) = Here /\ NoGap(client, Here)
    BY <2>1, <2>4, GapTypes DEF Here, GapInv, Inv
  <2>6. Len(chatOut) \in Nat /\ client.shown \in SUBSET Nat /\ client.status.before \in Nat
    BY GapTypes DEF Inv
  <2>s. ASSUME client' = client, ~IsStatus(peer, f), ~IsMessage(peer, f) PROVE GapInv'
    <3>1. Cardinality(client'.shown) <= MaxShown
      BY <1>5, <2>s
    <3>2. OpenAt(client', peer, Tail(chatOut), 0) =>
               /\ ~IsStatus(peer, f) /\ OpenAt(client, peer, chatOut, 0)
               /\ \A s \in Here : client'.status.before <= s =>
                      client.status.before <= s \/ Got(client', peer, s)
      BY <2>s DEF OpenAt
    <3> QED
      BY <1>1, <2>1, <2>5, <2>s, <3>1, <3>2, ChatGap DEF f
  <2>m. CASE f \in Messages
    <3>1. ~IsStatus(peer, f) /\ f.kind = "message"
      BY <1>6, <2>m DEF IsStatus
    <3>2. CASE f.epoch # client.epoch
      BY <1>7, <2>3, <2>m, <2>s, <3>1, <3>2 DEF IsMessage
    <3>3. CASE f.epoch = client.epoch
      <4>1. client' = Trim(client, client.shown \cup {f.seq}) /\ IsMessage(peer, f)
        BY <1>7, <2>3, <2>m, <3>1, <3>3 DEF IsMessage
      <4>2. /\ Cardinality(client'.shown) <= MaxShown /\ client'.shown \subseteq client.shown \cup {f.seq}
            /\ client'.status = client.status /\ client'.epoch = client.epoch
            /\ \A s \in Nat : Got(client, peer, s) \/ (s = f.seq /\ client.epoch = peer.epoch)
                                 => Got(client', peer, s)
        BY <1>5, <1>6, <2>m, <4>1, TrimGot
      <4>3. \A s \in Here : Got(client, peer, s) \/ (IsMessage(peer, f) /\ f.seq = s) => Got(client', peer, s)
        BY <2>3, <2>5, <4>2
      <4>4. NoGap(client', Here)
        <5> SUFFICES ASSUME client.status.status = 1, NEW s \in Here,
                            NEW m \in client'.shown \cup {client.status.before},
                            client.status.before <= s, s <= m
                     PROVE  Got(client', peer, s)
          BY <4>2 DEF NoGap, Got
        <5>1. CASE m \in client.shown \cup {client.status.before}
          <6>1. Got(client, peer, s)
            BY <2>3, <2>5, <5>1 DEF NoGap, Got
          <6> QED
            BY <4>3, <6>1
        <5>2. CASE m = f.seq /\ s = f.seq
          BY <4>1, <4>3, <5>2
        <5>3. CASE m = f.seq /\ s # f.seq
          <6>1. s < f.seq
            BY <1>6, <2>5, <2>m, <5>3
          <6>2. client.status.generation = peer.generation
            <7>1. ~Announced \/ client.status.generation = peer.generation
              BY <2>2 DEF Announced
            <7> QED
              BY <2>2, <2>3, <7>1 DEF Detail, StaleInv
          <6>3. OpenFor(client, peer, chatOut, 0, 1)
            BY <2>3, <6>2 DEF OpenFor, OpenAt
          <6>4. UpTo(client, peer, chatOut, Here, 0, 1, f.seq)
            <7>1. IsMessage(peer, chatOut[1]) /\ 0 \in 0 .. 1 - 1
              BY <1>2, <4>1
            <7> QED
              BY <1>2, <2>2, <6>3, <7>1 DEF Detail, QueueInv, QueueOK, LiveOK
          <6>5. Has(client, peer, chatOut, s, 1)
            BY <6>1, <6>4 DEF UpTo, CursorAt
          <6>6. Got(client, peer, s)
            BY <6>5 DEF Has
          <6> QED
            BY <4>3, <6>6
        <5> QED
          BY <4>2, <5>1, <5>2, <5>3
      <4>5. OpenAt(client', peer, Tail(chatOut), 0) =>
               /\ ~IsStatus(peer, f) /\ OpenAt(client, peer, chatOut, 0)
               /\ \A s \in Here : client'.status.before <= s =>
                      client.status.before <= s \/ Got(client', peer, s)
        BY <3>1, <4>2 DEF OpenAt
      <4>6. \A m \in client'.shown : m \in client.shown \/ (f.kind = "message" /\ m = f.seq)
        BY <3>1, <4>2
      <4> QED
        BY <1>1, <2>1, <4>2, <4>3, <4>4, <4>5, <4>6, ChatGap DEF f
    <3> QED
      BY <3>2, <3>3
  <2>t. CASE f \in Statuses
    <3>1. f.kind = "status" /\ f.generation \in Nat /\ f.epoch \in Nat /\ ~IsMessage(peer, f)
      BY <2>t DEF Statuses, IsMessage
    <3>2. /\ f.epoch <= peer.epoch /\ f.generation <= peer.generation
          /\ f.epoch = peer.epoch => f.channel = peer.channel
          /\ client.status.generation <= peer.generation
      BY <1>2, <2>2, <3>1 DEF Detail, GenerationInv
    <3>3. peer.generation \in Nat /\ client.status.generation \in Nat
      BY DEF Inv, TypeInv, Spots, Clients, Statuses
    <3>4. CASE ~IsStatus(peer, f)
      <4>1. client' = client
        <5>1. CASE f.epoch # peer.epoch
          BY <1>8, <2>3, <2>t, <5>1
        <5>2. CASE f.epoch = peer.epoch
          <6>1. f.generation < peer.generation
            BY <3>1, <3>2, <3>3, <3>4, <5>2 DEF IsStatus
          <6>2. Announced
            BY <1>2, <2>2, <3>1, <5>2, <6>1 DEF Detail, StaleInv, Outdated
          <6>3. client.status.generation = peer.generation
            BY <2>2, <6>2 DEF Announced
          <6> QED
            BY <1>8, <2>t, <3>1, <3>3, <6>1, <6>3
        <5> QED
          BY <5>1, <5>2
      <4> QED
        BY <2>s, <3>1, <3>4, <4>1
    <3>5. CASE IsStatus(peer, f)
      <4>1. f.epoch = peer.epoch /\ f.generation = peer.generation /\ f.channel = client.channel
        BY <2>4, <3>2, <3>5 DEF IsStatus
      <4>2. /\ client'.shown = client.shown /\ client'.limited = client.limited
            /\ client'.epoch = client.epoch /\ client'.status = f
        BY <1>8, <2>3, <2>t, <3>2, <3>3, <4>1
      <4>3. Cardinality(client'.shown) <= MaxShown
        BY <1>5, <4>2
      <4>4. \A s : Got(client', peer, s) <=> Got(client, peer, s)
        BY <4>2 DEF Got, Dropped
      <4>5. NoGap(client', Here)
        <5> SUFFICES ASSUME f.status = 1, NEW s \in Here, NEW m \in client.shown \cup {f.before},
                            f.before <= s, s <= m
                     PROVE  Got(client', peer, s)
          BY <4>2 DEF NoGap, Got
        <5>1. IsReady(peer, chatOut[1]) /\ f = chatOut[1]
          BY <1>2, <3>5 DEF IsReady
        <5>2. Has(client, peer, chatOut, s, 1) \/ (f.before < s /\ Later(client, chatOut, s, 1))
          BY <1>2, <2>2, <5>1 DEF Detail, QueueInv, QueueOK, ReadyOK
        <5>3. CASE Has(client, peer, chatOut, s, 1)
          BY <4>4, <5>3 DEF Has
        <5>4. CASE f.before < s /\ Later(client, chatOut, s, 1)
          <6>1. m < s
            BY <5>4 DEF Later
          <6>2. m \in Nat /\ s \in Nat
            BY <2>5, <2>6, <2>t DEF Statuses
          <6> QED
            BY <6>1, <6>2
        <5> QED
          BY <5>2, <5>3, <5>4
      <4>6. OpenAt(client', peer, Tail(chatOut), 0) => IsReady(peer, f) /\ client'.status.before = f.before
        BY <3>5, <4>2 DEF OpenAt, IsReady
      <4>7. client'.status.before = f.before /\ client'.status.generation = peer.generation
        BY <4>1, <4>2
      <4> QED
        BY <1>1, <2>1, <3>1, <4>2, <4>3, <4>4, <4>5, <4>6, <4>7, ChatGap DEF f
    <3> QED
      BY <3>4, <3>5
  <2>p. CASE f \in PageFrames
    <3>1. f.kind = "page" /\ Asked(f.page.msgs, f.req) /\ ~IsStatus(peer, f) /\ ~IsMessage(peer, f)
      BY <1>9, <2>p DEF IsStatus, IsMessage
    <3>2. CASE client' = client
      BY <2>s, <3>1, <3>2
    <3>3. CASE /\ client'.shown = client.shown /\ client'.limited = TRUE
               /\ client'.epoch = client.epoch /\ client'.status = client.status
      <4>1. Cardinality(client'.shown) <= MaxShown
        BY <1>5, <3>3
      <4>2. \A s : Got(client, peer, s) => Got(client', peer, s)
        BY <3>3 DEF Got, Dropped
      <4>3. NoGap(client', Here)
        BY <2>5, <3>3 DEF NoGap, Dropped
      <4>4. OpenAt(client', peer, Tail(chatOut), 0) =>
                 /\ ~IsStatus(peer, f) /\ OpenAt(client, peer, chatOut, 0)
                 /\ \A s \in Here : client'.status.before <= s =>
                        client.status.before <= s \/ Got(client', peer, s)
        BY <3>1, <3>3 DEF OpenAt
      <4> QED
        BY <1>1, <2>1, <3>1, <3>3, <4>1, <4>2, <4>3, <4>4, ChatGap DEF f
    <3>4. CASE /\ f.req.channel = client.channel /\ f.req.before = client.status.before
               /\ client'.shown = client.shown \cup f.page.msgs
               /\ Cardinality(client.shown \cup f.page.msgs) <= MaxShown
               /\ client'.limited = client.limited /\ client'.epoch = client.epoch
               /\ client'.status.before = f.page.next
               /\ client'.status.generation = client.status.generation
               /\ client'.status.status = client.status.status
      <4>1. IsFiniteSet(f.page.msgs)
        <5>1. \A s \in f.page.msgs : s \in 1 .. Len(log)
          BY <3>1 DEF Asked, Of
        <5>2. IsFiniteSet(1 .. Len(log))
          BY LogFacts, FS_Interval DEF Inv
        <5> QED
          BY <5>1, <5>2, FS_Subset
      <4>2. \A s : Got(client, peer, s) => Got(client', peer, s)
        BY <1>5, <3>4, <4>1, PageGot
      <4>3. Cardinality(client'.shown) <= MaxShown
        BY <3>4
      <4>4. /\ f.page.next <= client.status.before /\ f.page.next \in Nat /\ f.page.msgs \in SUBSET Nat
            /\ \A s \in Here : f.page.next <= s /\ s < client.status.before => s \in f.page.msgs
            /\ \A s \in f.page.msgs : s < client.status.before
        <5>1. Whole(f.page, f.req)
          BY <1>2, <2>2, <3>1 DEF Detail, WholeInv
        <5>2. f.page.next \in Nat /\ f.page.msgs \in SUBSET Nat
          BY <2>p DEF PageFrames, Pages
        <5> QED
          BY <2>5, <3>1, <3>4, <5>1, <5>2 DEF Whole, Asked
      <4>5. \A s \in f.page.msgs : s \in client'.shown
        BY <3>4
      <4>6. NoGap(client', Here)
        <5> SUFFICES ASSUME client.status.status = 1, NEW s \in Here,
                            NEW m \in client.shown \cup f.page.msgs \cup {f.page.next},
                            f.page.next <= s, s <= m
                     PROVE  Got(client', peer, s)
          BY <3>4 DEF NoGap, Got
        <5>1. CASE s < client.status.before
          BY <2>3, <3>4, <4>4, <4>5, <5>1 DEF Got
        <5>2. CASE ~(s < client.status.before)
          <6>0. s \in Nat
            BY <2>5
          <6>1. CASE m \in client.shown
            <7>1. client.status.before <= s
              BY <2>6, <5>2, <6>0
            <7>2. Got(client, peer, s)
              BY <2>3, <2>5, <6>1, <7>1 DEF NoGap, Got
            <7> QED
              BY <4>2, <7>2
          <6>2. CASE m \notin client.shown
            <7>1. m \in Nat /\ m <= client.status.before
              BY <2>6, <4>4, <6>2
            <7>2. s = client.status.before
              BY <2>6, <5>2, <6>0, <7>1
            <7>3. Got(client, peer, s)
              BY <2>3, <2>5, <2>6, <6>0, <7>2 DEF NoGap, Got
            <7> QED
              BY <4>2, <7>3
          <6> QED
            BY <6>1, <6>2
        <5> QED
          BY <5>1, <5>2
      <4>7. OpenAt(client', peer, Tail(chatOut), 0) =>
                 /\ ~IsStatus(peer, f) /\ OpenAt(client, peer, chatOut, 0)
                 /\ \A s \in Here : client'.status.before <= s =>
                        client.status.before <= s \/ Got(client', peer, s)
        <5>1. OpenAt(client', peer, Tail(chatOut), 0) => OpenAt(client, peer, chatOut, 0)
          BY <3>4 DEF OpenAt
        <5>2. ASSUME NEW s \in Here, f.page.next <= s, ~(client.status.before <= s)
              PROVE  Got(client', peer, s)
          <6>1. s < client.status.before
            BY <2>5, <2>6, <5>2
          <6> QED
            BY <2>3, <3>4, <4>4, <4>5, <5>2, <6>1 DEF Got
        <5> QED
          BY <3>1, <3>4, <5>1, <5>2
      <4>8. \A m \in client'.shown : m \in client.shown \/ (m \in Nat /\ m < f.req.before)
        BY <3>4, <4>4
      <4>9. client'.status.before <= f.req.before
        BY <3>4, <4>4
      <4> QED
        BY <1>1, <2>1, <3>1, <3>4, <4>2, <4>3, <4>6, <4>7, <4>8, <4>9, ChatGap DEF f
    <3> QED
      BY <1>1, <2>p, <3>1, <3>2, <3>3, <3>4, PageChange
  <2> QED
    BY <1>2, <2>m, <2>t, <2>p DEF Chats, Items
<1> QED
  BY <1>11, <1>12
-----------------------------------------------------------------------------
LEMMA InitGap == Init => GapInv
<1> SUFFICES ASSUME Init PROVE GapInv
  OBVIOUS
<1>1. /\ log = <<>> /\ retained = {} /\ peer = NewPeer /\ out = <<StatusOf(NewPeer, 0, EmptyPage)>>
      /\ chatOut = <<>> /\ run = IdleRun /\ handler = IdleHandler /\ requests = <<>>
      /\ client = NewClient /\ pending = NoRequest
  BY DEF Init
<1>2. Len(log) = 0 /\ Len(chatOut) = 0 /\ Len(requests) = 0
  BY <1>1
<1>3. /\ client.shown = {} /\ client.epoch = 1 /\ client.status = NoStatus /\ client.limited = FALSE
      /\ NoStatus.status = 0 /\ NoStatus.before = 0 /\ NoStatus.generation = 0
  BY <1>1 DEF NewClient, NoStatus
<1>4. /\ run.pc = "idle" /\ ~run.canceled /\ run.page.next = 0 /\ run.todo = {} /\ run.position = 0
      /\ handler.pc = "idle" /\ handler.req.before = 0 /\ pending.before = 0
  BY <1>1 DEF IdleRun, EmptyPage, IdleHandler, NoRequest
<1>5. peer.epoch = 1 /\ peer.generation = 1
  BY <1>1 DEF NewPeer
<1> DEFINE st == StatusOf(peer, 0, EmptyPage)
<1>6. st.kind = "status" /\ st.generation = 1 /\ st.status = 0 /\ st.before = 0
  BY <1>5 DEF StatusOf, EmptyPage
<1>7. out = <<st>>
  BY <1>1
<1> HIDE DEF st
<1>8. Len(out) = 1 /\ out[1] = st
  BY <1>7
<1>9. CacheInv /\ NoGap(client, Stored(client.channel))
  BY <1>3, FS_EmptySet, ChatAssumption DEF CacheInv, NoGap
<1>10. NumberInv /\ TodoInv /\ CancelInv /\ ItemInv
  BY <1>2, <1>3, <1>4 DEF NumberInv, Below, TodoInv, CancelInv, Busy, ItemInv
<1>11. GenerationInv /\ ToldInv
  BY <1>2, <1>3, <1>5, <1>6, <1>8 DEF GenerationInv, ToldInv
<1>12. StaleInv
  <2>1. 1 \in 1 .. Len(out) /\ \A j \in 1 .. Len(out) : j = 1
    BY <1>8
  <2> QED
    BY <1>6, <1>8, <2>1 DEF StaleInv, Announced, st
<1>13. WholeInv /\ FreshInv /\ HistoryInv /\ LiveInv
  BY <1>2, <1>4 DEF WholeInv, FreshInv, HistoryInv, LiveInv
<1>14. ClosedInv
  <2>1. \A i \in 0 .. Len(chatOut) : i = 0
    BY <1>2
  <2> QED
    BY <1>3, <2>1 DEF ClosedInv, ClosedOK, OpenFor, OpenAt
<1>15. QueueInv
  BY <1>2 DEF QueueInv, QueueOK, LiveOK, ReadyOK
<1> QED
  BY <1>9, <1>10, <1>11, <1>12, <1>13, <1>14, <1>15 DEF GapInv, Detail

LEMMA NextGap == Inv /\ Inv' /\ GapInv /\ [Next]_vars => GapInv'
<1> SUFFICES ASSUME Inv, Inv', GapInv, [Next]_vars PROVE GapInv'
  OBVIOUS
<1>1. CASE UNCHANGED vars
  <2>1. UNCHANGED <<log, retained, open, peer, out, chatOut, run, handler, requests, client, pending, excused>>
    BY <1>1 DEF vars
  <2>2. CASE open
    <3>1. \A x \in Nat : Below(x) =>
              /\ pending'.before < x /\ handler'.req.before < x
              /\ \A i \in 1 .. Len(requests') : requests'[i].before < x
      BY <2>1, NoneBelow DEF Inv
    <3> QED
      BY <2>1, <2>2, <3>1, StillStep
  <2>3. CASE ~open
    BY <2>1, <2>3 DEF GapInv, CacheInv, NoGap, Dropped, Stored
  <2> QED
    BY <2>2, <2>3
<1>2. ASSUME NEW c \in Channels, Publish(c) \/ Evict(c) PROVE GapInv'
  BY <1>2, PublishGap, EvictGap
<1>3. CASE HandleMove \/ HandleAccount \/ HandleSync \/ \E c \in Channels : MovedByOther(c)
  BY <1>3, MovesGap
<1>4. CASE HandleChat \/ HandleHistory \/ Refuse
  BY <1>4, HandleGap, RefuseGap
<1>5. CASE HandlerStep
  BY <1>5, HistoryReadGap, HistoryPushGap, HistoryFailsGap, ChatPublishedGap DEF HandlerStep
<1>6. CASE ChatLoopStep \/ ChatStall \/ StorageFails
  <2>1. CASE ChatWake \/ ChatBegin
    BY <2>1, WakeGap
  <2>2. CASE ReadBoundary \/ ReadPage
    BY <2>2, BoundaryGap, PageGap
  <2>3. CASE EmitHistory \/ EmitLive \/ Ready \/ ReportFailure
    BY <2>3, EmitGap
  <2>4. CASE ChatPush
    BY <2>4, ChatPushGap
  <2>5. CASE ChatStall \/ StorageFails \/ ChatCanceled
    BY <2>5, FailedGap
  <2> QED
    BY <1>6, <2>1, <2>2, <2>3, <2>4, <2>5 DEF ChatLoopStep
<1>7. CASE WriteLoopStep \/ ConnectionEnds \/ ClientTimeout
  BY <1>7, WriteControlGap, WriteChatGap, IdleGap, ConnectionEndsGap DEF WriteLoopStep
<1>8. CASE \/ \E kind \in {"move", "account", "sync", "chat"}, c \in Channels : ClientCommand(kind, c)
           \/ ClientHistory
  BY <1>8, CommandGap
<1> QED
  BY <1>1, <1>2, <1>3, <1>4, <1>5, <1>6, <1>7, <1>8 DEF Next

LEMMA GapInvHolds == Spec => []GapInv
<1>1. Inv /\ GapInv /\ [Next]_vars => GapInv'
  BY NextInv, NextGap
<1> QED
  BY <1>1, InitGap, InvHolds, PTL DEF Spec

(* What the cache limit has dropped is older than all that is shown.       *)
LEMMA NoGapSuffices == ASSUME Inv, NoGap(client, Stored(client.channel)) PROVE GapFree
<1> SUFFICES ASSUME client.status.status = 1, NEW s \in Due,
                    s <= Max(client.shown \cup {client.status.before})
             PROVE  s \in client.shown
  BY DEF GapFree
<1> DEFINE all == client.shown \cup {client.status.before}
<1>1. /\ s \in Stored(client.channel) /\ client.status.before <= s /\ client.status.before \in Nat
      /\ client.limited => s >= Min(client.shown)
      /\ s \in Nat
  <2>1. /\ s \in Stored(client.channel) /\ s >= client.status.before
        /\ client.limited => s >= Min(client.shown)
    BY DEF Due
  <2>2. client.status.before \in Nat /\ s \in Nat
    BY <2>1, GapTypes DEF Inv
  <2> QED
    BY <2>1, <2>2
<1>2. Max(all) \in all
  <2>1. PICK n \in Nat : \A m \in all : m <= n
    <3>1. Len(log) \in Nat /\ \A m \in client.shown : m \in 1 .. Len(log)
      BY ClientFacts, LogFacts DEF Of, Inv
    <3>2. Len(log) + client.status.before \in Nat
      BY <1>1, <3>1
    <3>3. \A m \in all : m <= Len(log) + client.status.before
      BY <1>1, <3>1
    <3> QED
      BY <3>2, <3>3
  <2>2. all \in SUBSET Nat /\ all # {}
    BY <1>1, ClientFacts
  <2> DEFINE T == {t \in Nat : n - t \in all}
  <2>3. \A y \in all : y \in Nat /\ n - y \in T /\ n - (n - y) = y
    BY <2>1, <2>2
  <2>4. PICK t \in T : \A u \in T : t <= u
    <3>1. T \in SUBSET Nat /\ T # {}
      BY <2>2, <2>3
    <3> HIDE DEF T
    <3> QED
      BY <3>1, LeastExists
  <2>5. n - t \in all /\ \A y \in all : n - t >= y
    BY <2>1, <2>3, <2>4
  <2> HIDE DEF all
  <2> QED
    BY <2>5 DEF Max
<1>3. s \in client.shown \/ Dropped(client, s)
  BY <1>1, <1>2 DEF NoGap
<1>4. ASSUME Dropped(client, s) PROVE FALSE
  <2>1. client.limited /\ Cardinality(client.shown) = MaxShown /\ \A m \in client.shown : s < m
    BY <1>4 DEF Dropped
  <2>2. client.shown # {}
    BY <2>1, FS_EmptySet, ChatAssumption
  <2>3. Min(client.shown) \in client.shown /\ Min(client.shown) \in Nat
    BY <2>2, ClientFacts, MinFacts
  <2> QED
    BY <1>1, <2>1, <2>3
<1> QED
  BY <1>3, <1>4

(* readPage and deliver: whatever is published, evicted, moved, reloaded   *)
(* or trimmed while a page is read and the consumer starts, and however    *)
(* many runs are canceled with frames still queued, a client that shows a  *)
(* ready chat has every stored message between its history cursor and the  *)
(* newest it has, as long as no chat frame overtook a control frame and no *)
(* report of a failure was dropped.                                        *)
THEOREM HistoryMeetsLive == Spec => []GapFreeUnlessExcused
<1>1. Inv /\ GapInv => GapFreeUnlessExcused
  BY NoGapSuffices DEF GapInv, GapFreeUnlessExcused
<1> QED
  BY <1>1, InvHolds, GapInvHolds, PTL
=============================================================================

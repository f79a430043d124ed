------------------------ MODULE ServerResourcesProofs ------------------------
(***************************************************************************)
(* Proofs about the server's resources, its members and its connection     *)
(* password, for any finite set of members, any limits, any number of      *)
(* attempts and any number of requests, restarts and foreign writes.       *)
(***************************************************************************)
EXTENDS ServerResources, FiniteSetTheorems, TLAPS

Records == [channels : SUBSET (Nat \ {0}), private : SUBSET {2}, next : Nat \ {0},
            admins : SUBSET Members, max : Nat]

Ats == {"idle", "read", "write", "done", "failed"}

Kinds == {"create", "private", "delete", "limit", "role"}

Args == {0, 2} \cup Limits \cup Members

Ops == [kind : Kinds \cup {"none"}, arg : Args]

(* What a kind of operation takes, and which writer does it.               *)
OpOK(w, op) ==
    /\ op.kind = "role" => op.arg \in Members
    /\ op.kind \in {"private", "delete"} => op.arg = 2
    /\ op.kind = "limit" => op.arg \in Limits
    /\ op.kind \in Kinds
    /\ w = "roles" <=> op.kind = "role"

(* The bucket is never ahead of itself: neither the cache, nor the         *)
(* projection, nor the informer is past the last revision.                 *)
StoreType ==
    /\ log \in Seq(Records)
    /\ \A r \in 1 .. Latest : Default \in log[r].channels
    /\ cache \in 1 .. Latest
    /\ view \in 0 .. cache /\ watched \in 0 .. cache /\ informer \in 0 .. cache
    /\ informer # 0 => watched <= informer
    /\ lost \in SUBSET (2 .. Latest)

(* A member's temporary channel is the one it is in.                       *)
MemberType ==
    /\ where \in [Members -> Nat] /\ temporary \in [Members -> Nat]
    /\ \A m \in Members : temporary[m] \in {0, where[m]}
    /\ auth \in [Members -> Nat]

WriterStates == [at : Ats, op : Ops, base : Nat, tries : Nat]

(* A writer about to write has read the revision it is based on.           *)
WriterType ==
    /\ writer \in [Writers -> WriterStates]
    /\ \A w \in Writers :
          /\ writer[w].at # "idle" => OpOK(w, writer[w].op)
          /\ writer[w].at = "write" => writer[w].base <= cache

(* The console and the informer hold channelMu while they work.            *)
LockInv ==
    /\ writer["console"].at # "idle" => channelMu = "console"
    /\ informer # 0 => channelMu = "informer"

(* The published password is the stored one or unknown, except while it    *)
(* is being changed; what is about to be published is the stored one or    *)
(* unknown too.                                                            *)
PasswordInv ==
    /\ stored \in Nat \ {0} /\ published \in Nat
    /\ setter \in [at : {"idle", "replace", "readback", "publish"}, next : Nat]
    /\ setter.at = "idle" => published \in {0, stored}
    /\ setter.at = "replace" => published = stored
    /\ setter.at = "publish" => setter.next \in {0, stored}

Lowered == \E rev \in lost : log[rev].max < log[rev - 1].max

(* Past the cache the limit is lowered only by a write no writer here got  *)
(* an answer for, and the members are within the cached one.               *)
WithinCached ==
    Lowered \/ /\ \A q, r \in cache .. Latest : q <= r => log[q].max <= log[r].max
               /\ Cardinality(Peers) <= Record.max

(* While a limit is pending, the members are within it.                    *)
LimitInv ==
    /\ pending \in {0} \cup Limits
    /\ pending # 0 => Cardinality(Peers) <= pending
    /\ writer["console"].at = "write" /\ writer["console"].op.kind = "limit" =>
          pending = writer["console"].op.arg
    /\ WithinCached

Gone(c) == \E rev \in lost : c \in log[rev - 1].channels \ log[rev].channels

(* Past the cache a channel is removed only by a write no writer here got  *)
(* an answer for, and the members are in cached channels.                  *)
InCached ==
    /\ \A q, r \in cache .. Latest : q <= r =>
          \A c \in log[q].channels : c \in log[r].channels \/ Gone(c)
    /\ \A m \in Peers : where[m] \in Record.channels \/ Gone(where[m])

(* Nobody is in a channel that is being deleted.                           *)
ChannelInv ==
    /\ deleting \in {0, 2}
    /\ deleting # 0 => /\ writer["console"].at # "idle"
                       /\ \A m \in Peers : where[m] # deleting
    /\ writer["console"].at = "write" /\ writer["console"].op.kind = "delete" =>
          deleting = writer["console"].op.arg
    /\ InCached
    /\ stopped = "occupied" => Peers # {}

(* Someone who may not be where he is has an enforcement coming.           *)
AccessInv ==
    \/ ~Up
    \/ \A m \in Peers : CanEnter(Record, m, where[m])
    \/ \E w \in Writers : writer[w].at = "done" /\ writer[w].op.kind # "limit"
    \/ informer # 0
    \/ watched < Latest /\ view < Latest

Inv == /\ StoreType /\ MemberType /\ WriterType /\ LockInv /\ PasswordInv
       /\ LimitInv /\ ChannelInv /\ AccessInv
-----------------------------------------------------------------------------
(* Facts about the operators the model is built from.                      *)

LEMMA AppendFacts ==
    ASSUME NEW S, NEW s \in Seq(S), NEW x \in S
    PROVE  /\ Append(s, x) \in Seq(S)
           /\ Len(s) \in Nat /\ Len(Append(s, x)) = Len(s) + 1
           /\ \A i \in 1 .. Len(s) : Append(s, x)[i] = s[i]
           /\ Append(s, x)[Len(s) + 1] = x
OBVIOUS

(* There are finitely many peers.                                          *)
LEMMA PeersFinite == IsFiniteSet(Peers) /\ Cardinality(Peers) \in Nat
<1>1. Peers \subseteq Members
  BY DEF Peers
<1>2. IsFiniteSet(Peers)
  BY <1>1, FS_Subset, ResourceAssumption
<1> QED
  BY <1>2, FS_CardinalityType

(* What an operation makes of a record.                                    *)
LEMMA DraftFacts ==
    ASSUME NEW w \in Writers, NEW op \in Ops, OpOK(w, op),
           NEW r \in Records, Default \in r.channels
    PROVE  /\ Draft(op, r) \in Records /\ Default \in Draft(op, r).channels
           /\ op.kind # "limit" => Draft(op, r).max = r.max
           /\ op.kind = "limit" => /\ Draft(op, r).max = op.arg
                                   /\ Draft(op, r).private = r.private
                                   /\ Draft(op, r).admins = r.admins
           /\ op.kind # "delete" => r.channels \subseteq Draft(op, r).channels
           /\ op.kind = "delete" => Draft(op, r).channels = r.channels \ {2}
<1> USE DEF Default
<1>1. CASE op.kind = "create"
  <2> DEFINE cs == r.channels \cup {r.next}
             n == r.next + 1
  <2>1. Draft(op, r) = [r EXCEPT !.channels = cs, !.next = n]
    BY <1>1 DEF Draft
  <2>2. n \in Nat \ {0} /\ cs \in SUBSET (Nat \ {0}) /\ r.channels \subseteq cs
    BY DEF Records
  <2> HIDE DEF cs, n
  <2>3. Draft(op, r) \in Records
    BY <2>1, <2>2 DEF Records
  <2>4. Draft(op, r).channels = cs /\ Draft(op, r).max = r.max
    BY <2>1 DEF Records
  <2> QED
    BY <1>1, <2>2, <2>3, <2>4
<1>2. CASE op.kind = "delete"
  <2> DEFINE cs == r.channels \ {2}
             ps == r.private \ {2}
  <2>1. Draft(op, r) = [r EXCEPT !.channels = cs, !.private = ps]
    BY <1>2 DEF Draft, OpOK
  <2>2. ps \in SUBSET {2} /\ cs \in SUBSET (Nat \ {0}) /\ 1 \in cs
    BY DEF Records
  <2> HIDE DEF cs, ps
  <2>3. Draft(op, r) \in Records
    BY <2>1, <2>2 DEF Records
  <2>4. Draft(op, r).channels = cs /\ Draft(op, r).max = r.max
    BY <2>1 DEF Records
  <2> QED
    BY <1>2, <2>2, <2>3, <2>4 DEF cs
<1>3. CASE op.kind = "private"
  <2>1. Draft(op, r) = [r EXCEPT !.private = Flip(r.private, 2)]
    BY <1>3 DEF Draft, OpOK
  <2>2. Flip(r.private, 2) \in SUBSET {2}
    BY DEF Flip, Records
  <2> QED
    BY <1>3, <2>1, <2>2 DEF Records
<1>4. CASE op.kind = "limit"
  <2>1. Draft(op, r) = [r EXCEPT !.max = op.arg]
    BY <1>4 DEF Draft
  <2>2. op.arg \in Nat
    BY <1>4, ResourceAssumption DEF OpOK
  <2> QED
    BY <1>4, <2>1, <2>2 DEF Records
<1>5. CASE op.kind = "role"
  <2>1. Draft(op, r) = [r EXCEPT !.admins = Flip(r.admins, op.arg)]
    BY <1>5 DEF Draft
  <2>2. Flip(r.admins, op.arg) \in SUBSET Members
    BY <1>5 DEF Flip, Records, OpOK
  <2> QED
    BY <1>5, <2>1, <2>2 DEF Records
<1> QED
  BY <1>1, <1>2, <1>3, <1>4, <1>5 DEF OpOK, Kinds

(* Enforcement changes nobody's admission, leaves nobody where the record  *)
(* does not let him be, and moves people only to the default channel.      *)
LEMMA EnforcedFacts ==
    ASSUME MemberType, NEW r \in Records, Default \in r.channels, Enforced(r)
    PROVE  /\ where' \in [Members -> Nat] /\ temporary' \in [Members -> Nat]
           /\ \A m \in Members : temporary'[m] \in {0, where'[m]}
           /\ Peers' = Peers
           /\ \A m \in Members : where'[m] \in {Default, where[m]}
           /\ \A m \in Peers : CanEnter(r, m, where[m])' 
<1> DEFINE evicted == {m \in Peers : ~(where[m] \in r.channels /\ CanEnter(r, m, where[m]))}
<1>1. /\ where' = [m \in Members |-> IF m \in evicted THEN Default ELSE where[m]]
      /\ temporary' = [m \in Members |-> IF m \in evicted THEN 0 ELSE temporary[m]]
  BY DEF Enforced
<1>2. /\ where' \in [Members -> Nat] /\ temporary' \in [Members -> Nat]
      /\ \A m \in Members : temporary'[m] \in {0, where'[m]}
      /\ \A m \in Members : where'[m] \in {Default, where[m]}
  BY <1>1 DEF MemberType, Default
<1>3. \A m \in Members : where'[m] # 0 <=> where[m] # 0
  BY <1>1 DEF Default, Peers
<1>4. Peers' = Peers
  BY <1>3 DEF Peers
<1>5. ASSUME NEW m \in Peers PROVE CanEnter(r, m, where[m])'
  <2>1. m \in Members
    BY DEF Peers
  <2>2. CASE m \in evicted
    BY <1>1, <2>1, <2>2 DEF CanEnter, Default, Records
  <2>3. CASE m \notin evicted
    BY <1>1, <2>1, <2>3 DEF CanEnter
  <2> QED
    BY <2>2, <2>3
<1> QED
  BY <1>2, <1>4, <1>5

(* A new revision leaves the others as they were.                          *)
LEMMA LogGrows ==
    ASSUME StoreType, NEW rec \in Records, Default \in rec.channels,
           log' = Append(log, rec), lost' \in {lost, lost \cup {Latest + 1}}
    PROVE  /\ Latest \in Nat /\ Latest' = Latest + 1 /\ log' \in Seq(Records)
           /\ \A r \in 1 .. Latest : log'[r] = log[r]
           /\ log'[Latest + 1] = rec
           /\ \A r \in 1 .. Latest' : Default \in log'[r].channels
           /\ lost' \in SUBSET (2 .. Latest')
           /\ Lowered => Lowered'
           /\ \A c : Gone(c) => Gone(c)'
<1>1. /\ Latest \in Nat /\ Latest' = Latest + 1 /\ log' \in Seq(Records)
      /\ \A r \in 1 .. Latest : log'[r] = log[r]
      /\ log'[Latest + 1] = rec
  BY AppendFacts DEF StoreType, Latest
<1>2. Latest >= 1
  BY <1>1 DEF StoreType
<1> HIDE DEF Latest
<1>3. \A r \in 1 .. Latest' : Default \in log'[r].channels
  <2> SUFFICES ASSUME NEW r \in 1 .. Latest' PROVE Default \in log'[r].channels
    OBVIOUS
  <2>1. r = Latest + 1 \/ r \in 1 .. Latest
    BY <1>1
  <2> QED
    BY <1>1, <2>1 DEF StoreType
<1>4. lost' \in SUBSET (2 .. Latest')
  BY <1>1, <1>2 DEF StoreType
<1>5. \A rev \in lost : rev \in lost' /\ log'[rev] = log[rev] /\ log'[rev - 1] = log[rev - 1]
  <2> SUFFICES ASSUME NEW rev \in lost
               PROVE  rev \in lost' /\ log'[rev] = log[rev] /\ log'[rev - 1] = log[rev - 1]
    OBVIOUS
  <2>1. rev \in 1 .. Latest /\ rev - 1 \in 1 .. Latest
    BY <1>1 DEF StoreType
  <2> QED
    BY <1>1, <2>1
<1>6. Lowered => Lowered'
  BY <1>5 DEF Lowered
<1>7. \A c : Gone(c) => Gone(c)'
  BY <1>5 DEF Gone
<1> QED
  BY <1>1, <1>3, <1>4, <1>6, <1>7

LEMMA SameBucket ==
    ASSUME UNCHANGED <<log, lost>>
    PROVE  /\ Latest' = Latest /\ (Lowered' <=> Lowered)
           /\ \A c : Gone(c)' <=> Gone(c)
BY DEF Latest, Lowered, Gone

LEMMA SamePeers ==
    ASSUME UNCHANGED where
    PROVE  Peers' = Peers
BY DEF Peers

LEMMA BucketFacts ==
    ASSUME StoreType
    PROVE  /\ Latest \in Nat /\ Latest >= 1 /\ cache \in 1 .. Latest
           /\ \A r \in 1 .. Latest : log[r] \in Records /\ Default \in log[r].channels
           /\ Record \in Records /\ Default \in Record.channels
BY DEF StoreType, Latest, Record

-----------------------------------------------------------------------------
LEMMA InitInv == Init => Inv
<1> SUFFICES ASSUME Init PROVE Inv
  OBVIOUS
<1> USE DEF Init, PasswordInit, NoSetter, NoWriter
<1>1. Cardinality(Members) \in Nat
  BY ResourceAssumption, FS_CardinalityType
<1>2. First \in Records /\ 1 \in First.channels
  BY <1>1, ResourceAssumption DEF First, Records
<1>3. log \in Seq(Records) /\ Latest = 1 /\ log[1] = First
  BY <1>2 DEF Latest
<1>4. StoreType
  BY <1>2, <1>3 DEF StoreType, Default
<1>5. Peers = {} /\ Cardinality(Peers) = 0
  BY FS_EmptySet DEF Peers
<1>6. MemberType
  BY DEF MemberType
<1>7. WriterType
  BY DEF WriterType, WriterStates, Ops, Ats, Args, Writers
<1>8. LockInv /\ PasswordInv
  BY DEF LockInv, PasswordInv, Writers
<1>9. LimitInv
  <2>1. Record = First /\ 0 <= First.max
    BY <1>2, <1>3 DEF Record, Records
  <2>2. First.max \in Nat
    BY <1>2 DEF Records
  <2>3. writer["console"].at = "idle"
    BY DEF Writers
  <2> QED
    BY <1>3, <1>5, <2>1, <2>2, <2>3 DEF LimitInv, WithinCached
<1>10. ChannelInv
  BY <1>3, <1>5 DEF ChannelInv, InCached, Writers
<1>11. AccessInv
  BY <1>5 DEF AccessInv
<1> QED
  BY <1>4, <1>6, <1>7, <1>8, <1>9, <1>10, <1>11 DEF Inv

-----------------------------------------------------------------------------
(* The password: its steps touch nothing else, and its invariant is kept   *)
(* by every other step because those leave it alone.                       *)

LEMMA PasswordFrame ==
    ASSUME PasswordInv, UNCHANGED <<stored, published, setter>>
    PROVE  PasswordInv'
BY DEF PasswordInv

LEMMA PasswordSteps ==
    ASSUME Inv, \/ Password(SetPassword) \/ Password(Replacing)
                \/ \E m \in Members : Password(Authenticate(m))
    PROVE  Inv'
<1>1. UNCHANGED <<storeState, projection, members>>
  BY DEF Password
<1>2. PasswordInv'
  <2> USE DEF Inv, PasswordInv, NoSetter
  <2>1. CASE Password(SetPassword)
    BY <2>1 DEF Password, SetPassword
  <2>2. CASE Password(Replacing)
    <3>1. CASE Replace
      BY <3>1 DEF Replace, Reads
    <3>2. CASE Readback
      BY <3>2 DEF Readback, Reads
    <3>3. CASE Publish
      BY <3>3 DEF Publish
    <3> QED
      BY <2>2, <3>1, <3>2, <3>3 DEF Password, Replacing
  <2>3. CASE \E m \in Members : Password(Authenticate(m))
    BY <2>3 DEF Password, Authenticate
  <2> QED
    BY <2>1, <2>2, <2>3
<1>3. auth' \in [Members -> Nat]
  BY DEF Inv, MemberType, PasswordInv, Password, SetPassword, Replacing, Replace, Readback, Publish,
         Authenticate
<1> USE DEF storeState, projection, members
<1>4. StoreType' /\ WriterType' /\ LockInv'
  BY <1>1 DEF Inv, StoreType, WriterType, LockInv, Latest
<1>5. MemberType'
  BY <1>1, <1>3 DEF Inv, MemberType
<1>6. LimitInv' /\ ChannelInv'
  BY <1>1, SameBucket, SamePeers DEF Inv, LimitInv, ChannelInv, WithinCached, InCached, Record
<1>7. AccessInv'
  BY <1>1, SameBucket, SamePeers DEF Inv, AccessInv, Record, CanEnter, Up
<1> QED
  BY <1>2, <1>4, <1>5, <1>6, <1>7 DEF Inv
-----------------------------------------------------------------------------
(* Writers.                                                                *)

(* A writer that begins, tries again, gives up or returns: nothing but its *)
(* own place and, for the console, what it has announced changes.          *)
LEMMA WriterStep ==
    ASSUME Inv, NEW w \in Writers, NEW n \in WriterStates, writer' = [writer EXCEPT ![w] = n],
           writer[w].at # "done", n.at \notin {"write", "done"},
           n.at # "idle" => OpOK(w, n.op),
           w = "roles" => UNCHANGED <<channelMu, deleting, pending>>,
           w = "console" => /\ channelMu' = "free" => n.at = "idle"
                            /\ informer = 0 /\ channelMu' \in {"free", "console"}
                            /\ deleting' = IF n.at = "idle" THEN 0 ELSE deleting
                            /\ pending' = IF n.at = "idle" THEN 0 ELSE pending,
           UNCHANGED <<passwords, log, cache, lost, projection, members>>
    PROVE  Inv'
<1> USE DEF Inv, projection, members, passwords
<1>1. writer'[w] = n /\ \A v \in Writers : v # w => writer'[v] = writer[v]
  BY DEF WriterType
<1>2. writer' \in [Writers -> WriterStates] /\ {"console", "roles"} = Writers
  BY DEF WriterType, Writers
<1>3. StoreType' /\ MemberType' /\ PasswordInv'
  BY DEF StoreType, MemberType, PasswordInv, Latest
<1>4. WriterType'
  BY <1>1, <1>2 DEF WriterType
<1>5. LockInv'
  BY <1>1, <1>2 DEF LockInv
<1>6. LimitInv'
  BY <1>1, <1>2, SameBucket, SamePeers DEF LimitInv, WithinCached, Record
<1>7. ChannelInv'
  BY <1>1, <1>2, SameBucket, SamePeers DEF ChannelInv, InCached, Record
<1>8. AccessInv'
  BY <1>1, <1>2, SameBucket, SamePeers DEF AccessInv, Record, CanEnter, Up
<1> QED
  BY <1>3, <1>4, <1>5, <1>6, <1>7, <1>8

LEMMA BeginInv ==
    ASSUME Inv, NEW w \in Writers, NEW op \in Operations(w), Begin(w, op)
    PROVE  Inv'
<1> DEFINE n == [NoWriter EXCEPT !.at = "read", !.op = op]
<1>1. op \in Ops /\ OpOK(w, op)
  BY DEF Operations, Ops, OpOK, Kinds, Args, Writers
<1>2. n \in WriterStates /\ n.at = "read" /\ n.op = op
  BY <1>1 DEF NoWriter, WriterStates, Ats
<1>3. informer # 0 => channelMu # "free"
  BY DEF Inv, LockInv
<1>4. /\ writer' = [writer EXCEPT ![w] = n] /\ writer[w].at = "idle"
      /\ w = "console" => channelMu = "free"
      /\ channelMu' = IF w = "console" THEN w ELSE channelMu
      /\ UNCHANGED <<deleting, pending>>
      /\ UNCHANGED <<passwords, log, cache, lost, projection, members>>
  BY DEF Begin
<1> HIDE DEF n
<1> QED
  BY <1>1, <1>2, <1>3, <1>4, WriterStep DEF Writers

LEMMA WorkingConsole ==
    ASSUME Inv, NEW w \in Writers, writer[w].at # "idle", w = "console"
    PROVE  informer = 0 /\ channelMu = "console"
BY DEF Inv, LockInv

LEMMA WriterFacts ==
    ASSUME Inv, NEW w \in Writers
    PROVE  /\ writer[w] \in WriterStates /\ writer[w].op \in Ops
           /\ writer[w].at # "idle" => OpOK(w, writer[w].op)
           /\ writer[w].base \in Nat /\ writer[w].tries \in Nat
BY DEF Inv, WriterType, WriterStates

LEMMA ConflictInv == ASSUME Inv, NEW w \in Writers, Conflict(w) PROVE Inv'
<1> DEFINE at == IF writer[w].tries + 1 < Tries THEN "read" ELSE "failed"
           t == writer[w].tries + 1
           n == [writer[w] EXCEPT !.at = at, !.tries = t]
<1>1. /\ writer[w].at = "write" /\ writer' = [writer EXCEPT ![w] = n]
      /\ UNCHANGED <<channelMu, deleting, pending>>
      /\ UNCHANGED <<passwords, log, cache, lost, projection, members>>
  BY DEF Conflict
<1>2. at \in {"read", "failed"} /\ t \in Nat
  BY WriterFacts
<1>3. n \in WriterStates /\ n.at = at /\ n.op = writer[w].op
  <2> HIDE DEF at, t
  <2> QED
    BY <1>2, WriterFacts DEF WriterStates, Ats
<1> HIDE DEF n, at
<1> QED
  BY <1>1, <1>2, <1>3, WriterFacts, WorkingConsole, WriterStep

LEMMA WriteFailsInv == ASSUME Inv, NEW w \in Writers, WriteFails(w) PROVE Inv'
<1> DEFINE n == [writer[w] EXCEPT !.at = "failed"]
<1>1. /\ writer[w].at \in {"read", "write"} /\ writer' = [writer EXCEPT ![w] = n]
      /\ UNCHANGED <<channelMu, deleting, pending>>
      /\ UNCHANGED <<passwords, log, cache, lost, projection, members>>
  BY DEF WriteFails
<1>2. n \in WriterStates /\ n.at = "failed" /\ n.op = writer[w].op
  BY WriterFacts DEF WriterStates, Ats
<1> HIDE DEF n
<1> QED
  BY <1>1, <1>2, WriterFacts, WorkingConsole, WriterStep

LEMMA FailsInv == ASSUME Inv, NEW w \in Writers, Fails(w) PROVE Inv'
<1>1. /\ writer[w].at = "failed" /\ writer' = [writer EXCEPT ![w] = NoWriter]
      /\ channelMu' = IF w = "console" THEN "free" ELSE channelMu
      /\ deleting' = IF w = "console" THEN 0 ELSE deleting
      /\ pending' = IF w = "console" THEN 0 ELSE pending
      /\ UNCHANGED <<passwords, log, cache, lost, projection, members>>
  BY DEF Fails, Returns, projection
<1>2. NoWriter \in WriterStates /\ NoWriter.at = "idle"
  BY DEF NoWriter, WriterStates, Ats, Ops, Args
<1> QED
  BY <1>1, <1>2, WorkingConsole, WriterStep DEF Writers

(* The cache may move to any later revision.                               *)
LEMMA CacheMoves ==
    ASSUME StoreType, WithinCached, InCached, UNCHANGED <<log, lost, where>>, cache' \in cache .. Latest
    PROVE  WithinCached' /\ InCached'
<1>1. /\ Latest \in Nat /\ cache \in 1 .. Latest /\ Cardinality(Peers) \in Nat
      /\ \A r \in 1 .. Latest : log[r].max \in Nat
  BY BucketFacts, PeersFinite DEF Records
<1>2. /\ Latest' = Latest /\ (Lowered' <=> Lowered) /\ (\A c : Gone(c)' <=> Gone(c))
      /\ Peers' = Peers
  BY SameBucket, SamePeers
<1>3. WithinCached'
  <2>1. CASE Lowered
    BY <1>2, <2>1 DEF WithinCached
  <2>2. CASE ~Lowered
    <3>1. /\ \A q, r \in cache .. Latest : q <= r => log[q].max <= log[r].max
          /\ Cardinality(Peers) <= log[cache].max
      BY <2>2 DEF WithinCached, Record
    <3>2. log[cache].max <= log[cache'].max
      BY <1>1, <3>1
    <3>3. Cardinality(Peers) <= log[cache'].max
      BY <1>1, <3>1, <3>2
    <3>4. \A q, r \in cache' .. Latest : q <= r => log[q].max <= log[r].max
      BY <1>1, <3>1
    <3> QED
      BY <1>2, <3>3, <3>4 DEF WithinCached, Record
  <2> QED
    BY <2>1, <2>2
<1>4. InCached'
  <2>1. \A q, r \in cache' .. Latest : q <= r =>
           \A c \in log[q].channels : c \in log[r].channels \/ Gone(c)
    BY <1>1 DEF InCached
  <2>2. \A m \in Peers : where[m] \in log[cache'].channels \/ Gone(where[m])
    BY <1>1 DEF InCached, Record
  <2> QED
    BY <1>2, <2>1, <2>2 DEF InCached, Record
<1> QED
  BY <1>3, <1>4

LEMMA ReadInv == ASSUME Inv, NEW w \in Writers, Read(w) PROVE Inv'
<1> DEFINE op == writer[w].op
           refuse == Refused(op, log[Latest])
           n == [writer[w] EXCEPT !.at = IF refuse THEN "failed" ELSE "write", !.base = Latest]
<1>1. /\ Up /\ writer[w].at = "read" /\ cache' = Latest
      /\ deleting' = IF op.kind = "delete" /\ ~refuse THEN op.arg ELSE deleting
      /\ pending' = IF op.kind = "limit" /\ ~refuse THEN op.arg ELSE pending
      /\ writer' = [writer EXCEPT ![w] = n]
      /\ UNCHANGED <<log, channelMu, lost, where, temporary, auth, stored, published, setter,
                     view, watched, informer, stopped>>
  BY DEF Read, passwords, projection, members
<1>2. /\ Latest \in Nat /\ cache \in 1 .. Latest /\ Latest' = Latest /\ Latest >= 1
      /\ Cardinality(Peers) \in Nat /\ Peers' = Peers
  BY <1>1, BucketFacts, SameBucket, SamePeers, PeersFinite DEF Inv
<1>3. /\ n \in WriterStates /\ n.op = op /\ n.base = Latest
      /\ n.at = IF refuse THEN "failed" ELSE "write"
  <2> DEFINE at == IF refuse THEN "failed" ELSE "write"
  <2>1. at \in Ats
    BY DEF Ats
  <2> HIDE DEF refuse, at
  <2>2. [writer[w] EXCEPT !.at = at, !.base = Latest] \in WriterStates
    BY <1>2, <2>1, WriterFacts DEF WriterStates
  <2>3. /\ [writer[w] EXCEPT !.at = at, !.base = Latest].op = op
        /\ [writer[w] EXCEPT !.at = at, !.base = Latest].at = at
        /\ [writer[w] EXCEPT !.at = at, !.base = Latest].base = Latest
    BY WriterFacts DEF WriterStates
  <2> QED
    BY <2>2, <2>3 DEF at
<1>4. /\ ~refuse /\ op.kind = "delete" => \A m \in Peers : where[m] # op.arg
      /\ ~refuse /\ op.kind = "limit" => ~(op.arg < Cardinality(Peers))
  BY DEF Refused
<1>5. OpOK(w, op) /\ op \in Ops
  BY <1>1, WriterFacts
<1> HIDE DEF n, refuse
<1>6. /\ writer' \in [Writers -> WriterStates] /\ writer'[w] = n
      /\ \A v \in Writers : v # w => writer'[v] = writer[v]
      /\ "console" \in Writers
  BY <1>1, <1>3 DEF Inv, WriterType, Writers
<1>7. StoreType'
  BY <1>1, <1>2 DEF Inv, StoreType
<1>8. MemberType' /\ PasswordInv'
  BY <1>1 DEF Inv, MemberType, PasswordInv
<1>9. WriterType'
  <2>1. ASSUME NEW v \in Writers
        PROVE  /\ writer'[v].at # "idle" => OpOK(v, writer'[v].op)
               /\ writer'[v].at = "write" => writer'[v].base <= cache'
    <3>1. CASE v = w
      BY <1>1, <1>2, <1>3, <1>5, <1>6, <3>1
    <3>2. CASE v # w
      <4>1. writer[v].base \in Nat /\ cache \in Nat /\ cache <= cache'
        BY <1>1, <1>2, WriterFacts
      <4>2. writer'[v] = writer[v]
        BY <1>6, <3>2
      <4>3. writer[v].at = "write" => writer[v].base <= cache
        BY DEF Inv, WriterType
      <4>4. writer[v].at = "write" => writer[v].base <= cache'
        BY <1>1, <1>2, <4>1, <4>3
      <4> QED
        BY <4>2, <4>4, WriterFacts
    <3> QED
      BY <3>1, <3>2
  <2> QED
    BY <1>6, <2>1 DEF WriterType, OpOK
<1>10. LockInv'
  BY <1>1, <1>3, <1>6 DEF Inv, LockInv
<1>11. WithinCached' /\ InCached'
  BY <1>1, <1>2, CacheMoves DEF Inv, LimitInv, ChannelInv
<1>12. LimitInv'
  <2>1. op.kind = "limit" => op.arg \in Limits /\ op.arg \in Nat /\ op.arg # 0
    BY <1>5, ResourceAssumption DEF OpOK
  <2>2. w = "roles" => op.kind # "limit"
    BY <1>5 DEF OpOK
  <2>3. pending' \in {0} \cup Limits
    BY <1>1, <2>1 DEF Inv, LimitInv
  <2>4. pending' # 0 => Cardinality(Peers') <= pending'
    BY <1>1, <1>2, <1>4, <2>1 DEF Inv, LimitInv
  <2>5. writer'["console"].at = "write" /\ writer'["console"].op.kind = "limit" =>
           pending' = writer'["console"].op.arg
    BY <1>1, <1>3, <1>6, <2>2 DEF Inv, LimitInv, Writers
  <2> QED
    BY <1>11, <2>3, <2>4, <2>5 DEF LimitInv
<1>13. ChannelInv'
  <2>1. op.kind = "delete" => op.arg = 2 /\ w = "console"
    BY <1>5 DEF OpOK, Writers
  <2>2. deleting' \in {0, 2}
    BY <1>1, <2>1 DEF Inv, ChannelInv
  <2>3. deleting' # 0 => /\ writer'["console"].at # "idle"
                         /\ \A m \in Peers' : where'[m] # deleting'
    <3>1. CASE op.kind = "delete" /\ ~refuse
      <4>1. writer'["console"].at = "write"
        BY <1>3, <1>6, <2>1, <3>1
      <4>2. deleting' = op.arg /\ UNCHANGED where
        BY <1>1, <3>1
      <4>3. \A m \in Peers : where[m] # op.arg
        BY <1>4, <3>1
      <4> QED
        BY <1>2, <4>1, <4>2, <4>3
    <3>2. CASE ~(op.kind = "delete" /\ ~refuse)
      <4>1. deleting' = deleting
        BY <1>1, <3>2
      <4>2. writer["console"].at # "idle" => writer'["console"].at # "idle"
        BY <1>3, <1>6
      <4> QED
        BY <1>1, <1>2, <4>1, <4>2 DEF Inv, ChannelInv
    <3> QED
      BY <3>1, <3>2
  <2>4. writer'["console"].at = "write" /\ writer'["console"].op.kind = "delete" =>
           deleting' = writer'["console"].op.arg
    BY <1>1, <1>3, <1>6, <2>1 DEF Inv, ChannelInv
  <2> QED
    BY <1>1, <1>2, <1>11, <2>2, <2>3, <2>4 DEF Inv, ChannelInv
<1>14. AccessInv'
  <2>1. CASE cache = Latest
    <3>1. Record' = Record
      BY <1>1, <2>1 DEF Record
    <3> QED
      BY <1>1, <1>2, <1>6, <3>1 DEF Inv, AccessInv, CanEnter, Up
  <2>2. CASE cache # Latest
    BY <1>1, <1>2, <2>2 DEF Inv, StoreType, AccessInv
  <2> QED
    BY <2>1, <2>2
<1> QED
  BY <1>7, <1>8, <1>9, <1>10, <1>12, <1>13, <1>14 DEF Inv

(* A revision the cache does not have yet: it lowers no limit and removes  *)
(* no channel, or its answer was lost.                                     *)
LEMMA GrowsBehind ==
    ASSUME StoreType, WithinCached, InCached, NEW rec \in Records, Default \in rec.channels,
           log' = Append(log, rec), lost' \in {lost, lost \cup {Latest + 1}},
           UNCHANGED <<cache, where>>,
           \/ Latest + 1 \in lost'
           \/ log[Latest].max <= rec.max /\ log[Latest].channels \subseteq rec.channels
    PROVE  Record' = Record /\ WithinCached' /\ InCached'
<1>1. /\ Latest \in Nat /\ Latest' = Latest + 1 /\ log' \in Seq(Records)
      /\ \A r \in 1 .. Latest : log'[r] = log[r]
      /\ log'[Latest + 1] = rec
      /\ Lowered => Lowered'
      /\ \A c : Gone(c) => Gone(c)'
  BY LogGrows
<1>2. cache \in 1 .. Latest /\ Record' = Record /\ Peers' = Peers
  BY <1>1, BucketFacts, SamePeers DEF Record
<1>3. \A r \in 1 .. Latest : log[r].max \in Nat
  BY BucketFacts DEF Records
<1>4. rec.max \in Nat
  BY DEF Records
<1>L. /\ Latest \in 1 .. Latest /\ (Latest + 1) - 1 = Latest /\ log'[Latest] = log[Latest]
      /\ log[Latest].max \in Nat
  <2>1. Latest \in 1 .. Latest /\ (Latest + 1) - 1 = Latest
    BY <1>1, <1>2
  <2> QED
    BY <1>1, <1>3, <2>1
<1>5. WithinCached'
  <2>1. CASE Lowered
    BY <1>1, <2>1 DEF WithinCached
  <2>2. CASE ~Lowered /\ log[Latest].max <= rec.max
    <3>1. /\ \A q, r \in cache .. Latest : q <= r => log[q].max <= log[r].max
          /\ Cardinality(Peers) <= Record.max
      BY <2>2 DEF WithinCached
    <3>2. ASSUME NEW q \in cache .. Latest + 1, NEW r \in cache .. Latest + 1, q <= r
          PROVE  log'[q].max <= log'[r].max
      <4>1. CASE r # Latest + 1
        <5>1. q \in cache .. Latest /\ r \in cache .. Latest /\ q \in 1 .. Latest /\ r \in 1 .. Latest
          BY <1>1, <1>2, <3>2, <4>1
        <5> QED
          BY <1>1, <3>1, <3>2, <5>1
      <4>2. CASE r = Latest + 1 /\ q # Latest + 1
        <5>1. q \in cache .. Latest /\ q \in 1 .. Latest /\ Latest \in cache .. Latest /\ q <= Latest
          BY <1>1, <1>2, <3>2, <4>2
        <5>2. log[q].max <= log[Latest].max
          BY <3>1, <5>1
        <5>3. log'[q] = log[q] /\ log[q].max \in Nat
          BY <1>1, <1>3, <5>1
        <5>4. log'[r] = rec
          BY <1>1, <4>2
        <5>5. log[q].max <= rec.max
          BY <1>4, <1>L, <2>2, <5>2, <5>3
        <5> QED
          BY <5>3, <5>4, <5>5
      <4>3. CASE r = Latest + 1 /\ q = Latest + 1
        <5>1. log'[r] = rec /\ log'[q] = rec
          BY <1>1, <4>3
        <5>2. rec.max <= rec.max
          BY <1>4
        <5> QED
          BY <5>1, <5>2
      <4> QED
        BY <4>1, <4>2, <4>3
    <3> QED
      BY <1>1, <1>2, <3>1, <3>2 DEF WithinCached
  <2>3. CASE ~Lowered /\ ~(log[Latest].max <= rec.max)
    <3>1. Latest + 1 \in lost' /\ log'[Latest + 1] = rec /\ log'[(Latest + 1) - 1] = log[Latest]
      BY <1>1, <1>L, <2>3
    <3>2. rec.max < log[Latest].max
      BY <1>4, <1>L, <2>3
    <3>3. Lowered'
      BY <3>1, <3>2 DEF Lowered
    <3> QED
      BY <3>3 DEF WithinCached
  <2> QED
    BY <2>1, <2>2, <2>3
<1>6. InCached'
  <2>1. \A c \in log[Latest].channels : c \in rec.channels \/ Gone(c)'
    <3>1. CASE log[Latest].channels \subseteq rec.channels
      BY <3>1
    <3>2. CASE Latest + 1 \in lost'
      <4>1. log'[Latest + 1] = rec /\ log'[(Latest + 1) - 1] = log[Latest]
        BY <1>1, <1>L
      <4> QED
        BY <3>2, <4>1 DEF Gone
    <3> QED
      BY <3>1, <3>2
  <2>2. ASSUME NEW q \in cache .. Latest + 1, NEW r \in cache .. Latest + 1, q <= r,
               NEW c \in log'[q].channels
        PROVE  c \in log'[r].channels \/ Gone(c)'
    <3>1. CASE r # Latest + 1
      <4>1. q \in cache .. Latest /\ r \in cache .. Latest /\ q \in 1 .. Latest /\ r \in 1 .. Latest
        BY <1>1, <1>2, <2>2, <3>1
      <4>2. log'[q] = log[q] /\ log'[r] = log[r]
        BY <1>1, <4>1
      <4> QED
        BY <1>1, <2>2, <4>1, <4>2 DEF InCached
    <3>2. CASE r = Latest + 1 /\ q # Latest + 1
      <4>1. q \in cache .. Latest /\ q \in 1 .. Latest /\ Latest \in cache .. Latest /\ q <= Latest
        BY <1>1, <1>2, <2>2, <3>2
      <4>2. log'[q] = log[q] /\ log'[r] = rec
        BY <1>1, <3>2, <4>1
      <4>3. c \in log[Latest].channels \/ Gone(c)
        BY <2>2, <4>1, <4>2 DEF InCached
      <4> QED
        BY <1>1, <2>1, <4>2, <4>3
    <3>3. CASE r = Latest + 1 /\ q = Latest + 1
      BY <3>3
    <3> QED
      BY <3>1, <3>2, <3>3
  <2>3. \A m \in Peers' : where'[m] \in Record'.channels \/ Gone(where[m])'
    BY <1>1, <1>2 DEF InCached
  <2> QED
    BY <1>1, <1>2, <2>2, <2>3 DEF InCached
<1> QED
  BY <1>2, <1>5, <1>6

LEMMA CommitInv == ASSUME Inv, NEW w \in Writers, Commit(w) PROVE Inv'
<1> DEFINE op == writer[w].op
           rec == Draft(op, log[Latest])
<1>1. /\ Up /\ writer[w].at = "write" /\ writer[w].base = Latest /\ log' = Append(log, rec)
      /\ UNCHANGED <<channelMu, deleting, pending, where, temporary, auth, stored, published, setter,
                     view, watched, informer, stopped>>
  BY DEF Commit, passwords, projection, members
<1>2. /\ Latest \in Nat /\ Latest >= 1 /\ cache \in 1 .. Latest /\ log[Latest] \in Records
      /\ Default \in log[Latest].channels
  BY BucketFacts DEF Inv
<1>3. cache = Latest /\ Record = log[Latest]
  <2>1. writer[w].base <= cache
    BY <1>1 DEF Inv, WriterType
  <2> QED
    BY <1>1, <1>2, <2>1 DEF Record
<1>4. OpOK(w, op) /\ op \in Ops
  BY <1>1, WriterFacts
<1>5. /\ rec \in Records /\ Default \in rec.channels
      /\ op.kind # "limit" => rec.max = Record.max
      /\ op.kind = "limit" => /\ rec.max = op.arg
                              /\ rec.private = Record.private
                              /\ rec.admins = Record.admins
      /\ op.kind # "delete" => Record.channels \subseteq rec.channels
      /\ op.kind = "delete" => rec.channels = Record.channels \ {2}
  BY <1>2, <1>3, <1>4, DraftFacts
<1> HIDE DEF rec
<1>6. lost' \in {lost, lost \cup {Latest + 1}}
  BY DEF Commit
<1>7. /\ Latest' = Latest + 1 /\ log' \in Seq(Records)
      /\ \A r \in 1 .. Latest : log'[r] = log[r]
      /\ log'[Latest + 1] = rec
      /\ \A r \in 1 .. Latest' : Default \in log'[r].channels
      /\ lost' \in SUBSET (2 .. Latest')
      /\ Lowered => Lowered'
      /\ \A c : Gone(c) => Gone(c)'
  BY <1>1, <1>5, <1>6, LogGrows DEF Inv
<1>8. Peers' = Peers /\ Cardinality(Peers) \in Nat
  BY <1>1, SamePeers, PeersFinite
<1>9. cache' \in cache .. Latest + 1
  BY <1>2, <1>3 DEF Commit
<1>10. PICK at \in {"done", "failed"} :
          /\ writer' = [writer EXCEPT ![w].at = at]
          /\ \/ cache' = Latest + 1 /\ lost' = lost /\ at = "done"
             \/ cache' = cache /\ lost' = lost \cup {Latest + 1} /\ at = "failed"
  BY DEF Commit
<1> DEFINE n == [writer[w] EXCEPT !.at = at]
<1>11. writer' = [writer EXCEPT ![w] = n] /\ n \in WriterStates /\ n.at = at /\ n.op = op
  BY <1>10, WriterFacts DEF WriterStates, Ats
<1> HIDE DEF n
<1>12. /\ writer' \in [Writers -> WriterStates] /\ writer'[w] = n
       /\ \A v \in Writers : v # w => writer'[v] = writer[v]
       /\ "console" \in Writers
  BY <1>11 DEF Inv, WriterType, Writers
<1>13. StoreType'
  <2>1. /\ view \in 0 .. cache /\ watched \in 0 .. cache /\ informer \in 0 .. cache
        /\ informer # 0 => watched <= informer
    BY DEF Inv, StoreType
  <2>2. /\ cache' \in 1 .. Latest'
        /\ view' \in 0 .. cache' /\ watched' \in 0 .. cache' /\ informer' \in 0 .. cache'
        /\ informer' # 0 => watched' <= informer'
    BY <1>1, <1>2, <1>7, <1>9, <2>1
  <2> QED
    BY <1>7, <2>2 DEF StoreType
<1>14. MemberType' /\ PasswordInv'
  BY <1>1 DEF Inv, MemberType, PasswordInv
<1>15. WriterType'
  <2>1. ASSUME NEW v \in Writers
        PROVE  /\ writer'[v].at # "idle" => OpOK(v, writer'[v].op)
               /\ writer'[v].at = "write" => writer'[v].base <= cache'
    <3>1. CASE v = w
      BY <1>4, <1>10, <1>11, <1>12, <3>1
    <3>2. CASE v # w
      <4>1. writer'[v] = writer[v]
        BY <1>12, <3>2
      <4>2. writer[v].at = "write" => writer[v].base <= cache
        BY DEF Inv, WriterType
      <4>3. writer[v].at = "write" => writer[v].base <= cache'
        BY <1>2, <1>9, <4>2, WriterFacts
      <4> QED
        BY <4>1, <4>3, WriterFacts
    <3> QED
      BY <3>1, <3>2
  <2> QED
    BY <1>12, <2>1 DEF WriterType, OpOK
<1>16. LockInv'
  BY <1>1, <1>10, <1>11, <1>12 DEF Inv, LockInv
<1>17. WithinCached' /\ InCached'
  <2>1. CASE cache' = cache /\ lost' = lost \cup {Latest + 1}
    BY <1>1, <1>5, <2>1, GrowsBehind DEF Inv, LimitInv, ChannelInv
  <2>2. CASE cache' = Latest + 1 /\ lost' = lost
    <3>1. Record' = rec /\ cache' .. Latest' = {Latest + 1}
      BY <1>2, <1>7, <2>2 DEF Record
    <3>2. op.kind = "limit" => Cardinality(Peers) <= op.arg
      <4>1. op.kind = "limit" => w = "console" /\ op.arg \in Limits /\ op.arg # 0
        BY <1>4, ResourceAssumption DEF OpOK, Writers
      <4> QED
        BY <1>1, <4>1 DEF Inv, LimitInv
    <3>3. Lowered' \/ Cardinality(Peers') <= Record'.max
      BY <1>5, <1>7, <1>8, <3>1, <3>2 DEF Inv, LimitInv, WithinCached
    <3>4. WithinCached'
      <4>1. rec.max <= rec.max
        BY <1>5 DEF Records
      <4> QED
        BY <1>7, <3>1, <3>3, <4>1 DEF WithinCached
    <3>5. op.kind = "delete" => \A m \in Peers : where[m] # 2
      <4>1. op.kind = "delete" => w = "console" /\ op.arg = 2
        BY <1>4 DEF OpOK, Writers
      <4> QED
        BY <1>1, <4>1 DEF Inv, ChannelInv
    <3>6. \A m \in Peers : where[m] \in rec.channels \/ Gone(where[m])
      BY <1>5, <3>5 DEF Inv, ChannelInv, InCached
    <3>7. \A m \in Peers' : where'[m] \in Record'.channels \/ Gone(where[m])'
      BY <1>7, <1>8, <1>1, <3>1, <3>6
    <3> QED
      BY <1>1, <3>1, <3>4, <3>7 DEF InCached
  <2> QED
    BY <1>10, <2>1, <2>2
<1>18. LimitInv' /\ ChannelInv'
  <2>1. writer'["console"].at = "write" => writer'["console"] = writer["console"]
    BY <1>10, <1>11, <1>12
  <2>2. writer["console"].at # "idle" => writer'["console"].at # "idle"
    BY <1>10, <1>11, <1>12
  <2>3. LimitInv'
    BY <1>1, <1>8, <1>17, <2>1 DEF Inv, LimitInv
  <2> QED
    BY <1>1, <1>8, <1>17, <2>1, <2>2, <2>3 DEF Inv, ChannelInv
<1>19. AccessInv'
  <2>1. CASE cache' = cache
    <3>1. Record' = Record
      BY <1>2, <1>7, <2>1 DEF Record
    <3> QED
      BY <1>1, <1>2, <1>7, <1>8, <1>12, <3>1 DEF Inv, AccessInv, CanEnter, Up, StoreType
  <2>2. CASE cache' = Latest + 1 /\ at = "done" /\ op.kind # "limit"
    BY <1>11, <1>12, <2>2 DEF AccessInv
  <2>3. CASE cache' = Latest + 1 /\ op.kind = "limit"
    <3>1. Record' = rec
      BY <1>7, <2>3 DEF Record
    <3>2. \A m \in Peers : CanEnter(Record, m, where[m]) => CanEnter(Record, m, where[m])'
      BY <1>1, <1>5, <2>3, <3>1 DEF CanEnter
    <3>3. ASSUME NEW v \in Writers, writer[v].at = "done", writer[v].op.kind # "limit"
          PROVE  writer'[v].at = "done" /\ writer'[v].op.kind # "limit"
      BY <1>1, <1>12, <3>3
    <3>4. watched < Latest /\ view < Latest => watched' < Latest' /\ view' < Latest'
      BY <1>1, <1>2, <1>7 DEF Inv, StoreType
    <3> QED
      BY <1>1, <1>8, <3>2, <3>3, <3>4 DEF Inv, AccessInv, Up
  <2> QED
    BY <1>10, <2>1, <2>2, <2>3
<1> QED
  BY <1>13, <1>14, <1>15, <1>16, <1>18, <1>19 DEF Inv

LEMMA WriteElsewhereInv ==
    ASSUME Inv, NEW w \in Writers, NEW op \in Operations(w), WriteElsewhere(op)
    PROVE  Inv'
<1> DEFINE rec == Draft(op, log[Latest])
<1>1. /\ log' = Append(log, rec) /\ lost' = lost \cup {Latest + 1}
      /\ UNCHANGED <<cache, writer, channelMu, deleting, pending, where, temporary, auth, stored,
                     published, setter, view, watched, informer, stopped>>
  BY DEF WriteElsewhere, passwords, projection, members
<1>2. /\ Latest \in Nat /\ Latest >= 1 /\ cache \in 1 .. Latest /\ log[Latest] \in Records
      /\ Default \in log[Latest].channels
  BY BucketFacts DEF Inv
<1>3. op \in Ops /\ OpOK(w, op)
  BY DEF Operations, Ops, OpOK, Kinds, Args, Writers
<1>4. rec \in Records /\ Default \in rec.channels
  BY <1>2, <1>3, DraftFacts
<1> HIDE DEF rec
<1>5. /\ Latest' = Latest + 1 /\ log' \in Seq(Records)
      /\ \A r \in 1 .. Latest' : Default \in log'[r].channels
      /\ lost' \in SUBSET (2 .. Latest')
  BY <1>1, <1>4, LogGrows DEF Inv
<1>6. Record' = Record /\ WithinCached' /\ InCached'
  BY <1>1, <1>4, GrowsBehind DEF Inv, LimitInv, ChannelInv
<1>7. Peers' = Peers
  BY <1>1, SamePeers
<1>8. StoreType'
  <2>1. cache' \in 1 .. Latest'
    BY <1>1, <1>2, <1>5
  <2> QED
    BY <1>1, <1>5, <2>1 DEF Inv, StoreType
<1>9. MemberType' /\ PasswordInv' /\ WriterType' /\ LockInv'
  BY <1>1 DEF Inv, MemberType, PasswordInv, WriterType, LockInv, OpOK
<1>10. LimitInv' /\ ChannelInv'
  BY <1>1, <1>6, <1>7 DEF Inv, LimitInv, ChannelInv
<1>11. AccessInv'
  BY <1>1, <1>2, <1>5, <1>6, <1>7 DEF Inv, AccessInv, CanEnter, Up, StoreType
<1> QED
  BY <1>8, <1>9, <1>10, <1>11 DEF Inv

-----------------------------------------------------------------------------
(* The informer and the members.                                           *)

LEMMA ReceiveInv == ASSUME Inv, NEW rev \in 1 .. Latest, Receive(rev) PROVE Inv'
<1>1. /\ Up /\ informer = 0 /\ channelMu = "free" /\ rev \in watched + 1 .. Latest /\ watched' = rev
      /\ UNCHANGED <<log, lost, writer, deleting, pending, where, temporary, auth, stored,
                     published, setter, view, stopped>>
  BY DEF Receive, passwords, members
<1>2. /\ Latest \in Nat /\ cache \in 1 .. Latest /\ Latest' = Latest /\ Peers' = Peers
      /\ view \in 0 .. cache /\ watched \in 0 .. cache
  BY <1>1, BucketFacts, SameBucket, SamePeers DEF Inv, StoreType
<1>3. /\ cache' \in cache .. Latest /\ rev <= cache'
      /\ \/ informer' = 0 /\ channelMu' = channelMu /\ rev <= view /\ cache' = cache
         \/ informer' = cache' /\ channelMu' = "informer"
  BY <1>1, <1>2 DEF Receive, Larger
<1>4. WithinCached' /\ InCached'
  BY <1>1, <1>3, CacheMoves DEF Inv, LimitInv, ChannelInv
<1>5. writer["console"].at = "idle"
  BY <1>1 DEF Inv, LockInv
<1>6. StoreType'
  <2>1. /\ cache' \in 1 .. Latest' /\ view' \in 0 .. cache' /\ watched' \in 0 .. cache'
        /\ informer' \in 0 .. cache' /\ (informer' # 0 => watched' <= informer')
    BY <1>1, <1>2, <1>3
  <2> QED
    BY <1>1, <1>2, <2>1 DEF Inv, StoreType
<1>7. MemberType' /\ PasswordInv'
  BY <1>1 DEF Inv, MemberType, PasswordInv
<1>8. WriterType'
  <2>1. ASSUME NEW v \in Writers
        PROVE  /\ writer'[v].at # "idle" => OpOK(v, writer'[v].op)
               /\ writer'[v].at = "write" => writer'[v].base <= cache'
    <3>1. writer[v].at = "write" => writer[v].base <= cache
      BY DEF Inv, WriterType
    <3>2. writer[v].at = "write" => writer[v].base <= cache'
      BY <1>2, <1>3, <3>1, WriterFacts
    <3> QED
      BY <1>1, <3>2, WriterFacts
  <2> QED
    BY <1>1, <2>1 DEF Inv, WriterType, OpOK
<1>9. LockInv'
  BY <1>1, <1>3, <1>5 DEF LockInv
<1>10. LimitInv' /\ ChannelInv'
  BY <1>1, <1>2, <1>4 DEF Inv, LimitInv, ChannelInv
<1>11. AccessInv'
  <2>1. CASE informer' # 0
    BY <2>1 DEF AccessInv
  <2>2. CASE informer' = 0
    <3>1. cache' = cache /\ rev <= view /\ Record' = Record
      BY <1>1, <1>2, <1>3, <2>2 DEF Record
    <3>2. watched < Latest /\ view < Latest => watched' < Latest' /\ view' < Latest'
      BY <1>1, <1>2, <3>1
    <3> QED
      BY <1>1, <1>2, <3>1, <3>2 DEF Inv, AccessInv, CanEnter, Up
  <2> QED
    BY <2>1, <2>2
<1> QED
  BY <1>6, <1>7, <1>8, <1>9, <1>10, <1>11 DEF Inv

(* The members change, the bucket and the cache do not.                    *)
LEMMA MembersChange ==
    ASSUME WithinCached, InCached, UNCHANGED <<log, cache, lost>>,
           Lowered \/ Cardinality(Peers)' <= Record.max,
           \A m \in Peers' : where'[m] \in Record.channels \/ Gone(where'[m])
    PROVE  WithinCached' /\ InCached' /\ Record' = Record
<1>1. Record' = Record
  BY DEF Record
<1>2. WithinCached'
  BY <1>1, SameBucket DEF WithinCached
<1>3. InCached'
  BY <1>1, SameBucket DEF InCached
<1> QED
  BY <1>1, <1>2, <1>3

(* Enforcement, whatever the record, keeps everyone in cached channels.    *)
LEMMA EnforcedCached ==
    ASSUME StoreType, MemberType, WithinCached, InCached, UNCHANGED <<log, cache, lost>>,
           NEW r \in Records, Default \in r.channels, Enforced(r)
    PROVE  WithinCached' /\ InCached' /\ Record' = Record
<1>1. Peers' = Peers /\ \A m \in Members : where'[m] \in {Default, where[m]}
  BY EnforcedFacts
<1>2. \A m \in Peers' : where'[m] \in Record.channels \/ Gone(where'[m])
  <2> SUFFICES ASSUME NEW m \in Peers' PROVE where'[m] \in Record.channels \/ Gone(where'[m])
    OBVIOUS
  <2>1. m \in Peers /\ m \in Members
    BY <1>1 DEF Peers
  <2> QED
    BY <1>1, <2>1, BucketFacts DEF InCached
<1>3. Lowered \/ Cardinality(Peers)' <= Record.max
  BY <1>1 DEF WithinCached
<1> QED
  BY <1>2, <1>3, MembersChange

LEMMA SucceedsInv == ASSUME Inv, NEW w \in Writers, Succeeds(w) PROVE Inv'
<1>1. /\ Up /\ writer[w].at = "done" /\ writer' = [writer EXCEPT ![w] = NoWriter]
      /\ channelMu' = IF w = "console" THEN "free" ELSE channelMu
      /\ deleting' = IF w = "console" THEN 0 ELSE deleting
      /\ pending' = IF w = "console" THEN 0 ELSE pending
      /\ view' \in {view, cache}
      /\ UNCHANGED <<auth, stored, published, setter, log, cache, lost, watched, informer, stopped>>
  BY DEF Succeeds, Returns, passwords
<1>2. /\ Record \in Records /\ Default \in Record.channels /\ Latest' = Latest
      /\ Latest \in Nat /\ cache \in 1 .. Latest
  BY <1>1, BucketFacts, SameBucket DEF Inv
<1>3. /\ \/ UNCHANGED <<where, temporary>> /\ writer[w].op.kind = "limit"
         \/ Enforced(Record) /\ writer[w].op.kind # "limit"
      /\ writer[w].op.kind = "limit" => view' = view
  BY DEF Succeeds, members
<1>4. MemberType' /\ Peers' = Peers /\ \A m \in Members : where'[m] \in {Default, where[m]}
  <2>1. CASE UNCHANGED <<where, temporary>>
    BY <1>1, <2>1, SamePeers DEF Inv, MemberType
  <2>2. CASE Enforced(Record)
    BY <1>1, <1>2, <2>2, EnforcedFacts DEF Inv, MemberType
  <2> QED
    BY <1>3, <2>1, <2>2
<1>5. WithinCached' /\ InCached' /\ Record' = Record
  <2>1. CASE UNCHANGED <<where, temporary>>
    BY <1>1, <1>4, <2>1, MembersChange DEF Inv, LimitInv, ChannelInv, WithinCached, InCached
  <2>2. CASE Enforced(Record)
    BY <1>1, <1>2, <2>2, EnforcedCached DEF Inv, LimitInv, ChannelInv
  <2> QED
    BY <1>3, <2>1, <2>2
<1>6. NoWriter \in WriterStates /\ NoWriter.at = "idle"
  BY DEF NoWriter, WriterStates, Ats, Ops, Args
<1>7. /\ writer' \in [Writers -> WriterStates] /\ writer'[w] = NoWriter
      /\ \A v \in Writers : v # w => writer'[v] = writer[v]
      /\ {"console", "roles"} = Writers
  BY <1>1, <1>6 DEF Inv, WriterType, Writers
<1>8. StoreType'
  <2>1. view' \in 0 .. cache
    BY <1>1, <1>2 DEF Inv, StoreType
  <2> QED
    BY <1>1, <1>2, <2>1 DEF Inv, StoreType
<1>9. WriterType' /\ PasswordInv'
  BY <1>1, <1>6, <1>7 DEF Inv, WriterType, PasswordInv, OpOK
<1>10. LockInv'
  BY <1>1, <1>6, <1>7 DEF Inv, LockInv
<1>11. LimitInv'
  BY <1>1, <1>4, <1>5, <1>6, <1>7 DEF Inv, LimitInv
<1>12. ChannelInv'
  <2>1. w = "roles" => writer'["console"] = writer["console"]
    BY <1>7
  <2>2. deleting' # 0 => w = "roles" /\ deleting' = deleting /\ deleting = 2
    BY <1>1, <1>7 DEF Inv, ChannelInv
  <2>3. deleting' # 0 => /\ writer'["console"].at # "idle"
                         /\ \A m \in Peers' : where'[m] # deleting'
    BY <1>4, <2>1, <2>2 DEF Inv, ChannelInv, Default, Peers
  <2>4. writer'["console"].at = "write" => w = "roles"
    BY <1>6, <1>7
  <2>5. deleting' \in {0, 2}
    BY <1>1 DEF Inv, ChannelInv
  <2>6. writer'["console"].at = "write" /\ writer'["console"].op.kind = "delete" =>
           deleting' = writer'["console"].op.arg
    BY <1>1, <2>1, <2>4 DEF Inv, ChannelInv
  <2> QED
    BY <1>1, <1>4, <1>5, <2>3, <2>5, <2>6 DEF Inv, ChannelInv
<1>13. AccessInv'
  <2>1. CASE Enforced(Record)
    <3>1. \A m \in Peers : CanEnter(Record, m, where[m])'
      <4> DEFINE r == Record
      <4>1. r \in Records /\ Default \in r.channels /\ Enforced(r)
        BY <1>2, <2>1
      <4>2. ASSUME NEW m \in Peers PROVE where'[m] \in r.private => m \in r.admins \/ temporary'[m] = where'[m]
        <5> HIDE DEF r
        <5> QED
          BY <4>1, EnforcedFacts DEF Inv, CanEnter
      <4> QED
        BY <1>5, <4>2 DEF CanEnter
    <3> QED
      BY <1>4, <3>1 DEF AccessInv
  <2>2. CASE UNCHANGED <<where, temporary>> /\ writer[w].op.kind = "limit" /\ view' = view
    <3>1. ASSUME NEW v \in Writers, writer[v].at = "done", writer[v].op.kind # "limit"
          PROVE  writer'[v].at = "done" /\ writer'[v].op.kind # "limit"
      BY <1>7, <2>2, <3>1
    <3> QED
      BY <1>1, <1>2, <1>4, <1>5, <2>2, <3>1 DEF Inv, AccessInv, CanEnter, Up
  <2> QED
    BY <1>3, <2>1, <2>2
<1> QED
  BY <1>4, <1>8, <1>9, <1>10, <1>11, <1>12, <1>13 DEF Inv

LEMMA ProjectInv == ASSUME Inv, Project \/ RetentionFails PROVE Inv'
<1>1. /\ Up /\ informer # 0 /\ informer' = 0 /\ channelMu' = "free"
      /\ UNCHANGED <<auth, stored, published, setter, log, cache, writer, deleting, pending, lost, watched>>
  BY DEF Project, RetentionFails, Applied, passwords
<1>2. /\ Latest \in Nat /\ cache \in 1 .. Latest /\ Latest' = Latest
      /\ informer \in 1 .. cache /\ watched \in 0 .. cache /\ watched <= informer
      /\ view \in 0 .. cache /\ log[informer] \in Records /\ Default \in log[informer].channels
  <2>1. /\ Latest \in Nat /\ cache \in 1 .. Latest /\ informer \in 0 .. cache
        /\ watched \in 0 .. cache /\ watched <= informer /\ view \in 0 .. cache
    BY <1>1, BucketFacts DEF Inv, StoreType
  <2>2. informer \in 1 .. Latest /\ informer \in 1 .. cache
    BY <1>1, <2>1
  <2> QED
    BY <1>1, <2>1, <2>2, BucketFacts, SameBucket DEF Inv
<1>3. writer["console"].at = "idle" /\ deleting = 0
  BY <1>1 DEF Inv, LockInv, ChannelInv
<1>4. WriterType' /\ PasswordInv' /\ LockInv'
  BY <1>1, <1>3 DEF Inv, WriterType, PasswordInv, LockInv, OpOK
<1>5. ASSUME view' \in 0 .. cache PROVE StoreType'
  BY <1>1, <1>2, <1>5 DEF Inv, StoreType
<1>6. ASSUME WithinCached', InCached', Peers' = Peers, stopped' = "occupied" => Peers # {}
      PROVE  LimitInv' /\ ChannelInv'
  BY <1>1, <1>3, <1>6 DEF Inv, LimitInv, ChannelInv
<1>7. CASE view' = informer /\ stopped' = stopped /\ Enforced(log[informer])
  <2> DEFINE r == log[informer]
  <2>1. r \in Records /\ Default \in r.channels /\ Enforced(r) /\ (cache = informer => Record' = r)
    BY <1>1, <1>2, <1>7 DEF Record
  <2>2. StoreType'
    BY <1>2, <1>5, <1>7
  <2> HIDE DEF r
  <2>3. /\ MemberType' /\ Peers' = Peers
        /\ \A m \in Peers : where'[m] \in r.private => m \in r.admins \/ temporary'[m] = where'[m]
    BY <1>1, <2>1, EnforcedFacts DEF Inv, MemberType, CanEnter
  <2>4. WithinCached' /\ InCached'
    BY <1>1, <2>1, EnforcedCached DEF Inv, LimitInv, ChannelInv
  <2>5. LimitInv' /\ ChannelInv'
    BY <1>6, <1>7, <2>3, <2>4 DEF Inv, ChannelInv
  <2>6. AccessInv'
    <3>1. CASE cache = informer
      BY <2>1, <2>3, <3>1 DEF AccessInv, CanEnter
    <3>2. CASE cache # informer
      <4>1. watched' < Latest' /\ view' < Latest'
        BY <1>1, <1>2, <1>7, <3>2
      <4> QED
        BY <4>1 DEF AccessInv
    <3> QED
      BY <3>1, <3>2
  <2> QED
    BY <1>4, <2>2, <2>3, <2>5, <2>6 DEF Inv
<1>8. CASE /\ stopped' \in {"occupied", "retention"} /\ UNCHANGED <<view, where, temporary>>
           /\ stopped' = "occupied" => Peers # {}
  <2>1. Peers' = Peers /\ MemberType'
    BY <1>1, <1>8, SamePeers DEF Inv, MemberType
  <2>2. WithinCached' /\ InCached'
    BY <1>1, <1>8, <2>1, MembersChange DEF Inv, LimitInv, ChannelInv, WithinCached, InCached
  <2>3. AccessInv'
    BY <1>8 DEF AccessInv, Up
  <2>4. LimitInv' /\ ChannelInv'
    BY <1>6, <1>8, <2>1, <2>2
  <2>5. StoreType'
    BY <1>2, <1>5, <1>8
  <2> QED
    BY <1>4, <2>1, <2>3, <2>4, <2>5 DEF Inv
<1> QED
  BY <1>7, <1>8 DEF Project, RetentionFails, members

LEMMA RestartInv == ASSUME Inv, Restart PROVE Inv'
<1>1. /\ stopped' = "no" /\ view' = 0 /\ watched' = 0 /\ informer' = 0 /\ cache' = Latest
      /\ log' = log /\ lost' = {} /\ writer' = [w \in Writers |-> NoWriter] /\ channelMu' = "free"
      /\ deleting' = 0 /\ pending' = 0 /\ where' = [m \in Members |-> 0]
      /\ temporary' = [m \in Members |-> 0] /\ published' = stored /\ setter' = NoSetter
      /\ stored' = stored /\ auth' = [m \in Members |-> 0]
  BY DEF Restart
<1>2. /\ Latest \in Nat /\ Latest >= 1 /\ Latest' = Latest
      /\ \A r \in 1 .. Latest : log[r] \in Records /\ Default \in log[r].channels
  BY <1>1, BucketFacts DEF Inv, Latest
<1>3. Peers' = {} /\ Cardinality(Peers)' = 0
  BY <1>1, FS_EmptySet DEF Peers
<1>4. StoreType'
  BY <1>1, <1>2 DEF Inv, StoreType
<1>5. MemberType' /\ PasswordInv'
  BY <1>1 DEF Inv, MemberType, PasswordInv, NoSetter
<1>6. WriterType'
  BY <1>1 DEF WriterType, WriterStates, Ops, Ats, Args, Writers, NoWriter
<1>7. writer'["console"].at = "idle"
  BY <1>1 DEF Writers, NoWriter
<1>8. LockInv'
  BY <1>1, <1>7 DEF LockInv
<1>9. LimitInv'
  <2>1. Record' = log[Latest] /\ log[Latest].max \in Nat
    BY <1>1, <1>2 DEF Record, Records
  <2>2. \A q, r \in cache' .. Latest' : q <= r => log'[q].max <= log'[r].max
    <3>1. \A q \in cache' .. Latest' : q = Latest
      BY <1>1, <1>2
    <3> QED
      BY <1>1, <2>1, <3>1
  <2>3. WithinCached'
    BY <1>3, <2>1, <2>2 DEF WithinCached
  <2> QED
    BY <1>1, <1>7, <2>3 DEF LimitInv
<1>10. ChannelInv'
  <2>1. \A q \in cache' .. Latest' : q = Latest
    BY <1>1, <1>2
  <2>2. InCached'
    BY <1>3, <2>1 DEF InCached
  <2> QED
    BY <1>1, <1>3, <1>7, <2>2 DEF ChannelInv
<1>11. AccessInv'
  BY <1>3 DEF AccessInv
<1> QED
  BY <1>4, <1>5, <1>6, <1>8, <1>9, <1>10, <1>11 DEF Inv

(* A member m comes to channel c, is moved there, or leaves (c = 0): who   *)
(* may be there and whether there is room for him is what remains to show. *)
LEMMA MemberStep ==
    ASSUME Inv, Up, UNCHANGED <<stored, published, setter, storeState, projection>>,
           auth' \in [Members -> Nat], NEW m \in Members, NEW c \in Nat, NEW t \in {0, c},
           where' = [where EXCEPT ![m] = c], temporary' = [temporary EXCEPT ![m] = t],
           c # 0 => /\ c \in Record.channels /\ c # deleting
                    /\ c \in Record.private => m \in Record.admins \/ t = c,
           where[m] = 0 /\ c # 0 => /\ Cardinality(Peers) < Record.max
                                    /\ pending # 0 => Cardinality(Peers) < pending
    PROVE  Inv'
<1> USE DEF storeState, projection
<1>1. /\ where'[m] = c /\ temporary'[m] = t
      /\ \A n \in Members : n # m => where'[n] = where[n] /\ temporary'[n] = temporary[n]
  BY DEF Inv, MemberType
<1>2. /\ Cardinality(Peers) \in Nat /\ Record \in Records
      /\ Cardinality(Peers)' \in Nat /\ pending \in Nat
  <2>1. Cardinality(Peers)' \in Nat
    <3>1. Peers' \subseteq Members
      BY DEF Peers
    <3> QED
      BY <3>1, FS_Subset, FS_CardinalityType, ResourceAssumption
  <2>2. pending \in Nat
    BY ResourceAssumption DEF Inv, LimitInv
  <2> QED
    BY <2>1, <2>2, PeersFinite, BucketFacts DEF Inv
<1>3. \/ Peers' = Peers \/ Peers' = Peers \ {m}
      \/ Peers' = Peers \cup {m} /\ m \notin Peers /\ where[m] = 0 /\ c # 0
  BY <1>1 DEF Peers
<1>4. \/ Cardinality(Peers)' <= Cardinality(Peers)
      \/ Cardinality(Peers)' = Cardinality(Peers) + 1 /\ where[m] = 0 /\ c # 0
  <2>1. CASE Peers' = Peers
    BY <1>2, <2>1
  <2>2. CASE Peers' = Peers \ {m}
    <3>1. Cardinality(Peers \ {m}) \in {Cardinality(Peers), Cardinality(Peers) - 1}
      BY PeersFinite, FS_RemoveElement
    <3> QED
      BY <1>2, <2>2, <3>1
  <2>3. CASE Peers' = Peers \cup {m} /\ m \notin Peers /\ where[m] = 0 /\ c # 0
    BY <2>3, PeersFinite, FS_AddElement
  <2> QED
    BY <1>3, <2>1, <2>2, <2>3
<1>5. /\ Cardinality(Peers) <= Record.max => Cardinality(Peers)' <= Record.max
      /\ pending # 0 => Cardinality(Peers)' <= pending
  <2>1. Record.max \in Nat /\ (pending # 0 => Cardinality(Peers) <= pending)
    BY <1>2 DEF Records, Inv, LimitInv
  <2> QED
    BY <1>2, <1>4, <2>1
<1>6. \A n \in Peers' : where'[n] \in Record.channels \/ Gone(where'[n])
  BY <1>1 DEF Inv, ChannelInv, InCached, Peers
<1>7. WithinCached' /\ InCached' /\ Record' = Record
  <2>1. Lowered \/ Cardinality(Peers)' <= Record.max
    BY <1>5 DEF Inv, LimitInv, WithinCached
  <2> QED
    BY <1>6, <2>1, MembersChange DEF Inv, LimitInv, ChannelInv
<1>8. StoreType' /\ WriterType' /\ LockInv' /\ PasswordInv'
  BY DEF Inv, StoreType, WriterType, LockInv, PasswordInv, Latest
<1>9. MemberType'
  BY <1>1 DEF Inv, MemberType
<1>10. LimitInv'
  BY <1>5, <1>7 DEF Inv, LimitInv
<1>11. ChannelInv'
  <2>1. deleting # 0 => \A n \in Peers' : where'[n] # deleting
    BY <1>1 DEF Inv, ChannelInv, Peers
  <2>2. stopped' # "occupied"
    BY DEF Up
  <2> QED
    BY <1>7, <2>1, <2>2 DEF Inv, ChannelInv
<1>12. AccessInv'
  <2>1. (\A n \in Peers : CanEnter(Record, n, where[n])) =>
           \A n \in Peers' : CanEnter(Record, n, where[n])'
    <3> SUFFICES ASSUME \A n \in Peers : CanEnter(Record, n, where[n]), NEW n \in Peers'
                 PROVE  CanEnter(Record, n, where[n])'
      OBVIOUS
    <3>1. CASE n = m
      BY <1>1, <1>7, <3>1 DEF CanEnter, Peers
    <3>2. CASE n # m
      BY <1>1, <1>7, <3>2 DEF CanEnter, Peers
    <3> QED
      BY <3>1, <3>2
  <2> QED
    BY <2>1, SameBucket DEF Inv, AccessInv, Up
<1> QED
  BY <1>7, <1>8, <1>9, <1>10, <1>11, <1>12 DEF Inv

LEMMA AdmitInv == ASSUME Inv, NEW m \in Members, Admit(m) PROVE Inv'
<1>1. /\ Up /\ where[m] = 0 /\ UNCHANGED <<stored, published, setter, storeState, projection>>
      /\ UNCHANGED temporary
  BY DEF Admit
<1>2. auth' \in [Members -> Nat]
  BY DEF Admit, Inv, MemberType
<1>3. temporary[m] = 0 /\ temporary = [temporary EXCEPT ![m] = 0]
  BY <1>1 DEF Inv, MemberType
<1>4. CASE where' = [where EXCEPT ![m] = Default]
  <2> DEFINE limit == IF pending # 0 /\ pending < Record.max THEN pending ELSE Record.max
  <2>1. Cardinality(Peers) < limit
    <3>1. where'[m] # where[m]
      BY <1>1, <1>4 DEF Inv, MemberType, Default
    <3> QED
      BY <3>1 DEF Admit
  <2>2. pending \in Nat /\ Record \in Records /\ Default \in Record.channels
    <3>1. pending \in Nat
      BY ResourceAssumption DEF Inv, LimitInv
    <3> QED
      BY <3>1, BucketFacts DEF Inv
  <2>3. /\ Cardinality(Peers) < Record.max
        /\ pending # 0 => Cardinality(Peers) < pending
    BY <2>1, <2>2, PeersFinite DEF Records
  <2>4. /\ Default \in Nat /\ Default # 0 /\ Default # deleting /\ Default \notin Record.private
        /\ 0 \in {0, Default}
    BY <2>2 DEF Inv, ChannelInv, Default, Records
  <2> HIDE DEF Default
  <2> QED
    BY <1>1, <1>2, <1>3, <1>4, <2>2, <2>3, <2>4, MemberStep
<1>5. CASE where' = where
  <2>1. where = [where EXCEPT ![m] = 0]
    BY <1>1 DEF Inv, MemberType
  <2> QED
    BY <1>1, <1>2, <1>3, <1>5, <2>1, MemberStep
<1> QED
  BY <1>4, <1>5 DEF Admit

LEMMA LeaveInv == ASSUME Inv, NEW m \in Members, Leave(m) PROVE Inv'
<1>1. /\ Up /\ UNCHANGED <<stored, published, setter, storeState, projection>>
      /\ where' = [where EXCEPT ![m] = 0] /\ temporary' = [temporary EXCEPT ![m] = 0]
  BY DEF Leave
<1>2. auth' \in [Members -> Nat]
  BY DEF Leave, Inv, MemberType
<1> QED
  BY <1>1, <1>2, MemberStep

LEMMA MoveInv ==
    ASSUME Inv, NEW m \in Members, NEW c \in Record.channels, Move(m, c) \/ Moderate(m, c)
    PROVE  Inv'
<1>1. PICK temp \in BOOLEAN :
          /\ where' = [where EXCEPT ![m] = c]
          /\ temporary' = [temporary EXCEPT ![m] = IF temp THEN c ELSE 0]
          /\ c \in Record.private => m \in Record.admins \/ temp \/ temporary[m] = c
  BY DEF Move, Moderate, MovePeer, CanEnter
<1>2. /\ Up /\ m \in Peers /\ where[m] # c /\ where[m] # 0
      /\ UNCHANGED <<stored, published, setter, storeState, projection>> /\ auth' = auth
      /\ c # deleting \/ channelMu = "free"
  BY DEF Move, Moderate, MovePeer, passwords, Peers
<1>3. c \in Nat /\ c # 0
  BY BucketFacts DEF Inv, Records
<1>4. c # deleting
  BY <1>2, <1>3 DEF Inv, ChannelInv, LockInv
<1>5. temporary[m] # c
  BY <1>2, <1>3 DEF Inv, MemberType
<1>6. auth' \in [Members -> Nat]
  BY <1>2 DEF Inv, MemberType
<1> DEFINE t == IF temp THEN c ELSE 0
<1>7. t \in {0, c} /\ (c \in Record.private => m \in Record.admins \/ t = c)
  BY <1>1, <1>5
<1>8. temporary' = [temporary EXCEPT ![m] = t]
  BY <1>1
<1> HIDE DEF t
<1> QED
  BY <1>1, <1>2, <1>3, <1>4, <1>6, <1>7, <1>8, MemberStep

-----------------------------------------------------------------------------
LEMMA NextInv == Inv /\ [Next]_vars => Inv'
<1> SUFFICES ASSUME Inv, [Next]_vars PROVE Inv'
  OBVIOUS
<1>1. CASE Asked
  <2>1. CASE \E w \in Writers : \E op \in Operations(w) : Begin(w, op)
    BY <2>1, BeginInv
  <2>2. CASE Restart \/ \E w \in Writers : \E op \in Operations(w) : WriteElsewhere(op)
    BY <2>2, WriteElsewhereInv, RestartInv
  <2>3. CASE Password(SetPassword) \/ \E m \in Members : Password(Authenticate(m))
    BY <2>3, PasswordSteps
  <2>4. CASE \E m \in Members : Leave(m)
    BY <2>4, LeaveInv
  <2>5. CASE \E m \in Members, c \in Record.channels : Move(m, c) \/ Moderate(m, c)
    BY <2>5, MoveInv
  <2> QED
    BY <1>1, <2>1, <2>2, <2>3, <2>4, <2>5 DEF Asked
<1>2. CASE Serves
  <2>1. CASE \E w \in Writers : Update(w)
    BY <2>1, ReadInv, ConflictInv, CommitInv, WriteFailsInv, SucceedsInv, FailsInv DEF Update
  <2>2. CASE Inform
    BY <2>2, ReceiveInv, ProjectInv DEF Inform
  <2>3. CASE Password(Replacing)
    BY <2>3, PasswordSteps
  <2>4. CASE \E m \in Members : Admit(m)
    BY <2>4, AdmitInv
  <2> QED
    BY <1>2, <2>1, <2>2, <2>3, <2>4 DEF Serves
<1>3. CASE UNCHANGED vars
  <2> USE <1>3 DEF vars, passwords, storeState, projection, members
  <2>1. StoreType' /\ MemberType' /\ WriterType' /\ LockInv' /\ PasswordInv'
    BY DEF Inv, StoreType, MemberType, WriterType, LockInv, PasswordInv, Latest
  <2>2. LimitInv' /\ ChannelInv'
    BY SameBucket, SamePeers DEF Inv, LimitInv, ChannelInv, WithinCached, InCached, Record
  <2>3. AccessInv'
    BY SameBucket, SamePeers DEF Inv, AccessInv, Record, CanEnter, Up
  <2> QED
    BY <2>1, <2>2, <2>3 DEF Inv
<1> QED
  BY <1>1, <1>2, <1>3 DEF Next

LEMMA InvHolds == Spec => []Inv
BY InitInv, NextInv, PTL DEF Spec

(* The members never exceed the cached limit unless the answer of a write  *)
(* that lowered it was lost, or another process lowered it.                *)
THEOREM LimitKept == Spec => []WithinLimit
<1>1. Inv => WithinLimit
  <2> SUFFICES ASSUME Inv, Cardinality(Peers) > Record.max PROVE Lowered
    BY DEF WithinLimit, Lowered
  <2>1. Cardinality(Peers) \in Nat /\ Record.max \in Nat
    BY PeersFinite, BucketFacts DEF Inv, Records
  <2> QED
    BY <2>1 DEF Inv, LimitInv, WithinCached
<1> QED
  BY <1>1, InvHolds, PTL

(* A member is in a channel the cached record does not have, and the       *)
(* informer ends the server because of one, only as the property says.     *)
THEOREM OrphansExplained == Spec => []OrphanedOnlyByLostAnswer
<1>1. Inv => OrphanedOnlyByLostAnswer
  BY DEF Inv, ChannelInv, InCached, Gone, OrphanedOnlyByLostAnswer
<1> QED
  BY <1>1, InvHolds, PTL

(* Whoever is where the cached record does not let him be has an           *)
(* enforcement coming.                                                     *)
THEOREM AccessIsEnforced == Spec => []AccessEnforced
<1>1. Inv => AccessEnforced
  BY DEF Inv, AccessInv, AccessEnforced
<1> QED
  BY <1>1, InvHolds, PTL

(* Only admission makes a member of a connection.                          *)
LEMMA OnlyAdmitted ==
    ASSUME Inv, [Next]_vars, NEW m \in Members, where[m] = 0, where'[m] # 0
    PROVE  Admit(m)
<1>1. Peers' # Peers /\ where' # where
  BY DEF Peers
<1>2. ASSUME NEW n \in Members, NEW c, where' = [where EXCEPT ![n] = c], n = m => c = 0
      PROVE  FALSE
  BY <1>2 DEF Inv, MemberType
<1>3. CASE Asked
  <2>1. CASE Restart
    BY <2>1 DEF Restart
  <2>2. CASE \E n \in Members : Leave(n)
    BY <1>2, <2>2 DEF Leave
  <2>3. CASE \E n \in Members, c \in Record.channels : Move(n, c) \/ Moderate(n, c)
    BY <1>2, <2>3 DEF Move, Moderate, MovePeer, Peers
  <2> QED
    BY <1>1, <1>3, <2>1, <2>2, <2>3 DEF Asked, Begin, WriteElsewhere, Password, members
<1>4. CASE Serves
  <2>1. CASE \E w \in Writers : Succeeds(w)
    <3>1. Enforced(Record)
      BY <1>1, <2>1 DEF Succeeds, members
    <3>2. Peers' = Peers
      <4> DEFINE r == Record
      <4>1. r \in Records /\ Default \in r.channels /\ Enforced(r)
        BY <3>1, BucketFacts DEF Inv
      <4> HIDE DEF r
      <4> QED
        BY <4>1, EnforcedFacts DEF Inv
    <3> QED
      BY <1>1, <3>2
  <2>2. CASE Project
    <3>1. Enforced(log[informer]) /\ informer # 0
      BY <1>1, <2>2 DEF Project, members
    <3>2. informer \in 1 .. Latest
      BY <3>1, BucketFacts DEF Inv, StoreType
    <3>3. Peers' = Peers
      <4> DEFINE r == log[informer]
      <4>1. r \in Records /\ Default \in r.channels /\ Enforced(r)
        BY <3>1, <3>2, BucketFacts DEF Inv
      <4> HIDE DEF r
      <4> QED
        BY <4>1, EnforcedFacts DEF Inv
    <3> QED
      BY <1>1, <3>3
  <2>3. CASE \E n \in Members : Admit(n)
    <3>1. PICK n \in Members : Admit(n)
      BY <2>3
    <3>2. n = m
      BY <1>1, <1>2, <3>1 DEF Admit
    <3> QED
      BY <3>1, <3>2
  <2> QED
    BY <1>1, <1>4, <2>1, <2>2, <2>3 DEF Serves, Update, Inform, Password, Read, Conflict, Commit,
       WriteFails, Fails, Receive, RetentionFails, members
<1> QED
  BY <1>1, <1>3, <1>4 DEF Next, vars, members

(* A connection that knew only an earlier password is admitted at most     *)
(* while the change to the stored one has not returned.                    *)
THEOREM AdmissionKnowsPassword == Spec => AdmittedKnowsPassword
<1>1. Inv /\ [Next]_vars => [\A m \in Members : where[m] = 0 /\ where'[m] # 0 =>
                                auth[m] = stored \/ setter.at # "idle"]_vars
  <2> SUFFICES ASSUME Inv, [Next]_vars, NEW m \in Members, where[m] = 0, where'[m] # 0
               PROVE  auth[m] = stored \/ setter.at # "idle"
    OBVIOUS
  <2>1. Admit(m)
    BY OnlyAdmitted
  <2>2. auth[m] = published /\ auth[m] # 0
    BY <2>1 DEF Admit
  <2> QED
    BY <2>2 DEF Inv, PasswordInv
<1> QED
  BY <1>1, InvHolds, PTL DEF Spec, AdmittedKnowsPassword
=============================================================================

------------------------ MODULE AccountSessionsProofs ------------------------
(***************************************************************************)
(* Proofs about AccountSessions for any number of connections, accounts    *)
(* and devices.  Everything rests on the account gate: only its holder     *)
(* writes the account database, so what a command read or issued is still  *)
(* true when it takes Server.mu to install the session.                    *)
(***************************************************************************)
EXTENDS AccountSessions, TLAPS

\* The account gate has at most one holder.
GateExclusive == \A p, q \in gate : p = q

\* The token table: one current credential per account, never from the future.
TokensCurrent ==
    /\ \A t \in tokens : /\ t.uid \in Uid /\ t.version > 0
                         /\ t.version = version[t.uid]
                         /\ t.id =< issued
    /\ \A s, t \in tokens : s.uid = t.uid => s = t

\* Past its verification a command acts for a registered account.
ActsForAccount ==
    \A p \in Peer : cmd[p].pc \in {"check", "issue", "install"} =>
        cmd[p].a.uid \in Uid /\ cmd[p].a.version > 0

\* The token about to be installed is newer than every session's.
InstallsNewest ==
    \A p \in Peer : cmd[p].pc = "install" =>
        /\ cmd[p].a \in tokens /\ cmd[p].a.id = issued
        /\ \A q \in Peer : account[q].id < issued

AccountsIssued == \A p \in Peer : account[p].id =< issued

Credentials ==
    TokensCurrent /\ ActsForAccount /\ InstallsNewest /\ AccountsIssued

IInv ==
    /\ TypeOK /\ GateExclusive /\ Credentials
    /\ SingleSession /\ DisplacedCannotReturn /\ BannedDeviceCutOff

-----------------------------------------------------------------------------
\* The empty proof and the idle command are well formed.
LEMMA EmptyFacts ==
    /\ NoProof \in Proofs /\ NoProof.uid = NoUid /\ NoProof.id = 0
    /\ NoCommand \in Commands /\ NoCommand.pc = "idle"
    /\ NoUid \notin Uid
  <1>1. 0 \in 0 .. MaxVersion /\ 0 \in 0 .. MaxToken
    BY AccountAssumption
  <1>2. NoProof \in Proofs /\ NoProof.uid = NoUid /\ NoProof.id = 0
    BY <1>1 DEF NoProof, Proofs
  <1>3. NoCommand \in Commands /\ NoCommand.pc = "idle"
    BY <1>2 DEF NoCommand, Commands, Actions
  <1> QED
    BY <1>2, <1>3, AccountAssumption

\* The part of TypeOK about commands and the gate.
CommandsTyped ==
    cmd \in [Peer -> Commands] /\ gate = {p \in Peer : cmd[p].pc # "idle"}

\* The rest of TypeOK.
RestTyped ==
    /\ peers \subseteq Peer
    /\ removed \in [Peer -> BOOLEAN] /\ open \in [Peer -> BOOLEAN]
    /\ account \in [Peer -> Proofs]
    /\ version \in [Uid -> 0 .. MaxVersion]
    /\ tokens \subseteq Proofs /\ issued \in 0 .. MaxToken
    /\ bans \subseteq Bannable
    /\ banning \in BOOLEAN /\ watching \in BOOLEAN
    /\ observed \subseteq Bannable

LEMMA TypeParts == TypeOK <=> CommandsTyped /\ RestTyped
  BY DEF TypeOK, CommandsTyped, RestTyped

\* Ending a command leaves the connection idle and the others as they were.
LEMMA FinishFacts ==
    ASSUME CommandsTyped, NEW p \in Peer, Finish(p)
    PROVE  /\ CommandsTyped' /\ gate' \subseteq gate
           /\ cmd'[p].pc = "idle"
           /\ \A q \in Peer \ {p} : cmd'[q] = cmd[q]
  <1>1. cmd' \in [Peer -> Commands] /\ cmd'[p] = NoCommand
        /\ \A q \in Peer \ {p} : cmd'[q] = cmd[q]
    BY EmptyFacts DEF CommandsTyped, Finish
  <1>2. gate' = gate \ {p}
    BY DEF Finish
  <1> QED
    BY <1>1, <1>2, EmptyFacts DEF CommandsTyped

\* A command that moves on keeps the gate.
LEMMA MoveFacts ==
    ASSUME CommandsTyped, NEW p \in Peer, NEW c \in Commands, c.pc # "idle",
           cmd' = [cmd EXCEPT ![p] = c], gate' = gate \cup {p}
    PROVE  /\ CommandsTyped' /\ cmd'[p] = c
           /\ \A q \in Peer \ {p} : cmd'[q] = cmd[q]
  <1>1. cmd' \in [Peer -> Commands] /\ cmd'[p] = c
        /\ \A q \in Peer \ {p} : cmd'[q] = cmd[q]
    BY DEF CommandsTyped
  <1> QED
    BY <1>1 DEF CommandsTyped

\* The initial state satisfies the invariant.
LEMMA InitIInv == Init => IInv
  <1> SUFFICES ASSUME Init PROVE IInv
    OBVIOUS
  <1>1. RestTyped
    <2>1. 0 \in 0 .. MaxVersion /\ 0 \in 0 .. MaxToken
      BY AccountAssumption
    <2>2. version \in [Uid -> 0 .. MaxVersion] /\ issued \in 0 .. MaxToken
      BY <2>1 DEF Init
    <2>3. removed \in [Peer -> BOOLEAN] /\ open \in [Peer -> BOOLEAN]
          /\ banning \in BOOLEAN /\ watching \in BOOLEAN
      BY Zenon DEF Init
    <2>4. peers \subseteq Peer /\ account \in [Peer -> Proofs]
          /\ tokens \subseteq Proofs /\ bans \subseteq Bannable
          /\ observed \subseteq Bannable
      BY EmptyFacts DEF Init
    <2> QED
      BY <2>2, <2>3, <2>4, Zenon DEF RestTyped
  <1>2. CommandsTyped
    BY EmptyFacts DEF Init, CommandsTyped
  <1>3. \A p \in Peer : cmd[p].pc = "idle" /\ account[p].id = 0
    BY EmptyFacts DEF Init
  <1>4. GateExclusive /\ Credentials
    BY <1>3 DEF Init, GateExclusive, Credentials, TokensCurrent, ActsForAccount,
                InstallsNewest, AccountsIssued
  <1>5. SingleSession /\ DisplacedCannotReturn /\ BannedDeviceCutOff
    BY DEF Init, SingleSession, DisplacedCannotReturn, BannedDeviceCutOff,
           LiveAs, Live
  <1> QED
    BY <1>1, <1>2, <1>4, <1>5, TypeParts DEF IInv

-----------------------------------------------------------------------------
(* What a step of an account command does to the commands *)

\* Only the gate's holder has a command under way.
LEMMA OthersIdle ==
    ASSUME CommandsTyped, GateExclusive, NEW p \in Peer, cmd[p].pc # "idle"
    PROVE  \A q \in Peer \ {p} : cmd[q].pc = "idle"
  BY DEF CommandsTyped, GateExclusive

\* A command moves on to the step pc, for an account a.
MovesTo(p, pc, a) ==
    /\ CommandsTyped' /\ gate' = gate
    /\ cmd'[p].pc = pc /\ cmd'[p].a = a
    /\ \A q \in Peer \ {p} : cmd'[q] = cmd[q]

LEMMA StepMoves ==
    ASSUME CommandsTyped, NEW p \in Peer, cmd[p].pc # "idle", gate' = gate,
           NEW pc \in {"verify", "clear", "check", "issue", "install"},
           Step(p, pc)
    PROVE  MovesTo(p, pc, cmd[p].a)
  <1> DEFINE c == [cmd[p] EXCEPT !.pc = pc]
  <1>0. cmd[p] \in Commands /\ cmd[p].a \in Proofs
    BY DEF CommandsTyped, Commands
  <1>1. c \in Commands /\ c.pc = pc /\ c.a = cmd[p].a
    <2>1. c \in Commands
      BY <1>0 DEF Commands
    <2>2. c.pc = pc
      BY <1>0 DEF Commands
    <2>3. c.a = cmd[p].a
      BY <1>0 DEF Commands
    <2> QED
      BY <2>1, <2>2, <2>3
  <1>2. cmd' = [cmd EXCEPT ![p] = c]
    BY DEF Step, CommandsTyped
  <1>3. gate' = gate \cup {p}
    BY DEF CommandsTyped
  <1> HIDE DEF c
  <1>4. CommandsTyped' /\ cmd'[p] = c /\ \A q \in Peer \ {p} : cmd'[q] = cmd[q]
    BY <1>1, <1>2, <1>3, MoveFacts
  <1> QED
    BY <1>1, <1>4 DEF MovesTo

LEMMA RecordMoves ==
    ASSUME CommandsTyped, NEW p \in Peer, cmd[p].pc # "idle", gate' = gate,
           NEW pc \in {"verify", "clear", "check", "issue", "install"},
           NEW a \in Proofs,
           cmd' = [cmd EXCEPT ![p].pc = pc, ![p].a = a]
    PROVE  MovesTo(p, pc, a)
  <1> DEFINE c == [cmd[p] EXCEPT !.pc = pc, !.a = a]
  <1>0. cmd[p] \in Commands
    BY DEF CommandsTyped
  <1>1. c \in Commands /\ c.pc = pc /\ c.a = a
    <2>1. c \in Commands
      BY <1>0 DEF Commands
    <2>2. c.pc = pc
      BY <1>0 DEF Commands
    <2>3. c.a = a
      BY <1>0 DEF Commands
    <2> QED
      BY <2>1, <2>2, <2>3
  <1>2. cmd' = [cmd EXCEPT ![p] = c]
    BY DEF CommandsTyped
  <1>3. gate' = gate \cup {p}
    BY DEF CommandsTyped
  <1> HIDE DEF c
  <1>4. CommandsTyped' /\ cmd'[p] = c /\ \A q \in Peer \ {p} : cmd'[q] = cmd[q]
    BY <1>1, <1>2, <1>3, MoveFacts
  <1> QED
    BY <1>1, <1>4 DEF MovesTo

LEMMA BeginMoves ==
    ASSUME CommandsTyped, RestTyped, NEW p \in Peer, NEW action \in Actions,
           Begin(p, action)
    PROVE  /\ CommandsTyped' /\ gate' = gate \cup {p} /\ cmd'[p].pc = "verify"
           /\ \A q \in Peer \ {p} : cmd'[q] = cmd[q]
  <1> DEFINE c == [NoCommand EXCEPT !.pc = "verify", !.action = action,
                                    !.previous = account[p]]
  <1>0. account[p] \in Proofs /\ NoProof \in Proofs
    BY EmptyFacts DEF RestTyped
  <1>1. NoCommand \in Commands
    BY EmptyFacts
  <1>2. c \in Commands /\ c.pc = "verify"
    <2>1. c \in Commands
      BY <1>0, <1>1 DEF Commands
    <2>2. c.pc = "verify"
      BY <1>1 DEF Commands
    <2> QED
      BY <2>1, <2>2
  <1>3. cmd' = [cmd EXCEPT ![p] = c] /\ gate' = gate \cup {p}
    BY DEF Begin
  <1> HIDE DEF c
  <1> QED
    BY <1>2, <1>3, MoveFacts

\* The proof a verified command carries.
LEMMA VerifiedMoves ==
    ASSUME CommandsTyped, NEW p \in Peer, cmd[p].pc # "idle", gate' = gate,
           NEW u \in Uid, NEW v \in 0 .. MaxVersion, Verified(p, u, v)
    PROVE  \E a \in Proofs : /\ MovesTo(p, "check", a)
                             /\ a.uid = u /\ a.version = v
  <1> DEFINE a == [uid |-> u, version |-> v, id |-> 0]
  <1>1. a \in Proofs /\ a.uid = u /\ a.version = v
    BY AccountAssumption DEF Proofs
  <1>2. cmd' = [cmd EXCEPT ![p].pc = "check", ![p].a = a]
    BY DEF Verified
  <1> HIDE DEF a
  <1>3. MovesTo(p, "check", a)
    BY <1>1, <1>2, RecordMoves
  <1> QED
    BY <1>1, <1>3

\* How far a command may get in one step.
Progress(p) ==
    \/ cmd'[p].pc \in {"idle", "verify", "clear"}
    \/ /\ cmd'[p].pc = "check"
       /\ cmd'[p].a.uid \in Uid /\ cmd'[p].a.version > 0
    \/ /\ cmd'[p].pc = "issue"
       /\ cmd[p].pc = "check" /\ cmd'[p].a = cmd[p].a
    \/ /\ cmd'[p].pc = "install" /\ cmd[p].pc = "issue" /\ Issue(p)
       /\ cmd'[p].a = NewProof(p)

CommandEffect(p) ==
    /\ CommandsTyped' /\ GateExclusive'
    /\ \A q \in Peer \ {p} : cmd'[q].pc = "idle"
    /\ Progress(p)

LEMMA FinishEffect ==
    ASSUME CommandsTyped, GateExclusive, NEW p \in Peer, cmd[p].pc # "idle", Finish(p)
    PROVE  CommandEffect(p)
  <1>1. /\ CommandsTyped' /\ gate' \subseteq gate /\ cmd'[p].pc = "idle"
        /\ \A q \in Peer \ {p} : cmd'[q] = cmd[q]
    BY FinishFacts
  <1>2. \A q \in Peer \ {p} : cmd[q].pc = "idle"
    BY OthersIdle
  <1> QED
    BY <1>1, <1>2 DEF CommandEffect, Progress, GateExclusive

LEMMA MoveEffect ==
    ASSUME CommandsTyped, GateExclusive, NEW p \in Peer, cmd[p].pc # "idle",
           NEW pc, NEW a, MovesTo(p, pc, a)
    PROVE  /\ CommandsTyped' /\ GateExclusive'
           /\ \A q \in Peer \ {p} : cmd'[q].pc = "idle"
  <1>1. \A q \in Peer \ {p} : cmd[q].pc = "idle"
    BY OthersIdle
  <1> QED
    BY <1>1 DEF MovesTo, GateExclusive

LEMMA VerifiedEffect ==
    ASSUME CommandsTyped, GateExclusive, NEW p \in Peer, cmd[p].pc # "idle",
           gate' = gate, NEW u \in Uid, NEW v \in 0 .. MaxVersion, v > 0,
           Verified(p, u, v)
    PROVE  CommandEffect(p)
  <1>1. PICK a \in Proofs : MovesTo(p, "check", a) /\ a.uid = u /\ a.version = v
    BY VerifiedMoves
  <1>2. cmd'[p].pc = "check" /\ cmd'[p].a = a
    BY <1>1 DEF MovesTo
  <1>3. Progress(p)
    BY <1>1, <1>2 DEF Progress
  <1>4. /\ CommandsTyped' /\ GateExclusive'
        /\ \A q \in Peer \ {p} : cmd'[q].pc = "idle"
    BY <1>1, MoveEffect
  <1> QED
    BY <1>3, <1>4 DEF CommandEffect

LEMMA StepEffect ==
    ASSUME CommandsTyped, GateExclusive, NEW p \in Peer, cmd[p].pc # "idle",
           gate' = gate, NEW pc \in {"clear", "issue"}, Step(p, pc),
           pc = "issue" => cmd[p].pc = "check"
    PROVE  CommandEffect(p)
  <1>1. MovesTo(p, pc, cmd[p].a)
    BY StepMoves
  <1>2. cmd'[p].pc = pc /\ cmd'[p].a = cmd[p].a
    BY <1>1 DEF MovesTo
  <1>3. Progress(p)
    BY <1>2 DEF Progress
  <1>4. /\ CommandsTyped' /\ GateExclusive'
        /\ \A q \in Peer \ {p} : cmd'[q].pc = "idle"
    BY <1>1, MoveEffect
  <1> QED
    BY <1>3, <1>4 DEF CommandEffect

\* The proof Issue makes.
LEMMA IssuedProof ==
    ASSUME CommandsTyped, RestTyped, NEW p \in Peer, issued < MaxToken
    PROVE  /\ NewProof(p) \in Proofs /\ NewProof(p).id = issued + 1
           /\ NewProof(p).uid = cmd[p].a.uid /\ NewProof(p).version = cmd[p].a.version
  <1>1. cmd[p].a \in Proofs
    BY DEF CommandsTyped, Commands
  <1>2. issued + 1 \in 0 .. MaxToken
    BY AccountAssumption DEF RestTyped
  <1>3. [cmd[p].a EXCEPT !.id = issued + 1] \in Proofs
    BY <1>1, <1>2 DEF Proofs
  <1>4. [cmd[p].a EXCEPT !.id = issued + 1].id = issued + 1
    BY <1>1 DEF Proofs
  <1>5. /\ [cmd[p].a EXCEPT !.id = issued + 1].uid = cmd[p].a.uid
        /\ [cmd[p].a EXCEPT !.id = issued + 1].version = cmd[p].a.version
    BY <1>1 DEF Proofs
  <1> QED
    BY <1>3, <1>4, <1>5 DEF NewProof

\* Every step of an account command keeps the gate exclusive and the commands
\* well formed, and leaves the other connections idle.
LEMMA CommandEffects ==
    ASSUME CommandsTyped, RestTyped, GateExclusive, TokensCurrent,
           NEW p \in Peer, CommandStep(p)
    PROVE  CommandEffect(p)
  <1>1. CASE \E action \in Actions : Begin(p, action)
    <2>1. PICK action \in Actions : Begin(p, action)
      BY <1>1
    <2>2. /\ CommandsTyped' /\ gate' = gate \cup {p} /\ cmd'[p].pc = "verify"
          /\ \A q \in Peer \ {p} : cmd'[q] = cmd[q]
      BY <2>1, BeginMoves
    <2>3. gate = {}
      BY <2>1 DEF Begin
    <2>4. GateExclusive'
      BY <2>2, <2>3 DEF GateExclusive
    <2>5. \A q \in Peer \ {p} : cmd'[q].pc = "idle"
      BY <2>2, <2>3 DEF CommandsTyped
    <2> QED
      BY <2>2, <2>4, <2>5 DEF CommandEffect, Progress
  <1>2. ASSUME NEW u \in Uid, Register(p, u) PROVE CommandEffect(p)
    <2>1. cmd[p].pc # "idle" /\ gate' = gate /\ Verified(p, u, 1) /\ MaxVersion > 0
      BY <1>2 DEF Register, AddAccount, Verifying
    <2>2. 1 \in 0 .. MaxVersion /\ 1 > 0
      BY <2>1, AccountAssumption
    <2> QED
      BY <2>1, <2>2, VerifiedEffect
  <1>3. ASSUME NEW u \in Uid, Password(p, u) PROVE CommandEffect(p)
    <2>1. cmd[p].pc # "idle" /\ gate' = gate /\ Verified(p, u, version[u])
      BY <1>3 DEF Password, Verifying
    <2>2. version[u] \in 0 .. MaxVersion /\ version[u] > 0
      BY <1>3 DEF Password, RestTyped
    <2> QED
      BY <2>1, <2>2, VerifiedEffect
  <1>4. ASSUME NEW t \in tokens, Token(p, t) PROVE CommandEffect(p)
    <2>1. cmd[p].pc # "idle" /\ gate' = gate /\ Verified(p, t.uid, t.version)
      BY <1>4 DEF Token, Verifying
    <2>2. t.uid \in Uid /\ t.version \in 0 .. MaxVersion /\ t.version > 0
      BY DEF RestTyped, Proofs, TokensCurrent
    <2> QED
      BY <2>1, <2>2, VerifiedEffect
  <1>5. CASE ChangePassword(p)
    <2> DEFINE previous == cmd[p].previous
    <2>1. cmd[p].pc # "idle" /\ gate' = gate
          /\ Verified(p, previous.uid, previous.version + 1)
      BY <1>5 DEF ChangePassword, Verifying
    <2>2. previous \in Proofs
      BY DEF CommandsTyped, Commands
    <2>3. previous.uid # NoUid /\ previous.version < MaxVersion
      BY <1>5 DEF ChangePassword, ReplacePassword
    <2>4. previous.uid \in Uid /\ previous.version \in 0 .. MaxVersion
      BY <2>2, <2>3 DEF Proofs
    <2> HIDE DEF previous
    <2>5. previous.version + 1 \in 0 .. MaxVersion /\ previous.version + 1 > 0
      BY <2>3, <2>4, AccountAssumption
    <2> QED
      BY <2>1, <2>4, <2>5, VerifiedEffect
  <1>6. CASE \/ ChangePasswordUncertain(p) \/ VerifyFails(p) \/ ClearAccount(p)
             \/ IssueFails(p) \/ Install(p) \/ InstallAborts(p) \/ RevokeUncertain(p)
             \/ \E u \in Uid : RegisterUncertain(p, u)
    <2>1. cmd[p].pc # "idle" /\ Finish(p)
      BY <1>6 DEF ChangePasswordUncertain, VerifyFails, ClearAccount, IssueFails,
                  Install, InstallAborts, FinishClosing, Verifying, RevokeUncertain,
                  RegisterUncertain
    <2> QED
      BY <2>1, FinishEffect
  <1>7. CASE Revoke(p)
    <2>1. cmd[p].pc # "idle" /\ gate' = gate /\ Step(p, "clear")
      BY <1>7 DEF Revoke, Verifying
    <2> QED
      BY <2>1, StepEffect
  <1>8. CASE CheckBan(p)
    <2>1. cmd[p].pc = "check" /\ (Finish(p) \/ (Step(p, "issue") /\ gate' = gate))
      BY <1>8 DEF CheckBan
    <2> QED
      BY <2>1, FinishEffect, StepEffect
  <1>9. CASE Issue(p)
    <2> DEFINE proof == NewProof(p)
    <2>1. /\ cmd[p].pc = "issue" /\ gate' = gate /\ issued < MaxToken
          /\ cmd' = [cmd EXCEPT ![p].pc = "install", ![p].a = proof]
      BY <1>9 DEF Issue, Rotate
    <2>2. proof \in Proofs
      BY <2>1, IssuedProof
    <2> HIDE DEF proof
    <2>3. MovesTo(p, "install", proof)
      BY <2>1, <2>2, RecordMoves
    <2>4. cmd'[p].pc = "install" /\ cmd'[p].a = proof
      BY <2>3 DEF MovesTo
    <2>5. Progress(p)
      BY <1>9, <2>1, <2>4 DEF Progress, proof
    <2>6. /\ CommandsTyped' /\ GateExclusive'
          /\ \A q \in Peer \ {p} : cmd'[q].pc = "idle"
      BY <2>1, <2>3, MoveEffect
    <2> QED
      BY <2>5, <2>6 DEF CommandEffect
  <1> QED
    BY <1>1, <1>2, <1>3, <1>4, <1>5, <1>6, <1>7, <1>8, <1>9 DEF CommandStep

-----------------------------------------------------------------------------
(* The account database *)

DatabaseTyped ==
    /\ version \in [Uid -> 0 .. MaxVersion]
    /\ tokens \subseteq Proofs /\ issued \in 0 .. MaxToken

\* What a step may do to the database: tokens go away, or one with a new
\* number comes in.
DatabaseEffect ==
    /\ DatabaseTyped' /\ TokensCurrent' /\ issued' \in {issued, issued + 1}
    /\ \A t \in tokens' : t \in tokens \/ t.id = issued + 1

LEMMA DatabaseUnchanged ==
    ASSUME RestTyped, TokensCurrent, UNCHANGED database
    PROVE  DatabaseEffect
  BY DEF RestTyped, TokensCurrent, DatabaseEffect, DatabaseTyped, database

\* Replacing a password supersedes every token of the account.
LEMMA ReplacePasswordEffect ==
    ASSUME RestTyped, TokensCurrent, NEW a \in Proofs, ReplacePassword(a)
    PROVE  DatabaseEffect
  <1>1. a.uid \in Uid /\ a.version \in 0 .. MaxVersion
    BY DEF ReplacePassword, Proofs
  <1>2. a.version + 1 \in 0 .. MaxVersion
    BY <1>1, AccountAssumption DEF ReplacePassword
  <1>3. version' = [version EXCEPT ![a.uid] = a.version + 1]
        /\ tokens' = {t \in tokens : t.uid # a.uid} /\ issued' = issued
    BY DEF ReplacePassword
  <1>4. DatabaseTyped'
    BY <1>2, <1>3 DEF RestTyped, DatabaseTyped
  <1>5. \A t \in tokens' : t \in tokens /\ version'[t.uid] = version[t.uid]
    BY <1>1, <1>3 DEF RestTyped, TokensCurrent
  <1>6. TokensCurrent'
    BY <1>3, <1>5 DEF TokensCurrent
  <1> QED
    BY <1>3, <1>4, <1>5, <1>6 DEF DatabaseEffect

LEMMA RegisterEffect ==
    ASSUME RestTyped, TokensCurrent, NEW u \in Uid, AddAccount(u)
    PROVE  DatabaseEffect
  <1>1. /\ version[u] = 0 /\ version' = [version EXCEPT ![u] = 1]
        /\ tokens' = tokens /\ issued' = issued /\ MaxVersion > 0
    BY DEF AddAccount
  <1>2. 1 \in 0 .. MaxVersion
    BY <1>1, AccountAssumption
  <1>3. DatabaseTyped'
    BY <1>1, <1>2 DEF RestTyped, DatabaseTyped
  <1>4. \A t \in tokens' : t \in tokens /\ version'[t.uid] = version[t.uid]
    BY <1>1 DEF RestTyped, TokensCurrent
  <1>5. TokensCurrent'
    BY <1>1, <1>4 DEF TokensCurrent
  <1> QED
    BY <1>1, <1>3, <1>4, <1>5 DEF DatabaseEffect

LEMMA RevokeEffect ==
    ASSUME RestTyped, TokensCurrent, NEW p \in Peer, Revoke(p) \/ RevokeUncertain(p)
    PROVE  DatabaseEffect
  <1>1. tokens' \subseteq tokens /\ version' = version /\ issued' = issued
    BY DEF Revoke, RevokeUncertain
  <1>2. DatabaseTyped'
    BY <1>1 DEF RestTyped, DatabaseTyped
  <1>3. TokensCurrent'
    BY <1>1 DEF TokensCurrent
  <1> QED
    BY <1>1, <1>2, <1>3 DEF DatabaseEffect

\* Issue leaves the account exactly one token, the newest of all.
LEMMA IssueEffect ==
    ASSUME CommandsTyped, RestTyped, TokensCurrent, ActsForAccount,
           NEW p \in Peer, cmd[p].pc = "issue", Rotate(cmd[p].a, NewProof(p))
    PROVE  /\ DatabaseEffect /\ issued' = issued + 1
           /\ NewProof(p) \in tokens'
  <1> DEFINE a == cmd[p].a
             proof == NewProof(p)
  <1>1. /\ cmd[p].pc = "issue" /\ issued < MaxToken
        /\ a.version = version[a.uid] /\ version' = version
        /\ tokens' = {t \in tokens : t.uid # a.uid} \cup {proof}
        /\ issued' = issued + 1
    BY DEF Rotate
  <1>2. proof \in Proofs /\ proof.id = issued + 1
        /\ proof.uid = a.uid /\ proof.version = a.version
    BY <1>1, IssuedProof
  <1>3. a.uid \in Uid /\ a.version > 0
    BY <1>1 DEF ActsForAccount
  <1> HIDE DEF a, proof
  <1>4. issued \in 0 .. MaxToken /\ issued + 1 \in 0 .. MaxToken
    BY <1>1, AccountAssumption DEF RestTyped
  <1>5. DatabaseTyped'
    BY <1>1, <1>2, <1>4 DEF RestTyped, DatabaseTyped
  <1>6. \A t \in tokens : t.id \in 0 .. MaxToken
    BY DEF RestTyped, Proofs
  <1>7. TokensCurrent'
    <2>1. ASSUME NEW t \in tokens'
          PROVE  /\ t.uid \in Uid /\ t.version > 0
                 /\ t.version = version'[t.uid] /\ t.id =< issued'
      <3>1. CASE t \in tokens
        BY <3>1, <1>1, <1>4, <1>6 DEF TokensCurrent
      <3>2. CASE t = proof
        BY <3>2, <1>1, <1>2, <1>3, <1>4
      <3> QED
        BY <3>1, <3>2, <1>1
    <2>2. ASSUME NEW s \in tokens', NEW t \in tokens', s.uid = t.uid PROVE s = t
      BY <2>2, <1>1, <1>2 DEF TokensCurrent
    <2> QED
      BY <2>1, <2>2 DEF TokensCurrent
  <1>8. \A t \in tokens' : t \in tokens \/ t.id = issued + 1
    BY <1>1, <1>2
  <1>9. proof \in tokens'
    BY <1>1
  <1> QED
    BY <1>1, <1>5, <1>7, <1>8, <1>9 DEF DatabaseEffect, proof

LEMMA DatabaseEffects ==
    ASSUME CommandsTyped, RestTyped, TokensCurrent, ActsForAccount, Next
    PROVE  DatabaseEffect
  <1>1. ASSUME NEW p \in Peer, NEW u \in Uid, Register(p, u) \/ RegisterUncertain(p, u)
        PROVE  DatabaseEffect
    BY <1>1, RegisterEffect DEF Register, RegisterUncertain
  <1>2. ASSUME NEW p \in Peer, ChangePassword(p) \/ ChangePasswordUncertain(p)
        PROVE  DatabaseEffect
    <2>1. cmd[p].previous \in Proofs
      BY DEF CommandsTyped, Commands
    <2>2. ReplacePassword(cmd[p].previous)
      BY <1>2 DEF ChangePassword, ChangePasswordUncertain
    <2> QED
      BY <2>1, <2>2, ReplacePasswordEffect
  <1>3. ASSUME NEW p \in Peer, Revoke(p) \/ RevokeUncertain(p) PROVE DatabaseEffect
    BY <1>3, RevokeEffect
  <1>4. ASSUME NEW p \in Peer, Issue(p) \/ IssueFails(p) PROVE DatabaseEffect
    <2>1. cmd[p].pc = "issue" /\ (UNCHANGED database \/ Rotate(cmd[p].a, NewProof(p)))
      BY <1>4 DEF Issue, IssueFails
    <2> QED
      BY <2>1, IssueEffect, DatabaseUnchanged
  <1>5. ASSUME NEW p \in Peer,
               \/ Admit(p) \/ ConnectionEnds(p) \/ Teardown(p) \/ Kick(p)
               \/ \E action \in Actions : Begin(p, action)
               \/ \E u \in Uid : Password(p, u)
               \/ \E t \in tokens : Token(p, t)
               \/ VerifyFails(p) \/ ClearAccount(p) \/ CheckBan(p)
               \/ Install(p) \/ InstallAborts(p)
        PROVE  DatabaseEffect
    <2>1. UNCHANGED database
      BY <1>5 DEF Admit, ConnectionEnds, Teardown, Kick, Begin, Password, Token,
                  VerifyFails, ClearAccount, CheckBan, Install, InstallAborts
    <2> QED
      BY <2>1, DatabaseUnchanged
  <1>6. ASSUME (\E i \in Bannable : SetBan(i) \/ ObserveBan(i)) \/ SetBanReturns \/ ApplyResources
        PROVE  DatabaseEffect
    <2>1. UNCHANGED database
      BY <1>6 DEF SetBan, ObserveBan, SetBanReturns, ApplyResources
    <2> QED
      BY <2>1, DatabaseUnchanged
  <1> QED
    BY <1>1, <1>2, <1>3, <1>4, <1>5, <1>6 DEF Next, CommandStep

-----------------------------------------------------------------------------
(* The sessions *)

SessionTyped ==
    /\ peers \subseteq Peer
    /\ removed \in [Peer -> BOOLEAN] /\ open \in [Peer -> BOOLEAN]
    /\ account \in [Peer -> Proofs]
    /\ bans \subseteq Bannable
    /\ banning \in BOOLEAN /\ watching \in BOOLEAN
    /\ observed \subseteq Bannable

\* Removal is final, only a peer in the table is removed, nobody joins it.
OnlyRemoves ==
    /\ peers' \subseteq peers
    /\ \A q \in Peer : removed[q] => removed'[q]
    /\ \A q \in Peer : removed'[q] => removed[q] \/ q \in peers

\* Every step but an admission, an installation and a logout.
Quiet == account' = account /\ OnlyRemoves

Others(p) == /\ CommandStep(p) \/ ConnectionEnds(p) \/ Teardown(p) \/ Kick(p)
             /\ ~Install(p) /\ ~ClearAccount(p)

LEMMA QuietPeerSteps ==
    ASSUME RestTyped, NEW p \in Peer, Others(p)
    PROVE  Quiet /\ SessionTyped' /\ UNCHANGED banState
  <1>1. CASE UNCHANGED session /\ UNCHANGED banState
    BY <1>1 DEF Quiet, OnlyRemoves, SessionTyped, RestTyped, session, banState
  <1>2. CASE /\ UNCHANGED <<peers, removed, account, banState>>
             /\ open' \in {open, [open EXCEPT ![p] = FALSE]}
    <2>1. open' \in [Peer -> BOOLEAN]
      BY <1>2, Zenon DEF RestTyped
    <2> QED
      BY <1>2, <2>1 DEF Quiet, OnlyRemoves, SessionTyped, RestTyped, banState
  <1>3. CASE Teardown(p)
    BY <1>3 DEF Teardown, Quiet, OnlyRemoves, SessionTyped, RestTyped, banState
  <1>4. CASE Kick(p)
    <2>1. /\ removed' = [removed EXCEPT ![p] = TRUE] /\ p \in peers
          /\ UNCHANGED <<peers, open, account, banState>>
      BY <1>4 DEF Kick
    <2>2. removed' \in [Peer -> BOOLEAN]
      BY <2>1, Zenon DEF RestTyped
    <2>3. OnlyRemoves
      BY <2>1 DEF OnlyRemoves, RestTyped
    <2> QED
      BY <2>1, <2>2, <2>3 DEF Quiet, SessionTyped, RestTyped, banState
  <1>5. \/ UNCHANGED session /\ UNCHANGED banState
        \/ /\ UNCHANGED <<peers, removed, account, banState>>
           /\ open' \in {open, [open EXCEPT ![p] = FALSE]}
        \/ Teardown(p) \/ Kick(p)
    BY DEF Others, CommandStep, ConnectionEnds, Begin, Register, Password, Token,
           ChangePassword, ChangePasswordUncertain, VerifyFails, Revoke, CheckBan,
           Issue, IssueFails, InstallAborts, FinishClosing, RegisterUncertain,
           RevokeUncertain
  <1> QED
    BY <1>1, <1>2, <1>3, <1>4, <1>5

\* disconnectBanned removes exactly the banned peers.
LEMMA DisconnectEffect ==
    ASSUME RestTyped, DisconnectBanned, UNCHANGED <<peers, account>>
    PROVE  /\ Quiet /\ removed' \in [Peer -> BOOLEAN]
           /\ \A p \in peers : DeviceOf[p] \in bans => removed'[p]
  <1>1. removed' = [p \in Peer |->
          removed[p] \/ (p \in peers /\ {account[p].uid, DeviceOf[p]} \cap bans # {})]
    BY DEF DisconnectBanned
  <1>2. removed' \in [Peer -> BOOLEAN]
    BY <1>1, Zenon DEF RestTyped
  <1>3. OnlyRemoves
    BY <1>1 DEF OnlyRemoves, RestTyped
  <1>4. \A p \in peers : DeviceOf[p] \in bans => removed'[p]
    BY <1>1 DEF RestTyped
  <1> QED
    BY <1>2, <1>3, <1>4 DEF Quiet

LEMMA AdminSteps ==
    ASSUME RestTyped,
           (\E i \in Bannable : SetBan(i) \/ ObserveBan(i)) \/ SetBanReturns \/ ApplyResources
    PROVE  Quiet /\ SessionTyped'
  <1>1. ASSUME NEW i \in Bannable, SetBan(i) \/ ObserveBan(i)
        PROVE  Quiet /\ SessionTyped'
    <2>1. bans' \subseteq Bannable /\ observed' \subseteq Bannable
      BY <1>1 DEF SetBan, ObserveBan, RestTyped
    <2>2. banning' \in BOOLEAN /\ watching' \in BOOLEAN /\ UNCHANGED session
      BY <1>1, Zenon DEF SetBan, ObserveBan, RestTyped
    <2> QED
      BY <2>1, <2>2 DEF Quiet, OnlyRemoves, SessionTyped, RestTyped, session
  <1>2. CASE SetBanReturns \/ ApplyResources
    <2>1. DisconnectBanned /\ UNCHANGED <<peers, account, open, bans>>
          /\ observed' = {}
      BY <1>2 DEF SetBanReturns, ApplyResources
    <2>2. banning' \in BOOLEAN /\ watching' \in BOOLEAN
      BY <1>2, Zenon DEF SetBanReturns, ApplyResources, RestTyped
    <2>3. Quiet /\ removed' \in [Peer -> BOOLEAN]
      BY <2>1, DisconnectEffect
    <2> QED
      BY <2>1, <2>2, <2>3 DEF SessionTyped, RestTyped
  <1> QED
    BY <1>1, <1>2

\* A new connection is a guest.
LEMMA AdmitEffect ==
    ASSUME RestTyped, NEW p \in Peer, Admit(p)
    PROVE  /\ SessionTyped' /\ DeviceOf[p] \notin bans /\ UNCHANGED banState
           /\ peers' = peers \cup {p} /\ account'[p] = NoProof
           /\ \A q \in Peer \ {p} : /\ account'[q] = account[q]
                                    /\ removed'[q] = removed[q]
  <1>1. /\ peers' = peers \cup {p} /\ UNCHANGED banState
        /\ removed' = [removed EXCEPT ![p] = FALSE]
        /\ open' = [open EXCEPT ![p] = TRUE]
        /\ account' = [account EXCEPT ![p] = NoProof]
        /\ DeviceOf[p] \notin bans
    BY DEF Admit
  <1>2. removed' \in [Peer -> BOOLEAN] /\ open' \in [Peer -> BOOLEAN]
    BY <1>1, Zenon DEF RestTyped
  <1>3. account' \in [Peer -> Proofs] /\ account'[p] = NoProof
    BY <1>1, EmptyFacts DEF RestTyped
  <1>4. \A q \in Peer \ {p} : account'[q] = account[q] /\ removed'[q] = removed[q]
    BY <1>1 DEF RestTyped
  <1> QED
    BY <1>1, <1>2, <1>3, <1>4 DEF SessionTyped, RestTyped, banState

LEMMA ClearEffect ==
    ASSUME RestTyped, NEW p \in Peer, ClearAccount(p)
    PROVE  /\ SessionTyped' /\ account'[p] = NoProof
           /\ UNCHANGED <<peers, removed, banState, database>>
           /\ \A q \in Peer \ {p} : account'[q] = account[q]
  BY EmptyFacts DEF ClearAccount, SessionTyped, RestTyped, banState

\* The installed session is the only live one of its account.
LEMMA InstallEffect ==
    ASSUME CommandsTyped, RestTyped, NEW p \in Peer, Install(p)
    PROVE  /\ SessionTyped' /\ OnlyRemoves /\ ~removed[p]
           /\ UNCHANGED <<peers, banState, database>>
           /\ cmd[p].pc = "install" /\ account'[p] = cmd[p].a
           /\ \A q \in Peer \ {p} :
                /\ account'[q] = account[q]
                /\ q \in peers /\ account[q].uid = cmd[p].a.uid => removed'[q]
  <1> DEFINE proof == cmd[p].a
  <1>1. /\ cmd[p].pc = "install" /\ ~removed[p]
        /\ removed' = [q \in Peer |->
             removed[q] \/ (q \in peers \ {p} /\ account[q].uid = proof.uid)]
        /\ account' = [account EXCEPT ![p] = proof]
        /\ UNCHANGED <<peers, open, banState, database>>
    BY DEF Install
  <1>2. proof \in Proofs
    BY DEF CommandsTyped, Commands
  <1> HIDE DEF proof
  <1>3. removed' \in [Peer -> BOOLEAN]
    BY <1>1, Zenon DEF RestTyped
  <1>4. account' \in [Peer -> Proofs] /\ account'[p] = proof
        /\ \A q \in Peer \ {p} : account'[q] = account[q]
    BY <1>1, <1>2 DEF RestTyped
  <1>5. OnlyRemoves
    BY <1>1 DEF OnlyRemoves, RestTyped
  <1>6. \A q \in Peer \ {p} : q \in peers /\ account[q].uid = proof.uid => removed'[q]
    BY <1>1 DEF RestTyped
  <1> QED
    BY <1>1, <1>3, <1>4, <1>5, <1>6 DEF SessionTyped, RestTyped, banState, proof

\* Every step is of one of these kinds.
LEMMA StepKinds ==
    ASSUME Next
    PROVE  \/ \E p \in Peer : Admit(p) \/ ClearAccount(p) \/ Install(p) \/ Others(p)
           \/ (\E i \in Bannable : SetBan(i) \/ ObserveBan(i)) \/ SetBanReturns \/ ApplyResources
  BY DEF Next, Others

-----------------------------------------------------------------------------
(* The invariant is inductive *)

LEMMA TypeStep ==
    ASSUME IInv, Next
    PROVE  RestTyped'
  <1>1. CommandsTyped /\ RestTyped /\ TokensCurrent /\ ActsForAccount
    BY TypeParts DEF IInv, Credentials
  <1>2. DatabaseTyped'
    BY <1>1, DatabaseEffects DEF DatabaseEffect
  <1>3. SessionTyped'
    BY <1>1, StepKinds, AdmitEffect, ClearEffect, InstallEffect, QuietPeerSteps,
       AdminSteps
  <1> QED
    BY <1>2, <1>3 DEF RestTyped, DatabaseTyped, SessionTyped

\* Steps that are not of a command leave the commands alone.
LEMMA CommandsStep ==
    ASSUME IInv, Next
    PROVE  \/ \E p \in Peer : CommandStep(p) /\ CommandEffect(p)
           \/ /\ CommandsTyped' /\ GateExclusive' /\ UNCHANGED <<cmd, database>>
              /\ account' = account \/ \E p \in Peer : Admit(p)
  <1>1. CommandsTyped /\ RestTyped /\ TokensCurrent /\ GateExclusive
    BY TypeParts DEF IInv, Credentials
  <1>2. CASE \E p \in Peer : CommandStep(p)
    BY <1>1, <1>2, CommandEffects
  <1>3. CASE ~ \E p \in Peer : CommandStep(p)
    <2>1. /\ UNCHANGED <<cmd, gate, database>>
          /\ account' = account \/ \E p \in Peer : Admit(p)
      BY <1>3 DEF Next, Admit, ConnectionEnds, Teardown, Kick, SetBan,
                  ObserveBan, SetBanReturns, ApplyResources, session
    <2>2. CommandsTyped' /\ GateExclusive'
      BY <1>1, <2>1 DEF CommandsTyped, GateExclusive
    <2> QED
      BY <2>1, <2>2
  <1> QED
    BY <1>2, <1>3

\* An account's number never runs ahead of the issued ones.
LEMMA AccountsStep ==
    ASSUME IInv, Next
    PROVE  /\ \A q \in Peer : account'[q].id =< issued
           /\ \A q \in Peer : account'[q] # account[q] =>
                 \/ account'[q] = NoProof
                 \/ Install(q) /\ account'[q] = cmd[q].a
  <1>1. CommandsTyped /\ RestTyped /\ AccountsIssued /\ InstallsNewest
    BY TypeParts DEF IInv, Credentials
  <1>2. issued \in Nat /\ 0 =< issued
    BY <1>1, AccountAssumption DEF RestTyped
  <1>3. ASSUME NEW p \in Peer, Admit(p) \/ ClearAccount(p)
        PROVE  account'[p] = NoProof /\ \A q \in Peer \ {p} : account'[q] = account[q]
    BY <1>1, <1>3, AdmitEffect, ClearEffect
  <1>4. ASSUME NEW p \in Peer, Install(p)
        PROVE  /\ account'[p] = cmd[p].a /\ cmd[p].a.id = issued
               /\ \A q \in Peer \ {p} : account'[q] = account[q]
    BY <1>1, <1>4, InstallEffect DEF InstallsNewest
  <1>5. ASSUME \/ \E p \in Peer : Others(p)
               \/ (\E i \in Bannable : SetBan(i) \/ ObserveBan(i)) \/ SetBanReturns \/ ApplyResources
        PROVE  account' = account
    BY <1>1, <1>5, QuietPeerSteps, AdminSteps DEF Quiet
  <1>6. CASE \E p \in Peer : Admit(p) \/ ClearAccount(p)
    BY <1>1, <1>2, <1>3, <1>6, EmptyFacts DEF AccountsIssued
  <1>7. CASE \E p \in Peer : Install(p)
    BY <1>1, <1>2, <1>4, <1>7 DEF AccountsIssued
  <1>8. CASE account' = account
    BY <1>1, <1>8 DEF AccountsIssued
  <1> QED
    BY <1>5, <1>6, <1>7, <1>8, StepKinds

LEMMA CredentialsStep ==
    ASSUME IInv, Next
    PROVE  Credentials' /\ CommandsTyped' /\ GateExclusive'
  <1>1. CommandsTyped /\ RestTyped /\ Credentials
    BY TypeParts DEF IInv
  <1>2. DatabaseEffect
    BY <1>1, DatabaseEffects DEF Credentials
  <1>3. \A q \in Peer : account'[q].id =< issued
    BY AccountsStep
  <1>4. issued \in Nat /\ issued' \in {issued, issued + 1}
    BY <1>1, <1>2, AccountAssumption DEF RestTyped, DatabaseEffect
  <1>5. RestTyped'
    BY TypeStep
  <1>6. \A q \in Peer : account'[q].id \in Nat
    BY <1>5, AccountAssumption DEF RestTyped, Proofs
  <1>7. AccountsIssued'
    BY <1>3, <1>4, <1>6 DEF AccountsIssued
  <1>8. CommandsTyped' /\ GateExclusive' /\ ActsForAccount' /\ InstallsNewest'
    <2>1. ASSUME NEW p \in Peer, CommandStep(p), CommandEffect(p)
          PROVE  CommandsTyped' /\ GateExclusive' /\ ActsForAccount' /\ InstallsNewest'
      <3>1. /\ CommandsTyped' /\ GateExclusive' /\ Progress(p)
            /\ \A q \in Peer \ {p} : cmd'[q].pc = "idle"
        BY <2>1 DEF CommandEffect
      <3>2. cmd'[p].pc = "install" =>
              /\ Issue(p) /\ cmd[p].pc = "issue"
              /\ cmd'[p].a = NewProof(p)
        BY <3>1 DEF Progress
      <3>3. ASSUME cmd'[p].pc = "install"
            PROVE  /\ cmd'[p].a \in tokens' /\ issued' = issued + 1
                   /\ cmd'[p].a.id = issued + 1 /\ cmd'[p].a.uid \in Uid
                   /\ cmd'[p].a.version > 0
        <4>1. /\ Issue(p) /\ cmd[p].pc = "issue" /\ issued < MaxToken
              /\ Rotate(cmd[p].a, NewProof(p)) /\ cmd'[p].a = NewProof(p)
          BY <3>2, <3>3 DEF Issue, Rotate
        <4>2. cmd'[p].a \in tokens' /\ issued' = issued + 1
          BY <1>1, <4>1, IssueEffect DEF Credentials
        <4>3. /\ cmd'[p].a.id = issued + 1 /\ cmd'[p].a.uid = cmd[p].a.uid
              /\ cmd'[p].a.version = cmd[p].a.version
          BY <1>1, <4>1, IssuedProof
        <4>4. cmd[p].a.uid \in Uid /\ cmd[p].a.version > 0
          BY <1>1, <4>1 DEF Credentials, ActsForAccount
        <4> QED
          BY <4>2, <4>3, <4>4
      <3>4. ActsForAccount'
        BY <1>1, <3>1, <3>3 DEF ActsForAccount, Progress, Credentials
      <3>5. InstallsNewest'
        BY <1>3, <1>4, <1>6, <3>1, <3>3 DEF InstallsNewest
      <3> QED
        BY <3>1, <3>4, <3>5
    <2>2. ASSUME CommandsTyped', GateExclusive', UNCHANGED <<cmd, database>>,
                 account' = account \/ \E p \in Peer : Admit(p)
          PROVE  CommandsTyped' /\ GateExclusive' /\ ActsForAccount' /\ InstallsNewest'
      <3>1. ActsForAccount'
        BY <1>1, <2>2 DEF ActsForAccount, Credentials
      <3>2. \A q \in Peer : account'[q] = account[q] \/ account'[q] = NoProof
        BY <1>1, <2>2, AdmitEffect
      <3>3. tokens' = tokens /\ issued' = issued
        BY <2>2 DEF database
      <3>4. \A q \in Peer : account[q].id < issued => account'[q].id < issued
        BY <1>1, <3>2, EmptyFacts, AccountAssumption DEF RestTyped, Proofs
      <3>5. InstallsNewest'
        BY <1>1, <2>2, <3>3, <3>4 DEF InstallsNewest, Credentials
      <3> QED
        BY <2>2, <3>1, <3>5
    <2> QED
      BY <2>1, <2>2, CommandsStep
  <1> QED
    BY <1>2, <1>7, <1>8 DEF Credentials, DatabaseEffect

-----------------------------------------------------------------------------
(* The three session properties *)

\* A session that is live after a quiet step was live before it.
LEMMA QuietLive ==
    ASSUME Quiet, NEW p \in Peer, NEW u \in Uid
    PROVE  (LiveAs(p, u))' => LiveAs(p, u)
  BY DEF Quiet, OnlyRemoves, LiveAs, Live

LEMMA SingleSessionStep ==
    ASSUME IInv, Next
    PROVE  SingleSession'
  <1>1. CommandsTyped /\ RestTyped /\ SingleSession /\ RestTyped'
    BY TypeParts, TypeStep DEF IInv
  <1>2. CASE Quiet
    BY <1>1, <1>2, QuietLive DEF SingleSession
  <1>3. ASSUME NEW r \in Peer, Admit(r) \/ ClearAccount(r) PROVE SingleSession'
    <2>1. /\ account'[r] = NoProof /\ NoProof.uid \notin Uid
          /\ \A q \in Peer \ {r} : /\ account'[q] = account[q]
                                   /\ removed'[q] = removed[q]
                                   /\ q \in peers' => q \in peers
      BY <1>1, <1>3, AdmitEffect, ClearEffect, EmptyFacts
    <2>2. \A p \in Peer : \A u \in Uid : (LiveAs(p, u))' => p # r /\ LiveAs(p, u)
      BY <2>1 DEF LiveAs, Live
    <2> QED
      BY <1>1, <2>2 DEF SingleSession
  <1>4. ASSUME NEW r \in Peer, Install(r) PROVE SingleSession'
    <2>1. /\ account'[r] = cmd[r].a /\ peers' = peers /\ OnlyRemoves
          /\ \A q \in Peer \ {r} :
               /\ account'[q] = account[q]
               /\ q \in peers /\ account[q].uid = cmd[r].a.uid => removed'[q]
      BY <1>1, <1>4, InstallEffect
    <2>2. \A q \in Peer \ {r} : \A u \in Uid :
            (LiveAs(q, u))' => LiveAs(q, u) /\ u # cmd[r].a.uid
      BY <2>1 DEF LiveAs, Live, OnlyRemoves
    <2>3. \A u \in Uid : (LiveAs(r, u))' => u = cmd[r].a.uid
      BY <2>1 DEF LiveAs, Live
    <2> QED
      BY <1>1, <2>2, <2>3 DEF SingleSession
  <1> QED
    BY <1>1, <1>2, <1>3, <1>4, StepKinds, QuietPeerSteps, AdminSteps

\* With current tokens, valid means stored.
LEMMA ValidStored ==
    ASSUME TokensCurrent, NEW t
    PROVE  Valid(t) <=> t \in tokens
  BY DEF Valid, TokensCurrent

LEMMA DisplacedStep ==
    ASSUME IInv, Next
    PROVE  DisplacedCannotReturn'
  <1>1. /\ CommandsTyped /\ RestTyped /\ Credentials
        /\ SingleSession /\ DisplacedCannotReturn /\ RestTyped'
    BY TypeParts, TypeStep DEF IInv
  <1>2. TokensCurrent /\ TokensCurrent' /\ AccountsIssued /\ InstallsNewest
    BY <1>1, CredentialsStep DEF Credentials
  <1>3. \A t \in tokens' : t \in tokens \/ t.id = issued + 1
    BY <1>1, DatabaseEffects DEF Credentials, DatabaseEffect
  <1>4. \A q \in Peer : account[q] \in tokens' => account[q] \in tokens
    BY <1>1, <1>2, <1>3, AccountAssumption DEF AccountsIssued, RestTyped, Proofs
  <1>5. \A t : Valid(t) <=> t \in tokens
    BY <1>2, ValidStored
  <1>6. \A t : (t \in tokens') <=> (t \in tokens' /\ t.version = version'[t.uid])
    BY <1>2 DEF TokensCurrent
  <1>7. SUFFICES ASSUME NEW p \in Peer, NEW q \in Peer, NEW u \in Uid,
                        (LiveAs(p, u))', removed'[q], account'[q].uid = u,
                        account'[q] \in tokens'
                 PROVE  FALSE
    BY <1>6 DEF DisplacedCannotReturn, Valid
  <1>8. ASSUME LiveAs(p, u), account'[q] = account[q], removed[q] PROVE FALSE
    <2>1. account[q] \in tokens /\ account[q].uid = u
      BY <1>4, <1>7, <1>8
    <2>2. ~Valid(account[q])
      BY <1>1, <1>8, <2>1 DEF DisplacedCannotReturn
    <2> QED
      BY <1>5, <2>1, <2>2
  <1>9. CASE Quiet
    <2>1. LiveAs(p, u) /\ account'[q] = account[q]
      BY <1>7, <1>9, QuietLive DEF Quiet
    <2>2. CASE ~removed[q]
      <3>1. q \in peers
        BY <1>7, <1>9, <2>2 DEF Quiet, OnlyRemoves
      <3>2. LiveAs(q, u)
        BY <1>7, <2>1, <2>2, <3>1 DEF LiveAs, Live
      <3>3. p = q
        BY <1>1, <2>1, <3>2 DEF SingleSession
      <3> QED
        BY <1>7, <3>3 DEF LiveAs, Live
    <2> QED
      BY <1>8, <2>1, <2>2
  <1>10. ASSUME NEW r \in Peer, Admit(r) \/ ClearAccount(r) PROVE FALSE
    <2>1. /\ account'[r] = NoProof /\ NoProof.uid \notin Uid
          /\ \A s \in Peer \ {r} : /\ account'[s] = account[s]
                                   /\ removed'[s] = removed[s]
                                   /\ s \in peers' => s \in peers
      BY <1>1, <1>10, AdmitEffect, ClearEffect, EmptyFacts
    <2>2. p # r /\ q # r
      BY <1>7, <2>1 DEF LiveAs
    <2> QED
      BY <1>7, <1>8, <2>1, <2>2 DEF LiveAs, Live
  <1>11. ASSUME NEW r \in Peer, Install(r) PROVE FALSE
    <2>1. /\ account'[r] = cmd[r].a /\ peers' = peers /\ OnlyRemoves /\ ~removed[r]
          /\ cmd[r].pc = "install" /\ UNCHANGED database
          /\ \A s \in Peer \ {r} :
               /\ account'[s] = account[s]
               /\ s \in peers /\ account[s].uid = cmd[r].a.uid => removed'[s]
      BY <1>1, <1>11, InstallEffect
    <2>2. /\ cmd[r].a \in tokens /\ cmd[r].a.id = issued
          /\ \A s \in Peer : account[s].id < issued
      BY <1>2, <2>1 DEF InstallsNewest
    <2>3. tokens' = tokens
      BY <2>1 DEF database
    <2>4. q # r
      <3>1. SUFFICES ASSUME q = r PROVE FALSE
        OBVIOUS
      <3>2. removed'[r] /\ ~removed[r]
        BY <1>7, <2>1, <3>1
      <3>3. removed' = [s \in Peer |->
              removed[s] \/ (s \in peers \ {r} /\ account[s].uid = cmd[r].a.uid)]
        BY <1>11 DEF Install
      <3> QED
        BY <3>2, <3>3
    <2>5. account[q] \in tokens /\ account[q].uid = u /\ account'[q] = account[q]
      BY <1>7, <2>1, <2>3, <2>4
    <2>6. CASE p = r
      <3>1. account[q].uid = cmd[r].a.uid
        BY <1>7, <2>1, <2>5, <2>6 DEF LiveAs
      <3>2. account[q] = cmd[r].a
        BY <1>2, <2>2, <2>5, <3>1 DEF TokensCurrent
      <3> QED
        BY <1>1, <2>2, <3>2, AccountAssumption DEF RestTyped, Proofs
    <2>7. CASE p # r
      <3>1. LiveAs(p, u) /\ u # cmd[r].a.uid
        BY <1>7, <2>1, <2>7 DEF LiveAs, Live, OnlyRemoves
      <3>2. CASE ~removed[q]
        <4>1. q \in peers
          BY <1>7, <2>1, <3>2 DEF OnlyRemoves
        <4>2. LiveAs(q, u)
          BY <2>5, <3>2, <4>1 DEF LiveAs, Live
        <4>3. p = q
          BY <1>1, <3>1, <4>2 DEF SingleSession
        <4> QED
          BY <1>7, <4>3 DEF LiveAs, Live
      <3> QED
        BY <1>8, <2>5, <3>1, <3>2
    <2> QED
      BY <2>6, <2>7
  <1> QED
    BY <1>1, <1>9, <1>10, <1>11, StepKinds, QuietPeerSteps, AdminSteps

LEMMA BannedDeviceStep ==
    ASSUME IInv, Next
    PROVE  BannedDeviceCutOff'
  <1>1. CommandsTyped /\ RestTyped /\ BannedDeviceCutOff
    BY TypeParts DEF IInv
  <1>2. ASSUME NEW r \in Peer, Admit(r) PROVE BannedDeviceCutOff'
    BY <1>1, <1>2, AdmitEffect DEF BannedDeviceCutOff, Live, banState
  <1>3. ASSUME NEW r \in Peer, ClearAccount(r) \/ Install(r) \/ Others(r)
        PROVE  BannedDeviceCutOff'
    <2>1. OnlyRemoves /\ UNCHANGED banState
      BY <1>1, <1>3, ClearEffect, InstallEffect, QuietPeerSteps DEF Quiet, OnlyRemoves
    <2> QED
      BY <1>1, <2>1 DEF BannedDeviceCutOff, Live, OnlyRemoves, banState
  <1>4. ASSUME NEW i \in Bannable, SetBan(i) PROVE BannedDeviceCutOff'
    BY <1>4 DEF SetBan, BannedDeviceCutOff
  <1>6. ASSUME NEW i \in Bannable, ObserveBan(i) PROVE BannedDeviceCutOff'
    <2>1. /\ UNCHANGED <<peers, removed, banning>> /\ watching'
          /\ observed' = observed \cup {i} /\ bans' \subseteq bans \cup {i}
      BY <1>6 DEF ObserveBan, session
    <2> QED
      BY <1>1, <2>1 DEF BannedDeviceCutOff, Live
  <1>5. CASE SetBanReturns \/ ApplyResources
    <2>1. DisconnectBanned /\ UNCHANGED <<peers, account, bans>>
      BY <1>5 DEF SetBanReturns, ApplyResources
    <2>2. \A p \in peers : DeviceOf[p] \in bans => removed'[p]
      BY <1>1, <2>1, DisconnectEffect
    <2> QED
      BY <2>1, <2>2 DEF BannedDeviceCutOff, Live
  <1> QED
    BY <1>2, <1>3, <1>4, <1>5, <1>6, StepKinds

LEMMA NextIInv == IInv /\ [Next]_vars => IInv'
  <1> SUFFICES ASSUME IInv, [Next]_vars PROVE IInv'
    OBVIOUS
  <1>1. CASE Next
    <2>1. TypeOK <=> CommandsTyped /\ RestTyped
      BY TypeParts
    <2>2. TypeOK' <=> CommandsTyped' /\ RestTyped'
      BY DEF TypeOK, CommandsTyped, RestTyped
    <2> QED
      BY <1>1, <2>2, TypeStep, CredentialsStep, SingleSessionStep, DisplacedStep,
         BannedDeviceStep DEF IInv
  <1>2. CASE UNCHANGED vars
    BY <1>2 DEF IInv, vars, session, database, banState, TypeOK, GateExclusive,
       Credentials, TokensCurrent, ActsForAccount, InstallsNewest, AccountsIssued,
       SingleSession, DisplacedCannotReturn, BannedDeviceCutOff, LiveAs, Live, Valid
  <1> QED
    BY <1>1, <1>2

\* The inductive invariant holds in every reachable state.
THEOREM SpecIInv == Spec => []IInv
  BY InitIInv, NextIInv, PTL DEF Spec

\* Variables keep their types and a connection holds the account gate exactly
\* while it runs an account command.
THEOREM TypeCorrect == Spec => []TypeOK
  <1>1. IInv => TypeOK
    BY DEF IInv
  <1> QED
    BY <1>1, SpecIInv, PTL

\* No account is ever live on two connections.
THEOREM OneSessionPerAccount == Spec => []SingleSession
  <1>1. IInv => SingleSession
    BY DEF IInv
  <1> QED
    BY <1>1, SpecIInv, PTL

\* Nothing invalidates a credential between its issue and its installation.
THEOREM InstalledCredentialIsValid == Spec => []IssuedStillValid
  <1>1. IInv => IssuedStillValid
    BY ValidStored DEF IInv, Credentials, InstallsNewest, IssuedStillValid
  <1> QED
    BY <1>1, SpecIInv, PTL

\* A displaced device cannot recover its session and displace the new one.
THEOREM DisplacedStaysOut == Spec => []DisplacedCannotReturn
  <1>1. IInv => DisplacedCannotReturn
    BY DEF IInv
  <1> QED
    BY <1>1, SpecIInv, PTL

\* A banned device is live only until SetBan returns.
THEOREM BannedDeviceIsCutOff == Spec => []BannedDeviceCutOff
  <1>1. IInv => BannedDeviceCutOff
    BY DEF IInv
  <1> QED
    BY <1>1, SpecIInv, PTL
=============================================================================

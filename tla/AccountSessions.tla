--------------------------- MODULE AccountSessions ---------------------------
(***************************************************************************)
(* Voice sessions of server-local accounts: accountCommand                 *)
(* (internal/server/accounts.go) run by each connection's command loop,    *)
(* the account database (internal/accounts/store.go), admission and        *)
(* teardown of connections (server.go), bans and kicks (admin_members.go). *)
(*                                                                         *)
(* A command is several steps, because only the account gate is held       *)
(* across it: the SQL work, the ban check and the installation under       *)
(* Server.mu are separate, and a connection may be closed, kicked, banned  *)
(* or lost between any two of them.  Names, passwords, nicknames, channel  *)
(* effects, rate limits and token expiry are abstracted away.              *)
(***************************************************************************)
EXTENDS Integers, FiniteSets

CONSTANTS Peer,        \* connections
          Uid,         \* accounts that may be registered
          Device,      \* device identities
          DeviceOf,    \* the device key each connection authenticated with
          Bannable,    \* the identities administrators ban in this instance
          NoUid,       \* principal() of a guest
          MaxVersion,  \* bound: password changes of an account
          MaxToken     \* bound: recovery tokens issued

ASSUME AccountAssumption ==
    /\ DeviceOf \in [Peer -> Device]
    /\ Bannable \subseteq Uid \cup Device
    /\ NoUid \notin Uid \cup Device
    /\ MaxVersion \in Nat /\ MaxToken \in Nat

VARIABLES peers,     \* s.peers: admitted and not torn down
          removed,   \* peer.removed
          open,      \* peer.conn.Context() is not done
          account,   \* peer.account, a Proof
          cmd,       \* where each connection's accountCommand stands
          gate,      \* holders of s.accountGate, a channel of capacity 1
          version,   \* accounts table: password version, 0 = no such account
          tokens,    \* tokens table
          issued,    \* token ids drawn so far
          bans,      \* r.Bans
          banning,   \* a SetBan is between its commit and disconnectBanned
          watching,  \* the informer has not applied the last commit yet
          observed   \* ban changes cached by a command that is no SetBan

session == <<peers, removed, open, account>>
database == <<version, tokens, issued>>
banState == <<bans, banning, watching, observed>>
vars == <<session, cmd, gate, database, banState>>

Actions == {"register", "password", "token", "change_password", "logout"}

Proofs == [uid : Uid \cup {NoUid}, version : 0 .. MaxVersion, id : 0 .. MaxToken]

NoProof == [uid |-> NoUid, version |-> 0, id |-> 0]

\* pc is the next step of the command; a is the account it acts for, with the
\* issued token's id once there is one.
Commands ==
    [pc : {"idle", "verify", "clear", "check", "issue", "install"},
     action : Actions, previous : Proofs, a : Proofs]

NoCommand ==
    [pc |-> "idle", action |-> "password", previous |-> NoProof, a |-> NoProof]

Init ==
    /\ peers = {}
    /\ removed = [p \in Peer |-> FALSE]
    /\ open = [p \in Peer |-> FALSE]
    /\ account = [p \in Peer |-> NoProof]
    /\ cmd = [p \in Peer |-> NoCommand]
    /\ gate = {}
    /\ version = [u \in Uid |-> 0]
    /\ tokens = {} /\ issued = 0
    /\ bans = {} /\ banning = FALSE /\ watching = FALSE /\ observed = {}

-----------------------------------------------------------------------------
(* Admission and the end of a connection *)

\* The ban check and the insertion share one section of s.mu.
Admit(p) ==
    /\ p \notin peers
    /\ DeviceOf[p] \notin bans
    /\ peers' = peers \cup {p}
    /\ removed' = [removed EXCEPT ![p] = FALSE]
    /\ open' = [open EXCEPT ![p] = TRUE]
    /\ account' = [account EXCEPT ![p] = NoProof]
    /\ UNCHANGED <<cmd, gate, database, banState>>

\* The network fails, the client leaves, or a removed peer's connection is
\* closed by whoever removed it after releasing s.mu.
ConnectionEnds(p) ==
    /\ p \in peers /\ open[p]
    /\ open' = [open EXCEPT ![p] = FALSE]
    /\ UNCHANGED <<peers, removed, account, cmd, gate, database, banState>>

\* The command loop's deferred teardown.
Teardown(p) ==
    /\ p \in peers /\ ~open[p] /\ cmd[p].pc = "idle"
    /\ peers' = peers \ {p}
    /\ UNCHANGED <<removed, open, account, cmd, gate, database, banState>>

-----------------------------------------------------------------------------
(* Account commands *)

Step(p, pc) == cmd' = [cmd EXCEPT ![p].pc = pc]

\* The command returns and its deferred receive releases the gate.
Finish(p) ==
    /\ cmd' = [cmd EXCEPT ![p] = NoCommand]
    /\ gate' = gate \ {p}

\* Return false: the command loop ends and its deferred close runs.
FinishClosing(p) ==
    /\ Finish(p)
    /\ open' = [open EXCEPT ![p] = FALSE]

\* The account the command acts for is known: go on to the ban check.
Verified(p, u, v) ==
    cmd' = [cmd EXCEPT ![p].pc = "check",
                       ![p].a = [uid |-> u, version |-> v, id |-> 0]]

\* Slip: the gate is not tried and commands run side by side.
BeginUngated(p, action) ==
    /\ p \in peers /\ ~removed[p] /\ cmd[p].pc = "idle"
    /\ gate' = gate \cup {p}
    /\ cmd' = [cmd EXCEPT ![p] = [NoCommand EXCEPT !.pc = "verify",
                                                   !.action = action,
                                                   !.previous = account[p]]]
    /\ UNCHANGED <<session, database, banState>>

\* A removed peer, or a busy gate, only gets an answer.
Begin(p, action) ==
    /\ p \in peers /\ ~removed[p] /\ cmd[p].pc = "idle"
    /\ gate = {}
    /\ gate' = gate \cup {p}
    /\ cmd' = [cmd EXCEPT ![p] = [NoCommand EXCEPT !.pc = "verify",
                                                   !.action = action,
                                                   !.previous = account[p]]]
    /\ UNCHANGED <<session, database, banState>>

\* The command waits for its first SQL step; its context is the connection's.
Verifying(p, action) ==
    cmd[p].pc = "verify" /\ cmd[p].action = action /\ open[p]

\* Store.Register
AddAccount(u) ==
    /\ version[u] = 0 /\ MaxVersion > 0
    /\ version' = [version EXCEPT ![u] = 1]
    /\ UNCHANGED <<tokens, issued>>

Register(p, u) ==
    /\ Verifying(p, "register")
    /\ cmd[p].previous.uid = NoUid
    /\ AddAccount(u)
    /\ Verified(p, u, 1)
    /\ UNCHANGED <<session, gate, banState>>

\* Committed, but reported as failed: an error reply.
RegisterUncertain(p, u) ==
    /\ Verifying(p, "register")
    /\ cmd[p].previous.uid = NoUid
    /\ AddAccount(u)
    /\ Finish(p)
    /\ UNCHANGED <<session, banState>>

Password(p, u) ==
    /\ Verifying(p, "password")
    /\ version[u] # 0
    /\ Verified(p, u, version[u])
    /\ UNCHANGED <<session, gate, database, banState>>

Token(p, t) ==
    /\ Verifying(p, "token")
    /\ t.version = version[t.uid]
    /\ Verified(p, t.uid, t.version)
    /\ UNCHANGED <<session, gate, database, banState>>

\* Store.Valid
Valid(proof) ==
    /\ proof \in tokens
    /\ proof.version = version[proof.uid]

\* The compare-and-set of the password version deletes every token.
ReplacePassword(a) ==
    /\ a.uid # NoUid
    /\ a.version = version[a.uid] /\ a.version < MaxVersion
    /\ version' = [version EXCEPT ![a.uid] = a.version + 1]
    /\ tokens' = {t \in tokens : t.uid # a.uid}
    /\ issued' = issued

ChangePassword(p) ==
    LET previous == cmd[p].previous IN
    /\ Verifying(p, "change_password")
    /\ ReplacePassword(previous)
    /\ Verified(p, previous.uid, previous.version + 1)
    /\ UNCHANGED <<session, gate, banState>>

\* The change is committed but reported as failed: the previous credential is
\* no longer valid, so the connection is closed.
ChangePasswordUncertain(p) ==
    /\ Verifying(p, "change_password")
    /\ ReplacePassword(cmd[p].previous)
    /\ FinishClosing(p)
    /\ UNCHANGED <<peers, removed, account, banState>>

\* Wrong credentials, a database error or a finished connection: an error
\* reply and the session goes on, unless a failed change_password finds the
\* session's credential invalid or cannot tell.
VerifyFails(p) ==
    /\ cmd[p].pc = "verify"
    /\ \/ /\ cmd[p].action # "change_password" \/ Valid(cmd[p].previous)
          /\ Finish(p) /\ open' = open
       \/ cmd[p].action = "change_password" /\ FinishClosing(p)
    /\ UNCHANGED <<peers, removed, account, database, banState>>

Revoke(p) ==
    /\ Verifying(p, "logout")
    /\ tokens' = tokens \ {cmd[p].previous}
    /\ Step(p, "clear")
    /\ UNCHANGED <<session, gate, version, issued, banState>>

\* The token is gone, but the session stays that of the account.
RevokeUncertain(p) ==
    /\ Verifying(p, "logout")
    /\ tokens' = tokens \ {cmd[p].previous}
    /\ Finish(p)
    /\ UNCHANGED <<session, version, issued, banState>>

\* The second half of logout, under s.mu: the connection goes on as a guest.
ClearAccount(p) ==
    /\ cmd[p].pc = "clear"
    /\ account' = [account EXCEPT ![p] = NoProof]
    /\ Finish(p)
    /\ UNCHANGED <<peers, removed, open, database, banState>>

\* The ban check holds no lock that a SetBan needs.
CheckBan(p) ==
    /\ cmd[p].pc = "check"
    /\ IF {cmd[p].a.uid, DeviceOf[p]} \cap bans # {}
       THEN Finish(p)
       ELSE Step(p, "issue") /\ gate' = gate
    /\ UNCHANGED <<session, database, banState>>

\* Slip: the old token is not deleted.
IssueAddsToken(p) ==
    LET proof == [cmd[p].a EXCEPT !.id = issued + 1] IN
    /\ cmd[p].pc = "issue" /\ open[p] /\ issued < MaxToken
    /\ proof.version = version[proof.uid]
    /\ tokens' = tokens \cup {proof}
    /\ issued' = issued + 1
    /\ cmd' = [cmd EXCEPT ![p].pc = "install", ![p].a = proof]
    /\ UNCHANGED <<session, gate, version, banState>>

NewProof(p) == [cmd[p].a EXCEPT !.id = issued + 1]

\* Store.Issue rotates the account's only token in one transaction.
Rotate(a, proof) ==
    /\ issued < MaxToken
    /\ a.version = version[a.uid]
    /\ tokens' = {t \in tokens : t.uid # a.uid} \cup {proof}
    /\ issued' = issued + 1
    /\ version' = version

Issue(p) ==
    /\ cmd[p].pc = "issue" /\ open[p]
    /\ Rotate(cmd[p].a, NewProof(p))
    /\ cmd' = [cmd EXCEPT ![p].pc = "install", ![p].a = NewProof(p)]
    /\ UNCHANGED <<session, gate, banState>>

\* An error, after which the token may have been rotated all the same: a
\* changed password ends the session, any other login only gets an error reply.
IssueFails(p) ==
    /\ cmd[p].pc = "issue"
    /\ UNCHANGED database \/ (open[p] /\ Rotate(cmd[p].a, NewProof(p)))
    /\ IF cmd[p].action = "change_password"
       THEN FinishClosing(p)
       ELSE Finish(p) /\ open' = open
    /\ UNCHANGED <<peers, removed, account, banState>>

\* Slip: other sessions are recognised by their proof, not by their principal.
InstallMatchesProof(p) ==
    LET proof == cmd[p].a IN
    /\ cmd[p].pc = "install" /\ ~removed[p] /\ open[p]
    /\ removed' = [q \in Peer |->
           removed[q] \/ (q \in peers \ {p} /\ account[q] = proof)]
    /\ account' = [account EXCEPT ![p] = proof]
    /\ Finish(p)
    /\ UNCHANGED <<peers, open, database, banState>>

\* Other live sessions of the account lose their authority in the same section
\* of s.mu that publishes the new one.
Install(p) ==
    LET proof == cmd[p].a IN
    /\ cmd[p].pc = "install" /\ ~removed[p] /\ open[p]
    /\ removed' = [q \in Peer |->
           removed[q] \/ (q \in peers \ {p} /\ account[q].uid = proof.uid)]
    /\ account' = [account EXCEPT ![p] = proof]
    /\ Finish(p)
    /\ UNCHANGED <<peers, open, database, banState>>

InstallAborts(p) ==
    /\ cmd[p].pc = "install" /\ (removed[p] \/ ~open[p])
    /\ FinishClosing(p)
    /\ UNCHANGED <<peers, removed, account, database, banState>>

-----------------------------------------------------------------------------
(* Administration *)

\* SetBan holds channelMu until disconnectBanned has run.
SetBan(identity) ==
    /\ ~banning
    /\ bans' \in {bans \cup {identity}, bans \ {identity}}
    /\ banning' = TRUE /\ watching' = TRUE
    /\ UNCHANGED <<session, cmd, gate, database, observed>>

\* A SetBan whose commit was reported as failed, or another writer's, reaches
\* the cache through the next update of any resource, which disconnects nobody.
ObserveBan(identity) ==
    /\ bans' \in {bans \cup {identity}, bans \ {identity}}
    /\ observed' = observed \cup {identity}
    /\ watching' = TRUE
    /\ UNCHANGED <<session, cmd, gate, database, banning>>

\* Slip: only the principal is looked up among the bans.
DisconnectBannedAccounts ==
    removed' = [p \in Peer |->
        removed[p] \/ (p \in peers /\ account[p].uid \in bans)]

DisconnectBanned ==
    removed' = [p \in Peer |->
        removed[p] \/ (p \in peers /\ {account[p].uid, DeviceOf[p]} \cap bans # {})]

SetBanReturns ==
    /\ banning /\ DisconnectBanned
    /\ banning' = FALSE /\ observed' = {}
    /\ UNCHANGED <<peers, open, account, cmd, gate, database, bans, watching>>

\* applyResources also ends with disconnectBanned, under channelMu.
ApplyResources ==
    /\ watching /\ ~banning /\ DisconnectBanned
    /\ watching' = FALSE /\ observed' = {}
    /\ UNCHANGED <<peers, open, account, cmd, gate, database, bans, banning>>

Kick(p) ==
    /\ ~banning
    /\ p \in peers /\ ~removed[p]
    /\ removed' = [removed EXCEPT ![p] = TRUE]
    /\ UNCHANGED <<peers, open, account, cmd, gate, database, banState>>

-----------------------------------------------------------------------------
CommandStep(p) ==
    \/ \E action \in Actions : Begin(p, action)
    \/ \E u \in Uid : Register(p, u) \/ RegisterUncertain(p, u) \/ Password(p, u)
    \/ \E t \in tokens : Token(p, t)
    \/ ChangePassword(p) \/ ChangePasswordUncertain(p) \/ VerifyFails(p)
    \/ Revoke(p) \/ RevokeUncertain(p) \/ ClearAccount(p)
    \/ CheckBan(p)
    \/ Issue(p) \/ IssueFails(p)
    \/ Install(p) \/ InstallAborts(p)

Next ==
    \/ \E p \in Peer :
         \/ Admit(p) \/ ConnectionEnds(p) \/ Teardown(p)
         \/ CommandStep(p)
         \/ Kick(p)
    \/ \E identity \in Bannable : SetBan(identity) \/ ObserveBan(identity)
    \/ SetBanReturns
    \/ ApplyResources

Spec == Init /\ [][Next]_vars

-----------------------------------------------------------------------------
(* Properties *)

\* Every variable has its type, and the connections running an account command
\* are exactly the ones holding the gate.
TypeOK ==
    /\ peers \subseteq Peer
    /\ removed \in [Peer -> BOOLEAN] /\ open \in [Peer -> BOOLEAN]
    /\ account \in [Peer -> Proofs]
    /\ cmd \in [Peer -> Commands]
    /\ gate = {p \in Peer : cmd[p].pc # "idle"}
    /\ version \in [Uid -> 0 .. MaxVersion]
    /\ tokens \subseteq Proofs /\ issued \in 0 .. MaxToken
    /\ bans \subseteq Bannable
    /\ banning \in BOOLEAN /\ watching \in BOOLEAN
    /\ observed \subseteq Bannable

\* A session with voice and control authority.
Live(p) == p \in peers /\ ~removed[p]

LiveAs(p, u) == Live(p) /\ account[p].uid = u

\* An account is never live on two connections at once, whatever logins,
\* kicks and disconnections are in progress.
SingleSession ==
    \A p, q \in Peer : \A u \in Uid : LiveAs(p, u) /\ LiveAs(q, u) => p = q

\* From Issue to the installation under s.mu nothing invalidates the new
\* credential: no session is published with a superseded password version or
\* with a recovery token that is already gone.
IssuedStillValid ==
    \A p \in Peer : cmd[p].pc = "install" => Valid(cmd[p].a)

\* Once another connection is live as an account, a device it displaced holds
\* no credential with which to reconnect and displace it in turn, even if that
\* device never saw the close.
DisplacedCannotReturn ==
    \A p, q \in Peer : \A u \in Uid :
        LiveAs(p, u) /\ removed[q] /\ account[q].uid = u => ~Valid(account[q])

\* A banned device is never live once SetBan has returned, whichever of the
\* ban and the device's admission came first; a ban that only reached the cache
\* is still to be enforced by the informer.
BannedDeviceCutOff ==
    \A p \in Peer : Live(p) /\ DeviceOf[p] \in bans =>
        banning \/ (DeviceOf[p] \in observed /\ watching)

\* A banned account is never live once SetBan has returned and the informer
\* has applied the change.
BannedAccountCutOff ==
    \A p \in Peer : Live(p) /\ account[p].uid \in bans => banning \/ watching

=============================================================================

------------------------------ MODULE Lifecycle ------------------------------
(***************************************************************************)
(* The client's connection lifecycle (lifecycle.rs).  One Runner owns the  *)
(* session and serializes connecting, disconnecting and recovery; a Plan   *)
(* is the task that dials, signs in and restores, with retries.  They      *)
(* share a cancellation token, a Notify that ends a wait early, a bounded  *)
(* progress channel, and the result of the task.                           *)
(*                                                                         *)
(* Tokens, passwords, profiles, messages and the contents of a session are *)
(* left out; each answer of the server is a choice.  Every attempt after   *)
(* the third is alike, so the attempt counter stops at Slow.               *)
(***************************************************************************)
EXTENDS Integers, Sequences

CONSTANTS Pool,           \* bound: sessions that exist at one time
          ControlSlots,   \* Handle.control: 8 in the code
          ProgressSlots,  \* Runner.progress: 8 in the code
          MaxEvents       \* bound: requests of the user and connections lost

ASSUME LifecycleAssumption ==
    /\ 0 \notin Pool /\ Pool # {}
    /\ {ControlSlots, ProgressSlots} \subseteq Nat \ {0} /\ MaxEvents \in Nat

VARIABLES state,     \* Runner.state
          shown,     \* the State last published
          runner,    \* where Runner.run is, what it waits for and does next
          session,   \* Runner.session, 0 = None
          job,       \* Runner.job: the Plan, its task's place and result
          control,   \* requests not yet taken
          progress,  \* Progress not yet taken
          sessions,  \* every session: its Plan's generation and how it fares
          closing,   \* Client.close was called, or the Client dropped
          events     \* history: for the bound

vars == <<state, shown, runner, session, job, control, progress, sessions, closing, events>>

Slow == 4

NoJob == [at |-> "none", gen |-> 0, recover |-> FALSE, attempt |-> 0, s |-> 0,
          wake |-> "off", cancelled |-> FALSE, then |-> "none"]

Free == [gen |-> 0, st |-> "free"]

Offline == [gen |-> 0, mode |-> "offline", id |-> 0, attempt |-> 0, waiting |-> FALSE, conn |-> 0]

Selecting == [at |-> "select", wait |-> 0, next |-> "none"]

Init ==
    /\ state = Offline /\ shown = Offline /\ runner = Selecting /\ session = 0
    /\ job = NoJob /\ control = <<>> /\ progress = <<>>
    /\ sessions = [s \in Pool |-> Free] /\ closing = FALSE /\ events = 0

\* Session.close up to its await: a driver that has ended already is done.
Closed(s) ==
    IF s = 0 THEN sessions
    ELSE [sessions EXCEPT ![s] = IF @.st = "open" THEN [@ EXCEPT !.st = "cancelled"] ELSE Free]

IsClosed(s) == s \in {0} \cup {t \in Pool : sessions[t].st = "free"}

-----------------------------------------------------------------------------
(* The Plan *)

\* Slip: the wait is registered when it begins.
AttemptingLate(j, n) ==
    [j EXCEPT !.attempt = n, !.s = 0, !.then = "none", !.wake = "off",
              !.at = IF j.recover \/ n > 1 THEN "announce" ELSE "dial"]

\* The top of its loop.  The wait for the user's retry is registered before
\* the wait is announced.
Attempting(j, n) ==
    LET waits == j.recover \/ n > 1 IN
    [j EXCEPT !.attempt = n, !.s = 0, !.then = "none",
              !.at = IF waits THEN "announce" ELSE "dial",
              !.wake = IF waits THEN "on" ELSE "off"]

NextAttempt(j) == Attempting(j, IF j.attempt < Slow THEN j.attempt + 1 ELSE Slow)

Ends(j) == [j EXCEPT !.at = "err", !.s = 0, !.wake = "off", !.then = "none"]

PlanStep(j) == job' = j /\ UNCHANGED <<state, shown, runner, session, control, closing, events>>

\* Trust and the saved account: either may be missing.
PlanStarts ==
    /\ job.at = "start"
    /\ PlanStep(Ends(job)) \/ (~job.cancelled /\ PlanStep(Attempting(job, 1)))
    /\ UNCHANGED <<progress, sessions>>

\* Slip: a cancelled plan still waits for room in the channel.
AnnouncesDeaf ==
    /\ job.at \in {"announce", "dial"} /\ Len(progress) < ProgressSlots
    /\ PlanStep([job EXCEPT !.at = IF job.at = "dial" THEN "connect" ELSE "announced"])
    /\ progress' = Append(progress, [gen |-> job.gen, attempt |-> job.attempt,
                                     waiting |-> job.at = "announce"])
    /\ UNCHANGED sessions

\* Plan.progress: cancellation comes first.
Announces ==
    /\ job.at \in {"announce", "dial"}
    /\ IF job.cancelled THEN PlanStep(Ends(job)) /\ UNCHANGED progress
       ELSE /\ Len(progress) < ProgressSlots
            /\ PlanStep([job EXCEPT !.at = IF job.at = "dial" THEN "connect" ELSE "announced"])
            /\ progress' = Append(progress, [gen |-> job.gen, attempt |-> job.attempt,
                                             waiting |-> job.at = "announce"])
    /\ UNCHANGED sessions

\* The pause, ended by cancellation, by the user or by its timer.
Sleeps ==
    /\ job.at = "announced"
    /\ PlanStep([job EXCEPT !.at = "waiting", !.wake = IF @ = "off" THEN "on" ELSE @])
    /\ UNCHANGED <<progress, sessions>>

\* Slip: the pause has no timer.
WakesIfAsked ==
    /\ job.at = "waiting" /\ (job.cancelled \/ job.wake = "notified")
    /\ PlanStep(IF job.cancelled THEN Ends(job) ELSE [job EXCEPT !.at = "dial", !.wake = "off"])
    /\ UNCHANGED <<progress, sessions>>

Wakes ==
    /\ job.at = "waiting"
    /\ PlanStep(IF job.cancelled THEN Ends(job) ELSE [job EXCEPT !.at = "dial", !.wake = "off"])
    /\ UNCHANGED <<progress, sessions>>

Connects(s) ==
    /\ job.at = "connect" /\ sessions[s] = Free
    /\ PlanStep([job EXCEPT !.at = "account", !.s = s])
    /\ sessions' = [sessions EXCEPT ![s] = [gen |-> job.gen, st |-> "open"]]
    /\ UNCHANGED progress

\* A refusal or the cancellation ends the plan; a transient error is retried,
\* by a first connection at most twice.
ConnectFails ==
    /\ job.at = "connect"
    /\ \/ PlanStep(Ends(job))
       \/ ~job.cancelled /\ (job.recover \/ job.attempt < 3) /\ PlanStep(NextAttempt(job))
    /\ UNCHANGED <<progress, sessions>>

\* session.close().await, before another attempt or the end.
ClosesFirst(then) ==
    /\ PlanStep([job EXCEPT !.at = "close", !.then = then])
    /\ sessions' = Closed(job.s)

\* Signed in, or nobody to sign in; then, when recovering, back in the
\* channel, or refused it, and deafened as before.
SetUp ==
    /\ job.at \in {"account", "restore"}
    /\ IF job.at = "account" /\ job.recover
       THEN PlanStep([job EXCEPT !.at = "restore"]) /\ UNCHANGED sessions
       ELSE IF job.cancelled THEN ClosesFirst("err")
       ELSE PlanStep([job EXCEPT !.at = "ok"]) /\ UNCHANGED sessions
    /\ UNCHANGED progress

\* A transient error or a busy server: the loop goes on, whatever the attempt.
SetUpFails ==
    /\ job.at \in {"account", "restore"}
    /\ ClosesFirst("err") \/ (~job.cancelled /\ ClosesFirst("again"))
    /\ UNCHANGED progress

\* The expired sign-in cannot be erased from the keychain: the session is not
\* closed but dropped, which cancels it.
SetUpDrops ==
    /\ job.at = "account"
    /\ PlanStep(Ends(job)) /\ sessions' = Closed(job.s)
    /\ UNCHANGED progress

SetUpClosed ==
    /\ job.at = "close" /\ IsClosed(job.s)
    /\ PlanStep(IF job.then = "again" THEN NextAttempt(job) ELSE Ends(job))
    /\ UNCHANGED <<progress, sessions>>

\* The task panics, in any of its steps: what it holds is dropped with it.
PlanPanics ==
    /\ job.at \notin {"none", "ok", "err"} /\ PlanStep(Ends(job))
    /\ sessions' = IF job.at = "close" THEN sessions ELSE Closed(job.s)
    /\ UNCHANGED progress

Plan ==
    \/ PlanStarts \/ Announces \/ Sleeps \/ Wakes \/ ConnectFails
    \/ \E s \in Pool : Connects(s)
    \/ SetUp \/ SetUpFails \/ SetUpDrops \/ SetUpClosed

-----------------------------------------------------------------------------
(* The Runner *)

Publish(st) == state' = st /\ shown' = st

\* Runner.begin.  Random session IDs never repeat: a generation has two of
\* its own, one for the request and one for its session.
Begin(recover, id) ==
    /\ job' = [NoJob EXCEPT !.at = "start", !.gen = state.gen + 1, !.recover = recover]
    /\ Publish([Offline EXCEPT !.gen = state.gen + 1, !.id = id,
                               !.mode = IF recover THEN "reconnecting" ELSE "connecting"])

\* Runner.fail
Fail == Publish([state EXCEPT !.mode = "failed", !.waiting = FALSE, !.conn = 0])

\* Runner.retire begins, for what is done after it.
Retire(next, st) ==
    /\ runner' = [Selecting EXCEPT !.at = "retire", !.next = next]
    /\ state' = [st EXCEPT !.conn = 0]
    /\ job' = [job EXCEPT !.cancelled = job.at # "none"]
    /\ UNCHANGED <<session, sessions>>

Select == runner.at = "select"

Takes(kind) == Select /\ control # <<>> /\ Head(control).kind = kind /\ control' = Tail(control)

TakeConnect ==
    /\ Takes("connect") /\ Retire("connect", state)
    /\ UNCHANGED <<shown, progress, closing, events>>

\* The user is shown to be offline before anything is closed.
TakeDisconnect ==
    LET st == [Offline EXCEPT !.gen = state.gen + 1] IN
    /\ Takes("disconnect") /\ Retire("answer", st) /\ shown' = st
    /\ UNCHANGED <<progress, closing, events>>

\* notify_waiters reaches only a wait that is registered, and leaves no permit.
TakeRetry ==
    LET heard == Head(control).id = state.id /\ job.at # "none"
                 /\ state.mode = "reconnecting" /\ state.waiting IN
    /\ Takes("retry")
    /\ job' = IF heard /\ job.wake = "on" THEN [job EXCEPT !.wake = "notified"] ELSE job
    /\ UNCHANGED <<state, shown, runner, session, sessions, progress, closing, events>>

\* The job is done: its session is the Runner's, unless it has no identifier
\* for it.
Establishes ==
    /\ Select /\ job.at = "ok" /\ job' = NoJob
    /\ \/ /\ session' = job.s /\ UNCHANGED <<sessions, runner>>
          /\ Publish([state EXCEPT !.mode = "connected", !.id = 2 * state.gen + 1, !.attempt = 0,
                                   !.waiting = FALSE, !.conn = job.s])
       \/ /\ sessions' = Closed(job.s) /\ UNCHANGED <<session, state, shown>>
          /\ runner' = [at |-> "closed", wait |-> job.s, next |-> "fail"]
    /\ UNCHANGED <<control, progress, closing, events>>

JobFails ==
    /\ Select /\ job.at = "err" /\ job' = NoJob /\ Fail
    /\ UNCHANGED <<runner, session, sessions, control, progress, closing, events>>

\* Slip: whatever the plan of this generation says is shown.
TakeProgressLate ==
    LET p == Head(progress) IN
    /\ Select /\ progress # <<>> /\ progress' = Tail(progress)
    /\ IF p.gen = state.gen
       THEN Publish([state EXCEPT !.attempt = p.attempt, !.waiting = p.waiting])
       ELSE UNCHANGED <<state, shown>>
    /\ UNCHANGED <<runner, session, job, sessions, control, closing, events>>

TakeProgress ==
    LET p == Head(progress) IN
    /\ Select /\ progress # <<>> /\ progress' = Tail(progress)
    /\ IF p.gen = state.gen /\ job.at # "none"
       THEN Publish([state EXCEPT !.attempt = p.attempt, !.waiting = p.waiting])
       ELSE UNCHANGED <<state, shown>>
    /\ UNCHANGED <<runner, session, job, sessions, control, closing, events>>

\* The session ended.  The receiver was made with it: an end before it was
\* taken over is seen as well.  One that ended without a word is recovered
\* even while the client is closing.
Loses ==
    /\ Select /\ session # 0
    /\ \/ sessions[session].st = "lost" /\ Retire(IF closing THEN "fail" ELSE "recover", state)
       \/ sessions[session].st = "refused" /\ Retire("fail", state)
       \/ sessions[session].st = "gone" /\ Retire("recover", state)
    /\ UNCHANGED <<shown, control, progress, closing, events>>

Breaks ==
    /\ Select /\ closing /\ Retire("end", state)
    /\ UNCHANGED <<shown, control, progress, closing, events>>

\* Slip: the plan is abandoned, not awaited.
RetireJobDetached ==
    /\ runner.at = "retire" /\ job' = NoJob
    /\ runner' = [runner EXCEPT !.at = "close"]
    /\ UNCHANGED <<state, shown, session, sessions, control, progress, closing, events>>

\* job.await, and the close of the session it may have won.
RetireJob ==
    /\ runner.at = "retire" /\ job.at \in {"none", "ok", "err"} /\ job' = NoJob
    /\ sessions' = Closed(job.s)
    /\ runner' = [runner EXCEPT !.at = "close", !.wait = job.s]
    /\ UNCHANGED <<state, shown, session, control, progress, closing, events>>

RetireSession ==
    /\ runner.at = "close" /\ IsClosed(runner.wait)
    /\ sessions' = Closed(session) /\ session' = 0
    /\ runner' = [runner EXCEPT !.at = "closed", !.wait = session]
    /\ UNCHANGED <<state, shown, job, control, progress, closing, events>>

\* What the retirement was for.
Retired ==
    /\ runner.at = "closed" /\ IsClosed(runner.wait)
    /\ runner' = IF runner.next = "end" THEN [Selecting EXCEPT !.at = "ended"] ELSE Selecting
    /\ \/ runner.next = "connect" /\ Begin(FALSE, 2 * state.gen + 2)
       \/ runner.next = "connect" /\ Fail /\ UNCHANGED job
       \/ runner.next = "recover" /\ Begin(TRUE, state.id)
       \/ runner.next = "fail" /\ Fail /\ UNCHANGED job
       \/ runner.next \in {"answer", "end"} /\ UNCHANGED <<state, shown, job>>
    /\ UNCHANGED <<session, sessions, control, progress, closing, events>>

Taking == TakeConnect \/ TakeDisconnect \/ TakeRetry

Retiring == RetireJob \/ RetireSession \/ Retired

-----------------------------------------------------------------------------
(* The user and the network *)

Event == events < MaxEvents /\ events' = events + 1

Ask(kind) ==
    /\ ~closing /\ Len(control) < ControlSlots
    /\ control' = Append(control, [kind |-> kind, id |-> shown.id])
    /\ UNCHANGED <<state, shown, runner, session, job, progress, sessions, closing>>

Close ==
    /\ ~closing /\ closing' = TRUE
    /\ UNCHANGED <<state, shown, runner, session, job, control, progress, sessions>>

\* A connection is lost, or ended by the server for good, or its task is gone
\* without having said how it ended.
Drops(s) ==
    /\ sessions[s].st = "open"
    /\ \E st \in {"lost", "refused", "gone"} : sessions' = [sessions EXCEPT ![s].st = st]
    /\ UNCHANGED <<state, shown, runner, session, job, control, progress, closing>>

\* The task of a cancelled session ends.
Finishes(s) ==
    /\ sessions[s].st = "cancelled"
    /\ sessions' = [sessions EXCEPT ![s] = Free]
    /\ UNCHANGED <<state, shown, runner, session, job, control, progress, closing, events>>

Next ==
    \/ Plan \/ PlanPanics \/ Retiring
    \/ Taking \/ Establishes \/ JobFails \/ TakeProgress \/ Loses \/ Breaks
    \/ \E s \in Pool : Finishes(s) \/ (Event /\ Drops(s))
    \/ Event /\ (Close \/ \E kind \in {"connect", "disconnect", "retry"} : Ask(kind))

Spec == Init /\ [][Next]_vars

\* Tasks run, timers fire and answers or their deadlines come; select! is
\* random, so an arm that is ready again and again is taken.
FairSpec ==
    /\ Spec /\ WF_vars(Plan) /\ WF_vars(Retiring) /\ WF_vars(TakeProgress)
    /\ WF_vars(Establishes \/ JobFails) /\ WF_vars(Loses) /\ SF_vars(Taking) /\ SF_vars(Breaks)
    /\ \A s \in Pool : WF_vars(Finishes(s))

-----------------------------------------------------------------------------
(* Properties *)

\* Every variable has its type.
TypeOK ==
    /\ \A st \in {state, shown} :
           /\ st.gen \in 0 .. MaxEvents /\ st.conn \in Pool \cup {0} /\ st.id \in 0 .. 2 * MaxEvents + 2
           /\ st.mode \in {"offline", "connecting", "connected", "reconnecting", "failed"}
           /\ st.attempt \in 0 .. Slow /\ st.waiting \in BOOLEAN
    /\ runner.at \in {"select", "retire", "close", "closed", "ended"}
    /\ runner.wait \in Pool \cup {0} /\ session \in Pool \cup {0} /\ job.s \in Pool \cup {0}
    /\ Len(control) <= ControlSlots /\ Len(progress) <= ProgressSlots
    /\ \A s \in Pool : sessions[s].st \in {"free", "open", "lost", "refused", "gone", "cancelled"}

\* No session outlives its owner, however a cancellation races the plan: an
\* open one is the plan's or the Runner's, and there is at most one of them;
\* the Runner's select, which forwards voice and offers the connection, sees
\* only a session of the generation it announces.
SessionsOwned ==
    /\ \A s \in Pool : sessions[s].st \in {"open", "lost", "refused", "gone"} =>
           (s = job.s) # (s = session)
    /\ \A s, t \in Pool : sessions[s].st = "open" /\ sessions[t].st = "open" => s = t
    /\ session # 0 /\ Select => sessions[session].gen = state.gen

\* What the user is shown, whenever the Runner waits: the connection it owns,
\* and a connection neither as waiting nor with attempts, although reports of
\* the plan arrive after its result.
ShownIsCurrent ==
    Select => /\ shown = state /\ shown.conn = session
              /\ (shown.mode = "connected") = (session # 0)
              /\ shown.mode = "connected" => ~shown.waiting /\ shown.attempt = 0
              /\ shown.mode \in {"offline", "failed"} => job = NoJob

\* While the user is shown to be waiting for this very attempt, asking for a
\* retry ends the wait: the plan can be notified, or is past the wait.
WaitCanBeEnded ==
    Select /\ state.waiting /\ state.attempt = job.attempt /\ job.at \in {"announced", "waiting"} =>
        job.wake # "off"

\* Every request is taken: disconnecting and closing end, although the plan
\* may be waiting for room in a channel that only the Runner empties.
RequestsServed ==
    /\ control # <<>> ~> control = <<>> \/ runner.at = "ended"
    /\ closing ~> runner.at = "ended"

\* Until the client is closed: a lost connection is not shown as connected for
\* good, and a first connection ends, unless its signing in fails in a transient
\* way again and again.
ConnectionSettles ==
    \/ <>(runner.at = "ended")
    \/ /\ <>[](state.mode = "connected" => session # 0 /\ sessions[session].st = "open")
       /\ <>[](state.mode # "connecting") \/ []<>(job.then = "again")
=============================================================================

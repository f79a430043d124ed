--------------------------- MODULE LifecycleProofs ---------------------------
(***************************************************************************)
(* Proofs about the client's connection lifecycle, for any number of       *)
(* sessions, requests and lost connections and any size of its channels.   *)
(***************************************************************************)
EXTENDS Lifecycle, TLAPS

States == [gen : Nat, mode : {"offline", "connecting", "connected", "reconnecting", "failed"},
           id : Nat, attempt : 0 .. Slow, waiting : BOOLEAN, conn : Pool \cup {0}]

Runners == [at : {"select", "retire", "close", "closed", "ended"}, wait : Pool \cup {0},
            next : {"none", "connect", "answer", "recover", "fail", "end"}]

Jobs == [at : {"none", "start", "announce", "dial", "announced", "waiting", "connect",
               "account", "restore", "close", "ok", "err"},
         gen : Nat, recover : BOOLEAN, attempt : 0 .. Slow, s : Pool \cup {0},
         wake : {"off", "on", "notified"}, cancelled : BOOLEAN,
         then : {"none", "err", "again"}]

Reports == [gen : Nat, attempt : 0 .. Slow, waiting : BOOLEAN]

Requests == [kind : {"connect", "disconnect", "retry"}, id : Nat]

Sessions == [gen : Nat, st : {"free", "open", "lost", "refused", "gone", "cancelled"}]

Live == {"open", "lost", "refused", "gone"}

Typed ==
    /\ state \in States /\ shown \in States /\ runner \in Runners /\ job \in Jobs
    /\ session \in Pool \cup {0}
    /\ control \in Seq(Requests) /\ progress \in Seq(Reports)
    /\ sessions \in [Pool -> Sessions]

(* The plan holds a session from its connect to its end or its close, of   *)
(* its own generation and not yet closed; without a plan there is none.    *)
JobInv ==
    /\ job.at = "none" => job = NoJob
    /\ job.s # 0 <=> job.at \in {"account", "restore", "close", "ok"}
    /\ job.at \in {"account", "restore", "ok"} =>
           sessions[job.s].st \in Live /\ sessions[job.s].gen = job.gen
    /\ job.at = "close" => sessions[job.s].st \notin Live

(* The wait for the user's retry is registered before it is announced.     *)
WakeInv == job.at \in {"announce", "announced", "waiting"} => job.wake # "off"

(* There is a plan or a session, never both; the Runner loses both on its  *)
(* way through a retirement; every session that is not closed is held.     *)
OwnerInv ==
    /\ job.at # "none" => session = 0
    /\ runner.at \in {"close", "closed", "ended"} => job.at = "none"
    /\ runner.at \in {"closed", "ended"} => session = 0
    /\ session # 0 => sessions[session].st \in Live
    /\ \A s \in Pool : sessions[s].st \in Live => s = job.s \/ s = session

(* While it selects, the Runner's plan and session are of its generation.  *)
GenInv ==
    Select => /\ job.at # "none" => job.gen = state.gen
              /\ session # 0 => sessions[session].gen = state.gen

(* What is published, while the Runner selects and while it retires for a  *)
(* disconnect, which is shown before it is done.                           *)
ShownInv ==
    /\ Select => /\ shown = state /\ state.conn = session
                 /\ session # 0 <=> state.mode = "connected"
                 /\ state.mode = "connected" => ~state.waiting /\ state.attempt = 0
                 /\ state.mode \in {"offline", "failed"} => job.at = "none"
    /\ ~Select /\ runner.next = "answer" =>
                 shown = state /\ state.conn = 0 /\ state.mode = "offline"
    /\ runner.at \in {"retire", "close", "closed"} => runner.next # "none"

Inv == Typed /\ JobInv /\ WakeInv /\ OwnerInv /\ GenInv /\ ShownInv
LEMMA InitInv == Init => Inv
<1> SUFFICES ASSUME Init PROVE Inv
  OBVIOUS
<1> USE LifecycleAssumption
    DEF Init, Offline, NoJob, Selecting, Free, Slow, Select, Live
<1>1. <<>> \in Seq(Requests) /\ <<>> \in Seq(Reports)
  OBVIOUS
<1>2. Typed
  BY <1>1 DEF Typed, States, Runners, Jobs, Sessions
<1>3. JobInv /\ WakeInv
  BY DEF JobInv, WakeInv
<1>4. OwnerInv
  BY DEF OwnerInv
<1>5. GenInv /\ ShownInv
  BY DEF GenInv, ShownInv
<1> QED
  BY <1>2, <1>3, <1>4, <1>5 DEF Inv

-----------------------------------------------------------------------------
(* Facts about the operators the model is built from.                      *)

LEMMA OfflineFacts ==
    ASSUME NEW g \in Nat
    PROVE  /\ [Offline EXCEPT !.gen = g] \in States
           /\ [Offline EXCEPT !.gen = g].conn = 0
           /\ [Offline EXCEPT !.gen = g].mode = "offline"
<1>1. Offline \in States /\ Offline.conn = 0 /\ Offline.mode = "offline"
  BY DEF Offline, States, Slow
<1> HIDE DEF Offline
<1> QED
  BY <1>1 DEF States

(* Session.close leaves no session live and touches no other.              *)
LEMMA ClosedFacts ==
    ASSUME Typed, NEW s \in Pool \cup {0}
    PROVE  /\ Closed(s) \in [Pool -> Sessions]
           /\ \A t \in Pool : t # s => Closed(s)[t] = sessions[t]
           /\ s # 0 => Closed(s)[s].st \notin Live
<1> USE LifecycleAssumption DEF Typed, Sessions, Live
<1>1. CASE s = 0
  BY <1>1 DEF Closed
<1>2. CASE s # 0
  <2> DEFINE n == IF sessions[s].st = "open" THEN [sessions[s] EXCEPT !.st = "cancelled"] ELSE Free
  <2>1. Closed(s) = [sessions EXCEPT ![s] = n]
    BY <1>2 DEF Closed
  <2>2. n \in Sessions /\ n.st \notin Live
    BY <1>2 DEF Free
  <2> HIDE DEF n
  <2> QED
    BY <1>2, <2>1, <2>2
<1> QED
  BY <1>1, <1>2

(* The top of the loop: a plan without a session that is about to dial or, *)
(* with its wait registered, to announce the wait.                         *)
LEMMA AttemptingFacts ==
    ASSUME NEW j \in Jobs, NEW n \in 0 .. Slow
    PROVE  /\ Attempting(j, n) \in Jobs
           /\ Attempting(j, n).s = 0 /\ Attempting(j, n).gen = j.gen
           /\ Attempting(j, n).at \in {"announce", "dial"}
           /\ Attempting(j, n).at = "announce" => Attempting(j, n).wake = "on"
<1>1. CASE j.recover \/ n > 1
  <2>1. Attempting(j, n) = [j EXCEPT !.attempt = n, !.s = 0, !.then = "none",
                                     !.at = "announce", !.wake = "on"]
    BY <1>1 DEF Attempting
  <2> QED
    BY <2>1 DEF Jobs
<1>2. CASE ~(j.recover \/ n > 1)
  <2>1. Attempting(j, n) = [j EXCEPT !.attempt = n, !.s = 0, !.then = "none",
                                     !.at = "dial", !.wake = "off"]
    BY <1>2 DEF Attempting
  <2> QED
    BY <2>1 DEF Jobs
<1> QED
  BY <1>1, <1>2

LEMMA NextAttemptFacts ==
    ASSUME NEW j \in Jobs
    PROVE  /\ NextAttempt(j) \in Jobs
           /\ NextAttempt(j).s = 0 /\ NextAttempt(j).gen = j.gen
           /\ NextAttempt(j).at \in {"announce", "dial"}
           /\ NextAttempt(j).at = "announce" => NextAttempt(j).wake = "on"
<1> DEFINE n == IF j.attempt < Slow THEN j.attempt + 1 ELSE Slow
<1>1. n \in 0 .. Slow
  BY DEF Jobs, Slow
<1>2. NextAttempt(j) = Attempting(j, n)
  BY DEF NextAttempt
<1> HIDE DEF n
<1> QED
  BY <1>1, <1>2, AttemptingFacts

LEMMA EndsFacts ==
    ASSUME NEW j \in Jobs
    PROVE  Ends(j) \in Jobs /\ Ends(j).s = 0 /\ Ends(j).gen = j.gen /\ Ends(j).at = "err"
BY DEF Ends, Jobs

-----------------------------------------------------------------------------
(* The plan's steps.                                                       *)

(* What a step of the plan has to keep for the invariant to hold after it. *)
LEMMA PlanKeeps ==
    ASSUME Inv, job.at # "none", PlanStep(job'), job' \in Jobs,
           job'.at # "none", job'.gen = job.gen,
           progress' \in Seq(Reports), sessions' \in [Pool -> Sessions],
           JobInv', WakeInv', \A s \in Pool : sessions'[s].st \in Live => s = job'.s
    PROVE  Inv'
<1> USE DEF Inv, PlanStep
<1>1. Typed'
  BY DEF Typed
<1>2. OwnerInv'
  BY DEF OwnerInv
<1>3. GenInv'
  BY DEF GenInv, OwnerInv, Select
<1>4. ShownInv'
  BY DEF ShownInv, Select
<1> QED
  BY <1>1, <1>2, <1>3, <1>4

(* A plan without a session that stays without one.                        *)
LEMMA PlanWithout ==
    ASSUME Inv, job.at # "none", job.s = 0, PlanStep(job'), job' \in Jobs,
           job'.s = 0, job'.gen = job.gen,
           job'.at \in {"announce", "dial", "announced", "waiting", "connect", "err"},
           job'.at \in {"announce", "announced", "waiting"} => job'.wake # "off",
           progress' \in Seq(Reports), sessions' = sessions
    PROVE  Inv'
<1>1. JobInv' /\ WakeInv'
  BY DEF JobInv, WakeInv
<1>2. sessions' \in [Pool -> Sessions]
  BY DEF Inv, Typed
<1>3. \A s \in Pool : sessions'[s].st \in Live => s = job'.s
  BY DEF Inv, OwnerInv
<1>4. job'.at # "none"
  OBVIOUS
<1> QED
  BY <1>1, <1>2, <1>3, <1>4, PlanKeeps

LEMMA PlanStartsInv == ASSUME Inv, PlanStarts PROVE Inv'
<1>1. job \in Jobs /\ job.at = "start" /\ job.s = 0 /\ 1 \in 0 .. Slow
  BY DEF Inv, Typed, JobInv, PlanStarts, Slow
<1>2. progress' \in Seq(Reports) /\ sessions' = sessions
  BY DEF PlanStarts, Inv, Typed
<1>3. CASE PlanStep(Ends(job))
  <2>1. job' = Ends(job) /\ PlanStep(job')
    BY <1>3 DEF PlanStep
  <2> QED
    BY <1>1, <1>2, <2>1, EndsFacts, PlanWithout
<1>4. CASE PlanStep(Attempting(job, 1))
  <2>1. job' = Attempting(job, 1) /\ PlanStep(job')
    BY <1>4 DEF PlanStep
  <2> QED
    BY <1>1, <1>2, <2>1, AttemptingFacts, PlanWithout
<1> QED
  BY <1>3, <1>4 DEF PlanStarts

LEMMA AnnouncesInv == ASSUME Inv, Announces PROVE Inv'
<1>1. /\ job \in Jobs /\ job.at \in {"announce", "dial"} /\ job.s = 0
      /\ progress \in Seq(Reports) /\ sessions' = sessions
      /\ job.at = "announce" => job.wake # "off"
  BY DEF Inv, Typed, JobInv, WakeInv, Announces
<1>2. CASE job.cancelled
  <2>1. job' = Ends(job) /\ PlanStep(job') /\ progress' = progress
    BY <1>2 DEF PlanStep, Announces
  <2> QED
    BY <1>1, <2>1, EndsFacts, PlanWithout
<1>3. CASE ~job.cancelled
  <2> DEFINE at == IF job.at = "dial" THEN "connect" ELSE "announced"
             r == [gen |-> job.gen, attempt |-> job.attempt, waiting |-> job.at = "announce"]
  <2>1. /\ job' = [job EXCEPT !.at = at] /\ PlanStep(job')
        /\ progress' = Append(progress, r)
    BY <1>3 DEF PlanStep, Announces
  <2>2. r \in Reports
    BY <1>1 DEF Jobs, Reports
  <2>3. progress' \in Seq(Reports)
    BY <1>1, <2>1, <2>2
  <2>4. job' \in Jobs /\ job'.s = 0 /\ job'.gen = job.gen /\ job'.wake = job.wake
        /\ job'.at = IF job.at = "dial" THEN "connect" ELSE "announced"
    BY <1>1, <2>1 DEF Jobs
  <2> QED
    BY <1>1, <2>1, <2>3, <2>4, PlanWithout
<1> QED
  BY <1>2, <1>3

LEMMA SleepsInv == ASSUME Inv, Sleeps PROVE Inv'
<1>1. /\ job \in Jobs /\ job.at = "announced" /\ job.s = 0 /\ job.wake # "off"
      /\ progress' \in Seq(Reports) /\ sessions' = sessions
  BY DEF Inv, Typed, JobInv, WakeInv, Sleeps
<1>2. /\ job' = [job EXCEPT !.at = "waiting", !.wake = IF @ = "off" THEN "on" ELSE @]
      /\ PlanStep(job')
  BY DEF Sleeps, PlanStep
<1>3. /\ job' \in Jobs /\ job'.s = 0 /\ job'.gen = job.gen
      /\ job'.at = "waiting" /\ job'.wake # "off"
  BY <1>1, <1>2 DEF Jobs
<1> QED
  BY <1>1, <1>2, <1>3, PlanWithout

LEMMA WakesInv == ASSUME Inv, Wakes PROVE Inv'
<1>1. /\ job \in Jobs /\ job.at = "waiting" /\ job.s = 0
      /\ progress' \in Seq(Reports) /\ sessions' = sessions
  BY DEF Inv, Typed, JobInv, Wakes
<1>2. CASE job.cancelled
  <2>1. job' = Ends(job) /\ PlanStep(job')
    BY <1>2 DEF Wakes, PlanStep
  <2> QED
    BY <1>1, <2>1, EndsFacts, PlanWithout
<1>3. CASE ~job.cancelled
  <2>1. job' = [job EXCEPT !.at = "dial", !.wake = "off"] /\ PlanStep(job')
    BY <1>3 DEF Wakes, PlanStep
  <2>2. job' \in Jobs /\ job'.s = 0 /\ job'.gen = job.gen /\ job'.at = "dial"
    BY <1>1, <2>1 DEF Jobs
  <2> QED
    BY <1>1, <2>1, <2>2, PlanWithout
<1> QED
  BY <1>2, <1>3

LEMMA ConnectFailsInv == ASSUME Inv, ConnectFails PROVE Inv'
<1>1. /\ job \in Jobs /\ job.at = "connect" /\ job.s = 0
      /\ progress' \in Seq(Reports) /\ sessions' = sessions
  BY DEF Inv, Typed, JobInv, ConnectFails
<1>2. CASE PlanStep(Ends(job))
  <2>1. job' = Ends(job) /\ PlanStep(job')
    BY <1>2 DEF PlanStep
  <2> QED
    BY <1>1, <2>1, EndsFacts, PlanWithout
<1>3. CASE PlanStep(NextAttempt(job))
  <2>1. job' = NextAttempt(job) /\ PlanStep(job')
    BY <1>3 DEF PlanStep
  <2> QED
    BY <1>1, <2>1, NextAttemptFacts, PlanWithout
<1> QED
  BY <1>2, <1>3 DEF ConnectFails
LEMMA ConnectsInv == ASSUME Inv, NEW s \in Pool, Connects(s) PROVE Inv'
<1>1. /\ job \in Jobs /\ job.at = "connect" /\ job.s = 0 /\ session = 0
      /\ progress' \in Seq(Reports) /\ s # 0
      /\ sessions \in [Pool -> Sessions]
      /\ \A t \in Pool : sessions[t].st \notin Live
  BY LifecycleAssumption DEF Inv, Typed, JobInv, OwnerInv, Connects
<1>2. /\ job' = [job EXCEPT !.at = "account", !.s = s] /\ PlanStep(job')
      /\ sessions' = [sessions EXCEPT ![s] = [gen |-> job.gen, st |-> "open"]]
  BY DEF Connects, PlanStep
<1>3. job' \in Jobs /\ job'.s = s /\ job'.gen = job.gen /\ job'.at = "account"
  BY <1>1, <1>2 DEF Jobs
<1>4. /\ sessions' \in [Pool -> Sessions]
      /\ sessions'[s].st = "open" /\ sessions'[s].gen = job.gen
      /\ \A t \in Pool : t # s => sessions'[t] = sessions[t]
  BY <1>1, <1>2 DEF Jobs, Sessions
<1>5. JobInv' /\ WakeInv'
  BY <1>1, <1>3, <1>4 DEF JobInv, WakeInv, Live
<1>6. \A t \in Pool : sessions'[t].st \in Live => t = job'.s
  BY <1>1, <1>3, <1>4
<1> QED
  BY <1>1, <1>2, <1>3, <1>4, <1>5, <1>6, PlanKeeps

(* A plan with a session and the Runner without one: no other is live.     *)
LEMMA PlanHolds ==
    ASSUME Inv, job.at \in {"account", "restore", "close", "ok"}
    PROVE  /\ job \in Jobs /\ job.s \in Pool /\ job.s # 0 /\ session = 0
           /\ sessions \in [Pool -> Sessions] /\ progress \in Seq(Reports)
           /\ \A t \in Pool : sessions[t].st \in Live => t = job.s
BY LifecycleAssumption DEF Inv, Typed, Jobs, JobInv, OwnerInv

LEMMA ClosesFirstInv ==
    ASSUME Inv, job.at \in {"account", "restore"}, NEW then \in {"err", "again"},
           ClosesFirst(then), progress' = progress
    PROVE  Inv'
<1>1. /\ job' = [job EXCEPT !.at = "close", !.then = then] /\ PlanStep(job')
      /\ sessions' = Closed(job.s)
  BY DEF ClosesFirst, PlanStep
<1>2. job' \in Jobs /\ job'.s = job.s /\ job'.gen = job.gen /\ job'.at = "close"
  BY <1>1, PlanHolds DEF Jobs
<1>3. /\ sessions' \in [Pool -> Sessions] /\ sessions'[job.s].st \notin Live
      /\ \A t \in Pool : t # job.s => sessions'[t] = sessions[t]
  BY <1>1, PlanHolds, ClosedFacts DEF Inv
<1>4. JobInv' /\ WakeInv'
  BY <1>2, <1>3, PlanHolds DEF JobInv, WakeInv
<1>5. \A t \in Pool : sessions'[t].st \in Live => t = job'.s
  BY <1>2, <1>3, PlanHolds
<1> QED
  BY <1>1, <1>2, <1>3, <1>4, <1>5, PlanHolds, PlanKeeps

(* A plan that moves on with the session it has.                           *)
LEMMA PlanWith ==
    ASSUME Inv, job.at \in {"account", "restore"}, NEW at \in {"restore", "ok"},
           PlanStep([job EXCEPT !.at = at]), UNCHANGED <<progress, sessions>>
    PROVE  Inv'
<1>1. job' = [job EXCEPT !.at = at] /\ PlanStep(job')
  BY DEF PlanStep
<1>2. job' \in Jobs /\ job'.s = job.s /\ job'.gen = job.gen /\ job'.at = at
  BY <1>1, PlanHolds DEF Jobs
<1>3. JobInv' /\ WakeInv'
  BY <1>2, PlanHolds DEF Inv, JobInv, WakeInv
<1> QED
  BY <1>1, <1>2, <1>3, PlanHolds, PlanKeeps

LEMMA SetUpInv == ASSUME Inv, SetUp \/ SetUpFails PROVE Inv'
<1>1. CASE SetUp
  <2>1. CASE job.at = "account" /\ job.recover
    BY <1>1, <2>1, PlanWith DEF SetUp
  <2>2. CASE ~(job.at = "account" /\ job.recover) /\ job.cancelled
    BY <1>1, <2>2, ClosesFirstInv DEF SetUp
  <2>3. CASE ~(job.at = "account" /\ job.recover) /\ ~job.cancelled
    BY <1>1, <2>3, PlanWith DEF SetUp
  <2> QED
    BY <2>1, <2>2, <2>3
<1>2. CASE SetUpFails
  BY <1>2, ClosesFirstInv DEF SetUpFails
<1> QED
  BY <1>1, <1>2

LEMMA SetUpDropsInv == ASSUME Inv, SetUpDrops PROVE Inv'
<1>1. job.at = "account" /\ job' = Ends(job) /\ PlanStep(job')
      /\ sessions' = Closed(job.s) /\ progress' = progress
  BY DEF SetUpDrops, PlanStep
<1>2. job' \in Jobs /\ job'.s = 0 /\ job'.gen = job.gen /\ job'.at = "err"
  BY <1>1, PlanHolds, EndsFacts
<1>3. /\ sessions' \in [Pool -> Sessions] /\ sessions'[job.s].st \notin Live
      /\ \A t \in Pool : t # job.s => sessions'[t] = sessions[t]
  BY <1>1, PlanHolds, ClosedFacts DEF Inv
<1>4. JobInv' /\ WakeInv'
  BY <1>2 DEF JobInv, WakeInv
<1>5. \A t \in Pool : sessions'[t].st \in Live => t = job'.s
  BY <1>1, <1>3, PlanHolds
<1> QED
  BY <1>1, <1>2, <1>3, <1>4, <1>5, PlanHolds, PlanKeeps

LEMMA SetUpClosedInv == ASSUME Inv, SetUpClosed PROVE Inv'
<1>1. /\ job.at = "close" /\ UNCHANGED <<progress, sessions>>
      /\ sessions[job.s].st \notin Live
  BY DEF SetUpClosed, Inv, JobInv
<1>2. job' \in Jobs /\ job'.s = 0 /\ job'.gen = job.gen /\ job'.at \in {"announce", "dial", "err"}
      /\ (job'.at = "announce" => job'.wake = "on") /\ PlanStep(job')
  <2>1. CASE job.then = "again"
    <3>1. job' = NextAttempt(job) /\ PlanStep(job')
      BY <2>1 DEF SetUpClosed, PlanStep
    <3> QED
      BY <1>1, <3>1, PlanHolds, NextAttemptFacts
  <2>2. CASE job.then # "again"
    <3>1. job' = Ends(job) /\ PlanStep(job')
      BY <2>2 DEF SetUpClosed, PlanStep
    <3> QED
      BY <1>1, <3>1, PlanHolds, EndsFacts
  <2> QED
    BY <2>1, <2>2
<1>3. JobInv' /\ WakeInv'
  BY <1>2 DEF JobInv, WakeInv
<1>4. \A t \in Pool : sessions'[t].st \in Live => t = job'.s
  BY <1>1, PlanHolds
<1> QED
  BY <1>1, <1>2, <1>3, <1>4, PlanHolds, PlanKeeps

LEMMA PlanPanicsInv == ASSUME Inv, PlanPanics PROVE Inv'
<1>1. job.at \notin {"none", "ok", "err"} /\ job' = Ends(job) /\ PlanStep(job') /\ progress' = progress
  BY DEF PlanPanics, PlanStep
<1>2. job' \in Jobs /\ job'.s = 0 /\ job'.gen = job.gen /\ job'.at = "err" /\ job.s \in Pool \cup {0}
  BY <1>1, EndsFacts DEF Inv, Typed, Jobs
<1>3. /\ sessions' \in [Pool -> Sessions]
      /\ \A t \in Pool : t # job.s => sessions'[t] = sessions[t]
      /\ job.s # 0 => sessions'[job.s].st \notin Live
  <2>1. CASE job.at = "close"
    BY <2>1 DEF PlanPanics, Inv, JobInv, Typed
  <2>2. CASE job.at # "close"
    BY <1>2, <2>2, ClosedFacts DEF PlanPanics, Inv
  <2> QED
    BY <2>1, <2>2
<1>4. JobInv' /\ WakeInv'
  BY <1>2 DEF JobInv, WakeInv
<1>5. session = 0 /\ progress' \in Seq(Reports)
  BY <1>1 DEF Inv, OwnerInv, Typed
<1>6. ASSUME NEW t \in Pool, sessions'[t].st \in Live PROVE FALSE
  <2>1. t # 0
    BY LifecycleAssumption
  <2>2. t # job.s
    BY <1>3, <1>6, <2>1
  <2> QED
    BY <1>3, <1>5, <1>6, <2>1, <2>2 DEF Inv, OwnerInv
<1> QED
  BY <1>1, <1>2, <1>3, <1>4, <1>5, <1>6, PlanKeeps

LEMMA PlanInv == ASSUME Inv, Plan PROVE Inv'
BY PlanStartsInv, AnnouncesInv, SleepsInv, WakesInv, ConnectFailsInv, ConnectsInv,
   SetUpInv, SetUpDropsInv, SetUpClosedInv DEF Plan

-----------------------------------------------------------------------------
(* The Runner's steps.                                                     *)

(* Retirement begins: the plan is cancelled, nothing is closed yet.        *)
LEMMA RetireInv ==
    ASSUME Inv, Select, NEW st \in States, NEW next \in {"connect", "answer", "recover", "fail", "end"},
           Retire(next, st), shown' \in States, control' \in Seq(Requests), progress' = progress,
           next = "answer" => shown' = st /\ st.conn = 0 /\ st.mode = "offline"
    PROVE  Inv'
<1>1. /\ runner' = [at |-> "retire", wait |-> 0, next |-> next] /\ runner' \in Runners
      /\ UNCHANGED <<session, sessions, progress>>
  BY DEF Retire, Selecting, Runners
<1>2. state' = [st EXCEPT !.conn = 0] /\ state' \in States /\ state'.mode = st.mode /\ state'.conn = 0
  BY DEF Retire, States
<1>3. st.conn = 0 => state' = st
  BY <1>2 DEF States
<1>4. /\ job' \in Jobs /\ job'.at = job.at /\ job'.s = job.s /\ job'.gen = job.gen
      /\ job'.wake = job.wake /\ (job.at = "none" => job' = job)
  <2>1. job' = [job EXCEPT !.cancelled = (job.at # "none")] /\ job \in Jobs
    BY DEF Retire, Inv, Typed
  <2>2. (job.at # "none") \in BOOLEAN
    OBVIOUS
  <2>3. job' \in Jobs /\ job'.at = job.at /\ job'.s = job.s /\ job'.gen = job.gen /\ job'.wake = job.wake
    BY <2>1, <2>2 DEF Jobs
  <2>4. CASE job.at = "none"
    <3>1. job' = [job EXCEPT !.cancelled = FALSE] /\ job = NoJob
      BY <2>1, <2>4 DEF Inv, JobInv
    <3>2. job' = NoJob
      BY <3>1 DEF NoJob
    <3> QED
      BY <2>3, <3>1, <3>2
  <2> QED
    BY <2>3, <2>4
<1>5. Typed'
  BY <1>1, <1>2, <1>4 DEF Inv, Typed
<1>6. JobInv' /\ WakeInv'
  BY <1>1, <1>4 DEF Inv, JobInv, WakeInv
<1>7. OwnerInv' /\ GenInv'
  BY <1>1, <1>4 DEF Inv, OwnerInv, GenInv, Select
<1>8. ShownInv'
  BY <1>1, <1>2, <1>3 DEF ShownInv, Select
<1> QED
  BY <1>5, <1>6, <1>7, <1>8 DEF Inv

LEMMA TakingInv == ASSUME Inv, Taking PROVE Inv'
<1>1. /\ control \in Seq(Requests) /\ state \in States /\ shown \in States
      /\ job \in Jobs
  BY DEF Inv, Typed
<1>2. control' \in Seq(Requests) /\ Select /\ progress' = progress
  <2>1. control # <<>> /\ control' = Tail(control) /\ Select /\ progress' = progress
    BY DEF Taking, TakeConnect, TakeDisconnect, TakeRetry, Takes
  <2>2. control' \in Seq(Requests)
    BY <1>1, <2>1
  <2> QED
    BY <2>1, <2>2
<1>3. CASE TakeConnect
  BY <1>1, <1>2, <1>3, RetireInv DEF TakeConnect
<1>4. CASE TakeDisconnect
  <2> DEFINE st == [Offline EXCEPT !.gen = state.gen + 1]
  <2>1. st \in States /\ st.conn = 0 /\ st.mode = "offline"
    <3>1. state.gen + 1 \in Nat
      BY <1>1 DEF States
    <3> QED
      BY <3>1, OfflineFacts
  <2>2. Retire("answer", st) /\ shown' = st
    BY <1>4 DEF TakeDisconnect
  <2> HIDE DEF st
  <2> QED
    BY <1>2, <2>1, <2>2, RetireInv
<1>5. CASE TakeRetry
  <2>1. /\ UNCHANGED <<state, shown, runner, session, sessions, progress>>
        /\ job' = job \/ (job' = [job EXCEPT !.wake = "notified"] /\ job.at # "none")
    BY <1>5 DEF TakeRetry
  <2>2. /\ job' \in Jobs /\ job'.at = job.at /\ job'.s = job.s /\ job'.gen = job.gen
        /\ job'.wake \in {job.wake, "notified"} /\ (job.at = "none" => job' = job)
    BY <1>1, <2>1 DEF Jobs
  <2>3. Typed'
    BY <1>2, <2>1, <2>2 DEF Inv, Typed
  <2>4. JobInv' /\ WakeInv'
    BY <2>1, <2>2 DEF Inv, JobInv, WakeInv
  <2>5. OwnerInv' /\ GenInv'
    BY <2>1, <2>2 DEF Inv, OwnerInv, GenInv, Select
  <2>6. ShownInv'
    BY <2>1, <2>2 DEF Inv, ShownInv, Select
  <2> QED
    BY <2>3, <2>4, <2>5, <2>6 DEF Inv
<1> QED
  BY <1>3, <1>4, <1>5 DEF Taking

LEMMA LosesInv == ASSUME Inv, Loses \/ Breaks PROVE Inv'
<1>1. /\ Select /\ UNCHANGED <<shown, control, progress>>
      /\ \E next \in {"recover", "fail", "end"} : Retire(next, state)
  BY DEF Loses, Breaks
<1>2. state \in States /\ shown' \in States /\ control' \in Seq(Requests)
  BY <1>1 DEF Inv, Typed
<1> QED
  BY <1>1, <1>2, RetireInv
(* What a step that leaves the Runner selecting without a session shows.   *)
LEMMA NoJobFacts ==
    NoJob \in Jobs /\ NoJob.at = "none" /\ NoJob.s = 0 /\ NoJob.wake = "off"
BY DEF NoJob, Jobs, Slow

LEMMA FailFacts ==
    ASSUME state \in States, Fail
    PROVE  /\ state' \in States /\ shown' = state' /\ state'.mode = "failed"
           /\ state'.conn = 0
BY DEF Fail, Publish, States

Connected(st, id, c) ==
    [st EXCEPT !.mode = "connected", !.id = id, !.attempt = 0, !.waiting = FALSE, !.conn = c]

LEMMA ConnectedFacts ==
    ASSUME NEW st \in States, NEW id \in Nat, NEW c \in Pool \cup {0}
    PROVE  /\ Connected(st, id, c) \in States
           /\ Connected(st, id, c).mode = "connected" /\ Connected(st, id, c).conn = c
           /\ Connected(st, id, c).attempt = 0 /\ ~Connected(st, id, c).waiting
           /\ Connected(st, id, c).gen = st.gen
<1> DEFINE a == [st EXCEPT !.mode = "connected"]
           b == [a EXCEPT !.id = id]
           d == [b EXCEPT !.attempt = 0]
           e == [d EXCEPT !.waiting = FALSE]
<1>1. a \in States
  BY DEF States
<1>2. b \in States
  <2> HIDE DEF a
  <2> QED
    BY <1>1 DEF States
<1>3. d \in States
  <2> HIDE DEF b
  <2> QED
    BY <1>2 DEF States, Slow
<1>4. e \in States
  <2> HIDE DEF d
  <2> QED
    BY <1>3 DEF States
<1>5. Connected(st, id, c) = [e EXCEPT !.conn = c]
  BY DEF Connected
<1>6. Connected(st, id, c) \in States
  <2> HIDE DEF e
  <2> QED
    BY <1>4, <1>5 DEF States
<1>7. /\ Connected(st, id, c).mode = "connected" /\ Connected(st, id, c).conn = c
      /\ Connected(st, id, c).attempt = 0 /\ Connected(st, id, c).gen = st.gen
  BY DEF States, Connected
<1>8. ~Connected(st, id, c).waiting
  BY DEF States, Connected
<1> QED
  BY <1>6, <1>7, <1>8

LEMMA EstablishesInv == ASSUME Inv, Establishes PROVE Inv'
<1>1. /\ Select /\ job.at = "ok" /\ job' = NoJob /\ UNCHANGED <<control, progress>>
      /\ state \in States /\ shown \in States /\ runner \in Runners
      /\ control \in Seq(Requests)
  BY DEF Establishes, Inv, Typed
<1>2. /\ sessions[job.s].st \in Live /\ sessions[job.s].gen = state.gen
  BY <1>1 DEF Inv, JobInv, GenInv
<1>3. JobInv' /\ WakeInv'
  BY <1>1, NoJobFacts DEF JobInv, WakeInv
<1>4. CASE /\ session' = job.s /\ UNCHANGED <<sessions, runner>>
           /\ Publish([state EXCEPT !.mode = "connected", !.id = 2 * state.gen + 1, !.attempt = 0,
                                    !.waiting = FALSE, !.conn = job.s])
  <2>1. 2 * state.gen + 1 \in Nat /\ job.s \in Pool \cup {0}
    BY <1>1, PlanHolds DEF States
  <2>2. /\ state' \in States /\ shown' = state' /\ state'.mode = "connected" /\ state'.conn = job.s
        /\ state'.attempt = 0 /\ ~state'.waiting /\ state'.gen = state.gen
    <3>1. state' = Connected(state, 2 * state.gen + 1, job.s) /\ shown' = state'
      BY <1>4 DEF Publish, Connected
    <3> QED
      BY <1>1, <2>1, <3>1, ConnectedFacts
  <2>3. Typed'
    BY <1>1, <1>4, <2>1, <2>2, NoJobFacts, PlanHolds DEF Typed
  <2>4. OwnerInv' /\ GenInv'
    BY <1>1, <1>2, <1>4, <2>2, NoJobFacts, PlanHolds DEF OwnerInv, GenInv, Select
  <2>5. ShownInv'
    BY <1>1, <1>4, <2>2, NoJobFacts, PlanHolds DEF ShownInv, Select
  <2> QED
    BY <1>3, <2>3, <2>4, <2>5 DEF Inv
<1>5. CASE /\ sessions' = Closed(job.s) /\ UNCHANGED <<session, state, shown>>
           /\ runner' = [at |-> "closed", wait |-> job.s, next |-> "fail"]
  <2>1. runner' \in Runners /\ runner'.at = "closed" /\ runner'.next = "fail"
    BY <1>1, <1>5, PlanHolds DEF Runners
  <2>2. /\ sessions' \in [Pool -> Sessions] /\ sessions'[job.s].st \notin Live
        /\ \A t \in Pool : t # job.s => sessions'[t] = sessions[t]
    BY <1>1, <1>5, PlanHolds, ClosedFacts DEF Inv
  <2>3. Typed'
    BY <1>1, <1>5, <2>1, <2>2, NoJobFacts, PlanHolds DEF Typed
  <2>4. OwnerInv' /\ GenInv' /\ ShownInv'
    BY <1>1, <1>5, <2>1, <2>2, NoJobFacts, PlanHolds DEF OwnerInv, GenInv, ShownInv, Select
  <2> QED
    BY <1>3, <2>3, <2>4 DEF Inv
<1> QED
  BY <1>4, <1>5 DEF Establishes

LEMMA JobFailsInv == ASSUME Inv, JobFails PROVE Inv'
<1>1. /\ Select /\ job.at = "err" /\ job' = NoJob /\ Fail /\ state \in States
      /\ UNCHANGED <<runner, session, sessions, control, progress>>
      /\ session = 0 /\ job.s = 0
  BY DEF JobFails, Inv, Typed, JobInv, OwnerInv
<1>2. Typed'
  BY <1>1, FailFacts, NoJobFacts DEF Inv, Typed
<1>3. JobInv' /\ WakeInv'
  BY <1>1, NoJobFacts DEF JobInv, WakeInv
<1>4. OwnerInv' /\ GenInv'
  BY <1>1, NoJobFacts DEF Inv, OwnerInv, GenInv, Select
<1>5. ShownInv'
  BY <1>1, FailFacts, NoJobFacts DEF ShownInv, Select
<1> QED
  BY <1>2, <1>3, <1>4, <1>5 DEF Inv

LEMMA TakeProgressInv == ASSUME Inv, TakeProgress PROVE Inv'
<1> DEFINE p == Head(progress)
<1>1. /\ Select /\ progress # <<>> /\ progress' = Tail(progress) /\ progress \in Seq(Reports)
      /\ state \in States /\ UNCHANGED <<runner, session, job, sessions, control>>
  BY DEF TakeProgress, Inv, Typed
<1>2. p \in Reports /\ progress' \in Seq(Reports)
  BY <1>1
<1>3. JobInv' /\ WakeInv' /\ OwnerInv'
  BY <1>1 DEF Inv, JobInv, WakeInv, OwnerInv
<1>4. CASE p.gen = state.gen /\ job.at # "none"
  <2>1. Publish([state EXCEPT !.attempt = p.attempt, !.waiting = p.waiting])
    BY <1>4 DEF TakeProgress
  <2>2. /\ state' \in States /\ shown' = state' /\ state'.gen = state.gen
        /\ state'.mode = state.mode /\ state'.conn = state.conn
    BY <1>1, <1>2, <2>1 DEF Publish, States, Reports
  <2>3. Typed'
    BY <1>1, <1>2, <2>2 DEF Inv, Typed
  <2>4. GenInv'
    BY <1>1, <2>2 DEF Inv, GenInv, Select
  <2>5. session = 0 /\ state.mode # "connected"
    BY <1>1, <1>4 DEF Inv, OwnerInv, ShownInv
  <2>6. ShownInv'
    BY <1>1, <2>2, <2>5 DEF Inv, ShownInv, Select
  <2> QED
    BY <1>3, <2>3, <2>4, <2>6 DEF Inv
<1>5. CASE ~(p.gen = state.gen /\ job.at # "none")
  <2>1. UNCHANGED <<state, shown>>
    BY <1>5 DEF TakeProgress
  <2>2. Typed'
    BY <1>1, <1>2, <2>1 DEF Inv, Typed
  <2>3. GenInv' /\ ShownInv'
    BY <1>1, <2>1 DEF Inv, GenInv, ShownInv, Select
  <2> QED
    BY <1>3, <2>2, <2>3 DEF Inv
<1> QED
  BY <1>4, <1>5

LEMMA RetireJobInv == ASSUME Inv, RetireJob PROVE Inv'
<1>1. /\ runner.at = "retire" /\ job' = NoJob /\ sessions' = Closed(job.s)
      /\ runner' = [runner EXCEPT !.at = "close", !.wait = job.s]
      /\ UNCHANGED <<state, shown, session, control, progress>>
      /\ job \in Jobs /\ job.s \in Pool \cup {0} /\ runner \in Runners
  BY DEF RetireJob, Inv, Typed, Jobs
<1>2. /\ sessions' \in [Pool -> Sessions] /\ (job.s # 0 => sessions'[job.s].st \notin Live)
      /\ \A t \in Pool : t # job.s => sessions'[t] = sessions[t]
  BY <1>1, ClosedFacts DEF Inv
<1>3. runner' \in Runners /\ runner'.at = "close" /\ runner'.next = runner.next
  BY <1>1 DEF Runners
<1>4. Typed'
  BY <1>1, <1>2, <1>3, NoJobFacts DEF Inv, Typed
<1>5. JobInv' /\ WakeInv'
  BY <1>1, NoJobFacts DEF JobInv, WakeInv
<1>6. job.s # 0 => session = 0
  BY DEF Inv, JobInv, OwnerInv
<1>7. session \in Pool \cup {0} /\ 0 \notin Pool
  BY LifecycleAssumption DEF Inv, Typed
<1>8. OwnerInv'
  BY <1>1, <1>2, <1>3, <1>6, <1>7, NoJobFacts DEF Inv, OwnerInv
<1>9. GenInv' /\ ShownInv'
  BY <1>1, <1>3 DEF Inv, GenInv, ShownInv, Select
<1> QED
  BY <1>4, <1>5, <1>8, <1>9 DEF Inv

LEMMA RetireSessionInv == ASSUME Inv, RetireSession PROVE Inv'
<1>1. /\ runner.at = "close" /\ sessions' = Closed(session) /\ session' = 0
      /\ runner' = [runner EXCEPT !.at = "closed", !.wait = session]
      /\ UNCHANGED <<state, shown, job, control, progress>>
      /\ session \in Pool \cup {0} /\ runner \in Runners
      /\ job.at = "none" /\ job.s = 0
  BY NoJobFacts DEF RetireSession, Inv, Typed, OwnerInv, JobInv
<1>2. /\ sessions' \in [Pool -> Sessions] /\ (session # 0 => sessions'[session].st \notin Live)
      /\ \A t \in Pool : t # session => sessions'[t] = sessions[t]
  BY <1>1, ClosedFacts DEF Inv
<1>3. runner' \in Runners /\ runner'.at = "closed" /\ runner'.next = runner.next
  BY <1>1 DEF Runners
<1>4. Typed'
  BY <1>1, <1>2, <1>3 DEF Inv, Typed
<1>5. JobInv' /\ WakeInv'
  BY <1>1 DEF Inv, JobInv, WakeInv
<1>6. OwnerInv'
  BY <1>1, <1>2, <1>3, LifecycleAssumption DEF Inv, OwnerInv
<1>7. GenInv' /\ ShownInv'
  BY <1>1, <1>3 DEF Inv, GenInv, ShownInv, Select
<1> QED
  BY <1>4, <1>5, <1>6, <1>7 DEF Inv

(* Runner.begin: a new generation, with a plan and no session.             *)
LEMMA BeginFacts ==
    ASSUME state \in States, NEW recover \in BOOLEAN, NEW id \in Nat, Begin(recover, id)
    PROVE  /\ state' \in States /\ shown' = state' /\ state'.conn = 0
           /\ state'.mode \in {"connecting", "reconnecting"}
           /\ job' \in Jobs /\ job'.at = "start" /\ job'.gen = state'.gen /\ job'.s = 0
<1>1. state.gen + 1 \in Nat
  BY DEF States
<1> DEFINE g == state.gen + 1
           mode == IF recover THEN "reconnecting" ELSE "connecting"
<1>2. /\ job' = [NoJob EXCEPT !.at = "start", !.gen = g, !.recover = recover]
      /\ state' = [Offline EXCEPT !.gen = g, !.id = id, !.mode = mode]
      /\ shown' = state'
  BY DEF Begin, Publish
<1>3. g \in Nat /\ mode \in {"connecting", "reconnecting"}
  BY <1>1
<1> HIDE DEF g, mode
<1>4. Offline \in States /\ Offline.conn = 0
  BY DEF Offline, States, Slow
<1>5. state' \in States /\ state'.conn = 0 /\ state'.gen = g /\ state'.mode = mode
  BY <1>2, <1>3, <1>4 DEF States
<1>6. job' \in Jobs /\ job'.at = "start" /\ job'.gen = g /\ job'.s = 0
  BY <1>2, <1>3, NoJobFacts DEF Jobs
<1> QED
  BY <1>2, <1>3, <1>5, <1>6

LEMMA RetiredInv == ASSUME Inv, Retired PROVE Inv'
<1>1. /\ runner.at = "closed" /\ session = 0 /\ job.at = "none" /\ job = NoJob
      /\ UNCHANGED <<session, sessions, control, progress>>
      /\ state \in States /\ job \in Jobs
      /\ \A s \in Pool : sessions[s].st \notin Live
  BY NoJobFacts, LifecycleAssumption DEF Retired, Inv, Typed, OwnerInv, JobInv
<1>2. /\ runner' \in Runners /\ runner'.next = "none"
      /\ runner'.at = IF runner.next = "end" THEN "ended" ELSE "select"
  BY DEF Retired, Selecting, Runners
<1>3. CASE \/ runner.next = "connect" /\ Begin(FALSE, 2 * state.gen + 2)
           \/ runner.next = "recover" /\ Begin(TRUE, state.id)
  <2>1. 2 * state.gen + 2 \in Nat /\ state.id \in Nat
    BY <1>1 DEF States
  <2>2. /\ state' \in States /\ shown' = state' /\ state'.conn = 0
        /\ state'.mode \in {"connecting", "reconnecting"}
        /\ job' \in Jobs /\ job'.at = "start" /\ job'.gen = state'.gen /\ job'.s = 0
    BY <1>1, <1>3, <2>1, BeginFacts
  <2>3. Typed'
    BY <1>1, <1>2, <2>2 DEF Inv, Typed
  <2>4. JobInv' /\ WakeInv'
    BY <2>2 DEF JobInv, WakeInv
  <2>5. OwnerInv'
    BY <1>1, <1>2, <1>3, <2>2 DEF OwnerInv
  <2>6. GenInv' /\ ShownInv'
    BY <1>1, <1>2, <1>3, <2>2 DEF GenInv, ShownInv, Select
  <2> QED
    BY <2>3, <2>4, <2>5, <2>6 DEF Inv
<1>4. CASE runner.next \in {"connect", "fail"} /\ Fail /\ UNCHANGED job
  <2>1. Typed'
    BY <1>1, <1>2, <1>4, FailFacts DEF Inv, Typed
  <2>2. JobInv' /\ WakeInv' /\ OwnerInv'
    BY <1>1, <1>2, <1>4, NoJobFacts DEF JobInv, WakeInv, OwnerInv
  <2>3. GenInv' /\ ShownInv'
    BY <1>1, <1>2, <1>4, FailFacts DEF GenInv, ShownInv, Select
  <2> QED
    BY <2>1, <2>2, <2>3 DEF Inv
<1>5. CASE runner.next \in {"answer", "end"} /\ UNCHANGED <<state, shown, job>>
  <2>1. Typed'
    BY <1>1, <1>2, <1>5 DEF Inv, Typed
  <2>2. JobInv' /\ WakeInv' /\ OwnerInv'
    BY <1>1, <1>2, <1>5, NoJobFacts DEF JobInv, WakeInv, OwnerInv
  <2>3. GenInv' /\ ShownInv'
    BY <1>1, <1>2, <1>5 DEF Inv, GenInv, ShownInv, Select
  <2> QED
    BY <2>1, <2>2, <2>3 DEF Inv
<1> QED
  BY <1>3, <1>4, <1>5 DEF Retired

-----------------------------------------------------------------------------
(* The user and the network.                                               *)

(* A session's own step keeps its generation, and whether it is live.      *)
LEMMA SessionStep ==
    ASSUME Inv, NEW s \in Pool, NEW r \in Sessions, sessions' = [sessions EXCEPT ![s] = r],
           r.st \in Live <=> sessions[s].st \in Live,
           sessions[s].st \in Live => r.gen = sessions[s].gen,
           UNCHANGED <<state, shown, runner, session, job, control, progress>>
    PROVE  Inv'
<1>1. /\ sessions \in [Pool -> Sessions] /\ job.s \in Pool \cup {0} /\ session \in Pool \cup {0}
      /\ 0 \notin Pool
  BY LifecycleAssumption DEF Inv, Typed, Jobs
<1>2. /\ sessions' \in [Pool -> Sessions]
      /\ \A t \in Pool : /\ sessions'[t].st \in Live <=> sessions[t].st \in Live
                         /\ sessions[t].st \in Live => sessions'[t].gen = sessions[t].gen
  BY <1>1
<1>3. Typed'
  BY <1>2 DEF Inv, Typed
<1>4. JobInv' /\ WakeInv'
  BY <1>1, <1>2 DEF Inv, JobInv, WakeInv
<1>5. OwnerInv' /\ GenInv'
  BY <1>1, <1>2 DEF Inv, OwnerInv, GenInv, Select
<1>6. ShownInv'
  BY DEF Inv, ShownInv, Select
<1> QED
  BY <1>3, <1>4, <1>5, <1>6 DEF Inv

LEMMA SessionInv == ASSUME Inv, NEW s \in Pool, Finishes(s) \/ Drops(s) PROVE Inv'
<1>1. sessions \in [Pool -> Sessions]
  BY DEF Inv, Typed
<1>2. CASE Finishes(s)
  <2>1. Free \in Sessions /\ Free.st \notin Live /\ sessions[s].st \notin Live
    BY <1>2 DEF Finishes, Free, Sessions, Live
  <2> QED
    BY <1>2, <2>1, SessionStep DEF Finishes
<1>3. CASE Drops(s)
  <2>1. PICK st \in {"lost", "refused", "gone"} : sessions' = [sessions EXCEPT ![s].st = st]
    BY <1>3 DEF Drops
  <2> DEFINE r == [sessions[s] EXCEPT !.st = st]
  <2>2. r \in Sessions /\ r.st \in Live /\ sessions[s].st \in Live /\ r.gen = sessions[s].gen
    BY <1>1, <1>3 DEF Drops, Sessions, Live
  <2>3. sessions' = [sessions EXCEPT ![s] = r]
    BY <2>1
  <2> HIDE DEF r
  <2> QED
    BY <1>3, <2>2, <2>3, SessionStep DEF Drops
<1> QED
  BY <1>2, <1>3

LEMMA UserInv ==
    ASSUME Inv, UNCHANGED vars \/ Close \/ (\E kind \in {"connect", "disconnect", "retry"} : Ask(kind))
    PROVE  Inv'
<1>1. UNCHANGED <<state, shown, runner, session, job, progress, sessions>>
  BY DEF vars, Close, Ask
<1>2. control' \in Seq(Requests)
  <2>1. shown.id \in Nat /\ control \in Seq(Requests)
    BY DEF Inv, Typed, States
  <2>2. ASSUME NEW kind \in {"connect", "disconnect", "retry"}, Ask(kind)
        PROVE  control' \in Seq(Requests)
    <3>1. [kind |-> kind, id |-> shown.id] \in Requests
      BY <2>1 DEF Requests
    <3> QED
      BY <2>1, <2>2, <3>1 DEF Ask
  <2> QED
    BY <2>1, <2>2 DEF vars, Close
<1>3. Typed'
  BY <1>1, <1>2 DEF Inv, Typed
<1>4. JobInv' /\ WakeInv' /\ OwnerInv'
  BY <1>1 DEF Inv, JobInv, WakeInv, OwnerInv
<1>5. GenInv' /\ ShownInv'
  BY <1>1 DEF Inv, GenInv, ShownInv, Select
<1> QED
  BY <1>3, <1>4, <1>5 DEF Inv

LEMMA StepInv == Inv /\ [Next]_vars => Inv'
BY PlanInv, PlanPanicsInv, TakingInv, EstablishesInv, JobFailsInv, TakeProgressInv, LosesInv, RetireJobInv,
   RetireSessionInv, RetiredInv, SessionInv, UserInv DEF Next, Retiring

LEMMA InvHolds == Spec => []Inv
BY InitInv, StepInv, PTL DEF Spec

-----------------------------------------------------------------------------
(* The theorems.                                                           *)

(* Exactly one of the plan and the Runner owns an open session, and there  *)
(* is one at most: a session the plan wins while it is being cancelled is  *)
(* neither leaked nor taken over, and the Runner never serves a session of *)
(* an earlier generation.                                                  *)
THEOREM EverySessionOwned == Spec => []SessionsOwned
<1>1. Inv => SessionsOwned
  <2> SUFFICES ASSUME Inv PROVE SessionsOwned
    OBVIOUS
  <2>1. \A s \in Pool : sessions[s].st \in Live => s = job.s \/ s = session
    BY DEF Inv, OwnerInv
  <2>2. session = 0 \/ job.s = 0
    BY DEF Inv, OwnerInv, JobInv
  <2>3. ASSUME NEW s \in Pool, sessions[s].st \in Live PROVE (s = job.s) # (s = session)
    <3>1. s # 0
      BY LifecycleAssumption
    <3> QED
      BY <2>1, <2>2, <2>3, <3>1
  <2>4. ASSUME NEW s \in Pool, NEW t \in Pool, sessions[s].st \in Live, sessions[t].st \in Live
        PROVE  s = t
    BY <2>1, <2>2, <2>4, LifecycleAssumption
  <2>5. session # 0 /\ Select => sessions[session].gen = state.gen
    BY DEF Inv, GenInv
  <2> QED
    BY <2>3, <2>4, <2>5 DEF SessionsOwned, Live
<1> QED
  BY InvHolds, <1>1, PTL

(* Whenever the Runner waits, the published state is its own: it offers    *)
(* the connection it owns, a late report of a finished plan does not show  *)
(* a connection as waiting, and offline or failed means no plan is left.   *)
THEOREM UserSeesCurrent == Spec => []ShownIsCurrent
<1>1. Inv => ShownIsCurrent
  <2> SUFFICES ASSUME Inv, Select PROVE ShownIsCurrent
    BY DEF ShownIsCurrent
  <2>1. /\ shown = state /\ shown.conn = session
        /\ session # 0 <=> shown.mode = "connected"
        /\ shown.mode \in {"offline", "failed"} => job = NoJob
    BY DEF Inv, ShownInv, JobInv
  <2>2. shown.mode = "connected" => ~shown.waiting /\ shown.attempt = 0
    BY <2>1 DEF Inv, ShownInv
  <2>3. (shown.mode = "connected") = (session # 0)
    BY <2>1
  <2> QED
    BY <2>1, <2>2, <2>3 DEF ShownIsCurrent
<1> QED
  BY InvHolds, <1>1, PTL

(* The user's retry is never lost on a plan that says it waits: the wait   *)
(* on the Notify is registered before the wait is announced.               *)
THEOREM RetryReachesWait == Spec => []WaitCanBeEnded
<1>1. Inv => WaitCanBeEnded
  BY DEF Inv, WakeInv, WaitCanBeEnded
<1> QED
  BY InvHolds, <1>1, PTL
=============================================================================

------------------------ MODULE SessionQueueTimingProofs ------------------------
(***************************************************************************)
(* What holds in addition when every event loop is punctual: its keepalive *)
(* timers fire within a tick.  Then no peer takes a claim from a live run, *)
(* one session has one claim, and the paths that write a row without       *)
(* looking at the claim only ever write rows they own; a session is shown  *)
(* as busy for a claim, or by a worker that is dead.                       *)
(***************************************************************************)
EXTENDS SessionQueueProofs

\* A tick stands for the interval of the keepalive timers, one second; the
\* code's own numbers are then Stale = 20 and Lease = 300.
Punctuality ==
  /\ MayStall = {}
  /\ Stale >= 1
  /\ Lease >= Stale + 2

\* What ties input i to the runs, the lease and the session's heartbeat.  Only
\* a process that is up executes i, and it holds the claim and has renewed it
\* since the last tick or the one before.  A session that names a worker has a
\* heartbeat; it names one for i only if i is not waiting, and if i is claimed
\* that worker is the owner.  The heartbeat of a claim is at most a tick older
\* than its lease, and in step with it while the run is alive.
Timed(i) ==
  LET s == SessionOf[i] IN
  /\ \A w \in Worker : Active(w, i) => Up(w) /\ Owned(w, i) /\ lease[i] >= Lease - 1
  /\ rtWorker[s] # NoWorker => beat[s] >= 0
  /\ rtInput[s] = i /\ rtWorker[s] # NoWorker =>
       /\ status[i] \notin {"NONE", "QUEUED"}
       /\ status[i] = "CLAIMED" =>
            /\ rtWorker[s] = owner[i]
            /\ beat[s] <= Stale => lease[i] + beat[s] >= Lease - 1
            /\ Active(owner[i], i) => beat[s] <= 1 /\ (lease[i] = Lease => beat[s] = 0)

TimingInv == TypeOK /\ OneClaimPerSession /\ \A i \in Input : Timed(i)

--------------------------------------------------------------------------------
(* What a step leaves alone *)

RowKept(i) ==
  status'[i] = status[i] /\ owner'[i] = owner[i] /\ lease'[i] = lease[i]

\* No run of i starts, and the processes of those that go on do not change.
RunsKept(i) ==
  \A w \in Worker : pc'[w][i] # "idle" =>
    pc[w][i] # "idle" /\ process'[w] = process[w]

\* The session of i is left alone, or stops naming i, or names no worker.
SessionKept(i) ==
  LET s == SessionOf[i] IN
  \/ rtWorker'[s] = NoWorker
  \/ rtInput'[s] # i /\ beat'[s] >= 0
  \/ /\ rtInput'[s] \in {rtInput[s], NoInput}
     /\ rtWorker'[s] = rtWorker[s]
     /\ beat'[s] = beat[s]

LEMMA TimedFrame ==
  ASSUME TypeOK, NEW i \in Input, Timed(i), RowKept(i), RunsKept(i), SessionKept(i)
  PROVE  Timed(i)'
<1> DEFINE s == SessionOf[i]
<1>1. \A w \in Worker : Active(w, i)' => (Up(w) /\ Owned(w, i) /\ lease[i] >= Lease - 1)'
  BY DEF Timed, RowKept, RunsKept, Active, Up, Owned
<1>2. rtWorker'[s] # NoWorker => beat'[s] >= 0
  BY DEF Timed, SessionKept
<1>3. ASSUME rtInput'[s] = i, rtWorker'[s] # NoWorker
      PROVE  rtInput[s] = i /\ rtWorker'[s] = rtWorker[s] /\ beat'[s] = beat[s]
  BY <1>3 DEF SessionKept, Input, NoInput
<1>4. ASSUME rtInput'[s] = i, rtWorker'[s] # NoWorker
      PROVE  /\ status'[i] \notin {"NONE", "QUEUED"}
             /\ status'[i] = "CLAIMED" =>
                  /\ rtWorker'[s] = owner'[i]
                  /\ beat'[s] <= Stale => lease'[i] + beat'[s] >= Lease - 1
                  /\ Active(owner[i], i)' =>
                       beat'[s] <= 1 /\ (lease'[i] = Lease => beat'[s] = 0)
  <2>1. rtInput[s] = i /\ rtWorker[s] # NoWorker /\ beat'[s] = beat[s]
    BY <1>3, <1>4
  <2>2. rtWorker[s] \in Worker
    BY <2>1, SessionOfType DEF TypeOK, RuntimeType
  <2>3. status[i] = "CLAIMED" => owner[i] \in Worker
    BY <2>1, <2>2 DEF Timed
  <2>4. status[i] = "CLAIMED" /\ Active(owner[i], i)' => Active(owner[i], i)
    BY <2>3 DEF RowKept, RunsKept, Active
  <2> QED
    BY <1>3, <1>4, <2>1, <2>4 DEF Timed, RowKept
<1> QED
  BY <1>1, <1>2, <1>4 DEF Timed

\* Pointing a session at one input releases the other inputs from it.
LEMMA SetRuntimeKeeps ==
  ASSUME TypeOK, NEW s \in Session, NEW st, NEW k, NEW w, SetRuntime(s, st, k, w),
         NEW i \in Input, i # k \/ w = NoWorker
  PROVE  SessionKept(i)
BY SessionOfType DEF SessionKept, SetRuntime, TypeOK, RuntimeType

LEMMA ReleaseKeeps ==
  ASSUME TypeOK, NEW j \in Input, NEW st, Release(j, st), NEW i \in Input, i # j
  PROVE  RowKept(i)
BY DEF RowKept, Release, TypeOK, RowType

LEMMA RunsEnd ==
  ASSUME TypeOK, NEW w \in Worker, NEW j \in Input, UNCHANGED process,
         UNCHANGED pc \/ EndRun(w, j), NEW i \in Input
  PROVE  RunsKept(i)
<1>1. CASE UNCHANGED pc
  BY <1>1 DEF RunsKept
<1>2. CASE EndRun(w, j)
  <2>1. pc' = [pc EXCEPT ![w][j] = "idle"]
    BY <1>2 DEF EndRun, RunIs
  <2> QED
    BY <2>1 DEF RunsKept, TypeOK, RunType
<1> QED
  BY <1>1, <1>2

LEMMA DieKeepsRuns ==
  ASSUME TypeOK, NEW w \in Worker, Die(w), NEW i \in Input
  PROVE  RunsKept(i)
BY DEF RunsKept, Die, TypeOK, ProcessType, RunType

--------------------------------------------------------------------------------
(* The steps *)

\* The numbers that the argument needs.
LEMMA Margins ==
  ASSUME Punctuality
  PROVE  /\ Lease \in Nat /\ Stale \in Nat
         /\ Stale >= 1 /\ Lease >= Stale + 2 /\ Lease - 1 >= 1
BY Numbers DEF Punctuality

\* Neither recovery branch sees a live run: its lease has not run out, and the
\* heartbeat of the session, if it names the run, is fresh.
LEMMA LiveRunsAreNotRecoverable ==
  ASSUME Punctuality, TypeOK, NEW i \in Input, Timed(i),
         NEW w \in Worker, Active(w, i), NEW v \in Worker
  PROVE  ~Recoverable(v, i)
<1> DEFINE s == SessionOf[i]
<1>1. status[i] = "CLAIMED" /\ owner[i] = w /\ lease[i] >= 1
  BY Margins DEF Timed, Owned, TypeOK, RowType
<1>2. ~Expired(i)
  BY <1>1 DEF Expired
<1>3. ASSUME HeldElsewhere(v, i) PROVE beat[s] <= 1
  <2>1. rtInput[s] = i /\ rtWorker[s] # NoWorker
    BY <1>3 DEF HeldElsewhere
  <2> QED
    BY <1>1, <2>1 DEF Timed
<1>4. beat[s] \in Int
  BY SessionOfType, Numbers DEF TypeOK, RuntimeType, NoBeat
<1> QED
  BY <1>2, <1>3, <1>4, Margins DEF Recoverable

\* A run that is executed is not waiting and not settled.
LEMMA WaitingHasNoRun ==
  ASSUME NEW i \in Input, Timed(i), status[i] # "CLAIMED"
  PROVE  \A w \in Worker : ~Active(w, i)
BY DEF Timed, Owned

LEMMA RouteTimed ==
  ASSUME TypeOK, \A i \in Input : Timed(i), RouteStep, NEW i \in Input
  PROVE  Timed(i)'
<1> USE DEF TypeOK
<1>a. ASSUME UNCHANGED runVars, UNCHANGED process, NEW k \in Input
      PROVE  RunsKept(k)
  BY <1>a DEF runVars, RunsKept
<1>b. ASSUME NEW j \in Input, RuntimeAfterQueue(j)
      PROVE  SessionKept(i)
  <2> DEFINE s == SessionOf[j]
  <2>1. CASE rtInput[s] # NoInput /\ status[rtInput[s]] = "CLAIMED"
    <3>1. /\ beat' = [beat EXCEPT ![s] = IF @ = NoBeat THEN 0 ELSE @]
          /\ UNCHANGED <<rtInput, rtWorker>>
      BY <1>b, <2>1 DEF RuntimeAfterQueue
    <3>2. SessionOf[i] \in Session /\ (rtWorker[SessionOf[i]] # NoWorker => beat[SessionOf[i]] >= 0)
      BY SessionOfType DEF Timed
    <3> QED
      BY <3>1, <3>2, Numbers DEF SessionKept, RuntimeType, NoBeat
  <2>2. CASE ~(rtInput[s] # NoInput /\ status[rtInput[s]] = "CLAIMED")
    <3>1. SetRuntime(s, "QUEUED", j, NoWorker)
      BY <1>b, <2>2 DEF RuntimeAfterQueue
    <3> QED
      BY <3>1, SetRuntimeKeeps, SessionOfType
  <2> QED
    BY <2>1, <2>2
\* An input changes between statuses other than CLAIMED.
<1>c. ASSUME NEW j \in Input, status[j] \in {"NONE", "QUEUED"},
             status'[j] # "CLAIMED",
             i # j => RowKept(i),
             UNCHANGED runVars, UNCHANGED process, SessionKept(i)
      PROVE  Timed(i)'
  <2>1. RunsKept(i)
    BY <1>c, <1>a
  <2>2. CASE i # j
    BY <1>c, <2>1, <2>2, TimedFrame
  <2>3. CASE i = j
    <3> DEFINE s == SessionOf[i]
    <3>1. \A w \in Worker : ~Active(w, i)
      BY <1>c, <2>3, WaitingHasNoRun
    <3>2. \A w \in Worker : ~Active(w, i)'
      BY <1>c, <3>1 DEF Active, runVars
    <3>3. rtInput[s] = i => rtWorker[s] = NoWorker
      BY <1>c, <2>3 DEF Timed
    <3>4. rtWorker'[s] # NoWorker => beat'[s] >= 0 /\ rtInput'[s] # i
      BY <1>c, <3>3 DEF SessionKept, Timed, Input, NoInput
    <3> QED
      BY <3>2, <3>4 DEF Timed
  <2> QED
    BY <2>2, <2>3
<1>1. ASSUME NEW j \in Input, QueueRoute(j) \/ FireMessage(j)
      PROVE  Timed(i)'
  <2>1. /\ status[j] = "NONE" /\ status' = [status EXCEPT ![j] = "QUEUED"]
        /\ UNCHANGED <<owner, lease>> /\ UNCHANGED runVars /\ UNCHANGED process
        /\ status'[j] # "CLAIMED"
    BY <1>1 DEF QueueRoute, FireMessage, Fresh, Enqueue, RowType
  <2>2. i # j => RowKept(i)
    BY <2>1 DEF RowKept, RowType
  <2>3. CASE QueueRoute(j)
    <3>1. SessionKept(i)
      BY <1>b, <2>1, <2>3 DEF QueueRoute
    <3> QED
      BY <1>c, <2>1, <2>2, <3>1
  <2>4. CASE FireMessage(j)
    <3>1. /\ rtInput' = [rtInput EXCEPT ![SessionOf[j]] = NoInput]
          /\ UNCHANGED <<rtWorker, beat>>
      BY <2>4 DEF FireMessage
    <3>2. SessionKept(i)
      BY <3>1, SessionOfType DEF SessionKept, RuntimeType
    <3> QED
      BY <1>c, <2>1, <2>2, <3>2
  <2> QED
    BY <1>1, <2>3, <2>4
<1>2. ASSUME NEW j \in Input, QueueRouteAgain(j)
      PROVE  Timed(i)'
  <2>1. UNCHANGED rowVars /\ UNCHANGED runVars /\ UNCHANGED process /\ RuntimeAfterQueue(j)
    BY <1>2 DEF QueueRouteAgain
  <2>2. RowKept(i)
    BY <2>1 DEF RowKept, rowVars
  <2> QED
    BY <1>a, <1>b, <2>1, <2>2, TimedFrame
<1>3. ASSUME NEW j \in Input, CancelRoute(j)
      PROVE  Timed(i)'
  <2>1. /\ status[j] = "QUEUED" /\ status' = [status EXCEPT ![j] = "CANCELLED"]
        /\ UNCHANGED <<owner, lease>> /\ UNCHANGED runVars /\ UNCHANGED process
        /\ UNCHANGED rtVars /\ status'[j] # "CLAIMED"
    BY <1>3 DEF CancelRoute, RowType
  <2>2. i # j => RowKept(i)
    BY <2>1 DEF RowKept, RowType
  <2>3. SessionKept(i)
    BY <2>1 DEF SessionKept, rtVars
  <2> QED
    BY <1>c, <2>1, <2>2, <2>3
<1>4. ASSUME NEW s \in Session, PauseQueued(s)
      PROVE  Timed(i)'
  <2>1. rtInput[s] \in Input /\ status[rtInput[s]] = "QUEUED"
    BY <1>4 DEF PauseQueued, RuntimeType
  <2>2. /\ Release(rtInput[s], "PAUSED") /\ SetRuntime(s, "PAUSED", NoInput, NoWorker)
        /\ UNCHANGED runVars /\ UNCHANGED process
    BY <1>4 DEF PauseQueued
  <2>3. SessionKept(i)
    BY <2>2, SetRuntimeKeeps
  <2>4. i # rtInput[s] => RowKept(i)
    BY <2>1, <2>2, ReleaseKeeps
  <2>5. status'[rtInput[s]] # "CLAIMED"
    BY <2>1, <2>2 DEF Release, RowType
  <2> QED
    BY <1>c, <2>1, <2>2, <2>3, <2>4, <2>5
<1>5. ASSUME NEW w \in Worker, NEW s \in Session, PauseRunning(w, s)
      PROVE  Timed(i)'
  <2>1. RowKept(i) /\ RunsKept(i) /\ SessionKept(i)
    BY <1>5 DEF PauseRunning, RowKept, RunsKept, SessionKept, rowVars, rtVars
  <2> QED
    BY <2>1, TimedFrame
<1> QED
  BY <1>1, <1>2, <1>3, <1>4, <1>5 DEF RouteStep

\* A step that ends with the session pointing at a live run j and the lease of
\* j recent enough leaves every input timed.
LEMMA BusyTimed ==
  ASSUME Punctuality, TypeOK, TypeOK', NEW w \in Worker, NEW j \in Input, Timed(j),
         Up(w), Owned(w, j), pc[w][j] # "idle",
         UNCHANGED <<process, status, owner>>,
         lease'[j] \in {lease[j], Lease},
         \A k \in Input \ {j} : lease'[k] = lease[k],
         \A k \in Input : RunsKept(k),
         NEW st, SetRuntime(SessionOf[j], st, j, w),
         NEW i \in Input, Timed(i)
  PROVE  Timed(i)'
<1>1. CASE i # j
  <2>1. RowKept(i)
    BY <1>1 DEF RowKept
  <2>2. SessionKept(i)
    BY <1>1, SetRuntimeKeeps, SessionOfType
  <2> QED
    BY <2>1, <2>2, TimedFrame
<1>2. CASE i = j
  <2> DEFINE s == SessionOf[i]
  <2>1. rtInput'[s] = i /\ rtWorker'[s] = w /\ beat'[s] = 0
    BY <1>2, SessionOfType DEF SetRuntime, TypeOK, RuntimeType
  <2>2. lease[i] >= Lease - 1
    BY <1>2 DEF Timed, Active
  <2>3. lease'[i] >= Lease - 1
    BY <1>2, <2>2, Margins
  <2>4. status'[i] = "CLAIMED" /\ owner'[i] = w
    BY <1>2 DEF Owned
  <2>5. \A v \in Worker : Active(v, i)' => Active(v, i)
    BY DEF RunsKept, Active
  <2>6. \A v \in Worker : Active(v, i)' => (Up(v) /\ Owned(v, i))'
    BY <1>2, <2>5 DEF Timed, Up, Owned
  <2>7. beat'[s] >= 0 /\ beat'[s] <= 1
    BY <2>1
  <2>8. lease'[i] + beat'[s] >= Lease - 1
    BY <2>1, <2>3, Margins DEF TypeOK, RowType
  <2> QED
    BY <2>1, <2>3, <2>4, <2>6, <2>7, <2>8 DEF Timed
<1> QED
  BY <1>1, <1>2

\* A step that takes a row from its claim, when nobody executes it afterwards.
LEMMA ReleaseTimed ==
  ASSUME TypeOK, NEW j \in Input, NEW st, Release(j, st), Timed(j),
         \A w \in Worker : pc'[w][j] = "idle",
         st = "QUEUED" => rtInput'[SessionOf[j]] # j \/ rtWorker'[SessionOf[j]] = NoWorker,
         st # "NONE", st # "CLAIMED",
         \A k \in Input : RunsKept(k) /\ SessionKept(k),
         NEW i \in Input, Timed(i)
  PROVE  Timed(i)'
<1>1. CASE i # j
  BY <1>1, ReleaseKeeps, TimedFrame
<1>2. CASE i = j
  <2> DEFINE s == SessionOf[i]
  <2>1. status'[i] = st
    BY <1>2 DEF Release, TypeOK, RowType
  <2>2. \A w \in Worker : ~Active(w, i)'
    BY <1>2 DEF Active
  <2>3. rtWorker'[s] # NoWorker => beat'[s] >= 0
    BY <1>2 DEF SessionKept, Timed
  <2> QED
    BY <1>2, <2>1, <2>2, <2>3 DEF Timed
<1> QED
  BY <1>1, <1>2

LEMMA RecoveryTimed ==
  ASSUME Punctuality, TypeOK, TypeOK', \A i \in Input : Timed(i),
         NEW w \in Worker, NEW j \in Input, Recover(w, j), NEW i \in Input
  PROVE  Timed(i)'
<1>1. Recoverable(w, j)
  BY DEF Recover, RenewOwnRun, RequeueClaim, FailClaim
<1>2. \A v \in Worker : pc[v][j] = "idle"
  BY <1>1, LiveRunsAreNotRecoverable DEF Active
<1>3. ~RenewOwnRun(w, j)
  BY <1>2 DEF RenewOwnRun, Active
<1>a. ASSUME NEW st, ResetRuntime(j, st)
      PROVE  /\ \A k \in Input : SessionKept(k)
             /\ rtInput'[SessionOf[j]] # j \/ rtWorker'[SessionOf[j]] = NoWorker
  <2>1. CASE rtInput[SessionOf[j]] = j
    <3>1. SetRuntime(SessionOf[j], st, NoInput, NoWorker)
      BY <1>a, <2>1 DEF ResetRuntime
    <3>2. rtWorker'[SessionOf[j]] = NoWorker
      BY <3>1, SessionOfType DEF SetRuntime, TypeOK, RuntimeType
    <3> QED
      BY <3>1, <3>2, SetRuntimeKeeps, SessionOfType
  <2>2. CASE rtInput[SessionOf[j]] # j
    <3>1. UNCHANGED <<rtInput, rtWorker, beat>>
      BY <1>a, <2>2 DEF ResetRuntime, rtVars
    <3> QED
      BY <2>2, <3>1 DEF SessionKept
  <2> QED
    BY <2>1, <2>2
<1>4. CASE RequeueClaim(w, j)
  <2>1. Release(j, "QUEUED") /\ ResetRuntime(j, "IDLE") /\ UNCHANGED pc /\ UNCHANGED process
    BY <1>4 DEF RequeueClaim, runVars
  <2>2. \A k \in Input : RunsKept(k)
    BY <2>1 DEF RunsKept
  <2> QED
    BY <1>2, <1>a, <2>1, <2>2, ReleaseTimed
<1>5. CASE FailClaim(w, j)
  <2>1. Release(j, "FAILED") /\ ResetRuntime(j, "ERROR") /\ UNCHANGED pc /\ UNCHANGED process
    BY <1>5 DEF FailClaim
  <2>2. \A k \in Input : RunsKept(k)
    BY <2>1 DEF RunsKept
  <2> QED
    BY <1>2, <1>a, <2>1, <2>2, ReleaseTimed
<1> QED
  BY <1>3, <1>4, <1>5 DEF Recover

LEMMA ClaimTimed ==
  ASSUME Punctuality, TypeOK, TypeOK', \A i \in Input : Timed(i),
         NEW w \in Worker, NEW j \in Input, ClaimInput(w, j), NEW i \in Input
  PROVE  Timed(i)'
<1>1. /\ Up(w) /\ status[j] = "QUEUED"
      /\ status' = [status EXCEPT ![j] = "CLAIMED"]
      /\ owner' = [owner EXCEPT ![j] = w]
      /\ lease' = [lease EXCEPT ![j] = Lease]
      /\ pc' = [pc EXCEPT ![w][j] = "gate"]
      /\ UNCHANGED process
      /\ UNCHANGED <<rtInput, rtWorker, beat>>
  BY DEF ClaimInput, Claimable, RunIs, rtVars
<1>2. SessionKept(i)
  BY <1>1 DEF SessionKept
<1>3. CASE i # j
  <2>1. RowKept(i)
    BY <1>1, <1>3 DEF RowKept, TypeOK, RowType
  <2>2. RunsKept(i)
    BY <1>1, <1>3 DEF RunsKept, TypeOK, RunType
  <2> QED
    BY <1>2, <2>1, <2>2, TimedFrame
<1>4. CASE i = j
  <2>1. \A v \in Worker : ~Active(v, i)
    BY <1>1, <1>4, WaitingHasNoRun
  <2>2. \A v \in Worker : Active(v, i)' => v = w
    BY <1>1, <1>4, <2>1 DEF Active, TypeOK, RunType
  <2>3. status'[i] = "CLAIMED" /\ owner'[i] = w /\ lease'[i] = Lease /\ Up(w)'
    BY <1>1, <1>4 DEF TypeOK, RowType, Up
  <2>4. rtInput'[SessionOf[i]] = i => rtWorker'[SessionOf[i]] = NoWorker
    BY <1>1, <1>4 DEF Timed
  <2>5. rtWorker'[SessionOf[i]] # NoWorker => beat'[SessionOf[i]] >= 0
    BY <1>1 DEF Timed
  <2> QED
    BY <2>2, <2>3, <2>4, <2>5, Margins DEF Timed, Owned
<1> QED
  BY <1>3, <1>4

LEMMA KeepaliveTimed ==
  ASSUME Punctuality, TypeOK, TypeOK', \A i \in Input : Timed(i),
         NEW w \in Worker, NEW j \in Input, Keepalive(w, j), NEW i \in Input
  PROVE  Timed(i)'
<1> DEFINE s == SessionOf[j]
<1>1. /\ Up(w) /\ Active(w, j) /\ Owned(w, j)
      /\ lease' = [lease EXCEPT ![j] = Lease]
      /\ beat' = [beat EXCEPT ![s] = IF rtInput[s] = j /\ rtWorker[s] = w THEN 0 ELSE @]
      /\ UNCHANGED <<process, status, owner, pc, rtInput, rtWorker>>
  BY DEF Keepalive, runVars
<1>2. RunsKept(i)
  BY <1>1 DEF RunsKept
<1>3. CASE i # j
  <2>1. RowKept(i)
    BY <1>1, <1>3 DEF RowKept, TypeOK, RowType
  <2>2. SessionKept(i)
    <3>1. CASE SessionOf[i] = s /\ rtInput[s] = j /\ rtWorker[s] = w
      BY <1>1, <1>3, <3>1, SessionOfType DEF SessionKept, TypeOK, RuntimeType
    <3>2. CASE ~(SessionOf[i] = s /\ rtInput[s] = j /\ rtWorker[s] = w)
      BY <1>1, <3>2, SessionOfType DEF SessionKept, TypeOK, RuntimeType
    <3> QED
      BY <3>1, <3>2
  <2> QED
    BY <1>2, <2>1, <2>2, TimedFrame
<1>4. CASE i = j
  <2>1. status[i] = "CLAIMED" /\ owner[i] = w
    BY <1>1, <1>4 DEF Owned
  <2>2. lease'[i] = Lease
    BY <1>1, <1>4 DEF TypeOK, RowType
  <2>3. CASE rtInput[s] = i /\ rtWorker[s] # NoWorker
    <3>1. rtWorker[s] = w
      BY <1>4, <2>1, <2>3 DEF Timed
    <3>2. beat'[s] = 0
      BY <1>1, <1>4, <2>3, <3>1, SessionOfType DEF TypeOK, RuntimeType
    <3>3. \A v \in Worker : Active(v, i)' => Up(v)' /\ Owned(v, i)'
      BY <1>1 DEF Timed, Active, Up, Owned
    <3>4. beat'[s] >= 0 /\ beat'[s] <= 1 /\ lease'[i] + beat'[s] >= Lease - 1
      BY <2>2, <3>2, Margins
    <3> QED
      BY <1>1, <1>4, <2>1, <2>2, <3>1, <3>2, <3>3, <3>4, Margins DEF Timed
  <2>4. CASE ~(rtInput[s] = i /\ rtWorker[s] # NoWorker)
    <3>1. beat'[s] = beat[s]
      <4>1. NoWorker # w
        BY SpecialWorker
      <4>2. ~(rtInput[s] = j /\ rtWorker[s] = w)
        BY <1>4, <2>4, <4>1
      <4> QED
        BY <1>1, <4>2, SessionOfType DEF TypeOK, RuntimeType
    <3>2. \A v \in Worker : Active(v, i)' => Up(v)' /\ Owned(v, i)'
      BY <1>1 DEF Timed, Active, Up, Owned
    <3> QED
      BY <1>1, <1>4, <2>2, <2>4, <3>1, <3>2, Margins DEF Timed
  <2> QED
    BY <2>3, <2>4
<1> QED
  BY <1>3, <1>4

\* Only one process executes an input.
LEMMA OneRunPerInput ==
  ASSUME NEW j \in Input, Timed(j), NEW v \in Worker, NEW w \in Worker,
         Active(v, j), Active(w, j)
  PROVE  v = w
BY DEF Timed, Owned

\* The run of j ends with its row written, and the session left alone or
\* pointing nowhere.
LEMMA EndTimed ==
  ASSUME TypeOK, \A i \in Input : Timed(i),
         NEW w \in Worker, NEW j \in Input, Active(w, j),
         NEW st \in Settled, Release(j, st),
         \/ UNCHANGED rtVars
         \/ \E rst : SetRuntime(SessionOf[j], rst, NoInput, NoWorker),
         (EndRun(w, j) /\ UNCHANGED process) \/ Die(w),
         NEW i \in Input
  PROVE  Timed(i)'
<1>1. \A k \in Input : RunsKept(k)
  BY RunsEnd, DieKeepsRuns
<1>2. \A k \in Input : SessionKept(k)
  <2>1. CASE UNCHANGED rtVars
    BY <2>1 DEF SessionKept, rtVars
  <2>2. ASSUME NEW rst, SetRuntime(SessionOf[j], rst, NoInput, NoWorker)
        PROVE  \A k \in Input : SessionKept(k)
    BY <2>2, SetRuntimeKeeps, SessionOfType
  <2> QED
    BY <2>1, <2>2
<1>3. pc'[w][j] = "idle"
  <2>1. CASE EndRun(w, j)
    BY <2>1 DEF EndRun, RunIs, TypeOK, RunType
  <2>2. CASE Die(w)
    BY <2>2 DEF Die, TypeOK, RunType
  <2> QED
    BY <2>1, <2>2
<1>4. \A v \in Worker : pc'[v][j] = "idle"
  <2> SUFFICES ASSUME NEW v \in Worker, pc'[v][j] # "idle" PROVE FALSE
    OBVIOUS
  <2>1. Active(v, j)
    BY <1>1 DEF RunsKept, Active
  <2>2. v = w
    BY <2>1, OneRunPerInput
  <2> QED
    BY <1>3, <2>2
<1>5. st # "NONE" /\ st # "CLAIMED" /\ st # "QUEUED"
  BY DEF Settled
<1> QED
  BY <1>1, <1>2, <1>4, <1>5, ReleaseTimed

LEMMA FinalizeTimed ==
  ASSUME TypeOK, \A i \in Input : Timed(i),
         NEW w \in Worker, NEW j \in Input, Active(w, j),
         NEW v \in Verdict, NEW append \in BOOLEAN, NEW n \in 1..4,
         Finalize(w, j, v, append, n), NEW i \in Input
  PROVE  Timed(i)'
<1>1. (EndRun(w, j) /\ UNCHANGED process) \/ Die(w)
  BY DEF Finalize
<1>2. CASE n >= 2
  <2>1. Release(j, StatusOf(v)) /\ StatusOf(v) \in Settled
    BY <1>2, StatusOfType DEF Finalize
  <2>2. \/ UNCHANGED rtVars
        \/ \E rst : SetRuntime(SessionOf[j], rst, NoInput, NoWorker)
    BY DEF Finalize
  <2> QED
    BY <1>1, <2>1, <2>2, EndTimed
<1>3. CASE ~(n >= 2)
  <2>1. RowKept(i) /\ SessionKept(i) /\ Die(w)
    BY <1>3 DEF Finalize, RowKept, SessionKept, rtVars
  <2> QED
    BY <2>1, DieKeepsRuns, TimedFrame
<1> QED
  BY <1>2, <1>3

LEMMA RunTimed ==
  ASSUME Punctuality, TypeOK, TypeOK', \A i \in Input : Timed(i),
         NEW w \in Worker, NEW j \in Input,
         RunStep(w, j) \/ CrashFinalizing(w, j), NEW i \in Input
  PROVE  Timed(i)'
<1>a. pc[w][j] # "idle" => Active(w, j) /\ Up(w) /\ Owned(w, j)
  BY DEF Timed, Active
<1>b. ASSUME UNCHANGED rowVars, UNCHANGED rtVars, RunsKept(i)
      PROVE  Timed(i)'
  <2>1. RowKept(i) /\ SessionKept(i)
    BY <1>b DEF RowKept, SessionKept, rowVars, rtVars
  <2> QED
    BY <1>b, <2>1, TimedFrame
<1>1. CASE GatePass(w, j)
  <2> DEFINE p == IF abort[w][j] = "none" THEN "runner" ELSE "unspawned"
  <2>1. Up(w) /\ Owned(w, j) /\ pc[w][j] # "idle"
    BY <1>1, <1>a DEF GatePass
  <2>2. /\ SetRuntime(SessionOf[j], "BUSY", j, w)
        /\ pc' = [pc EXCEPT ![w][j] = p]
        /\ UNCHANGED <<process, rowVars>>
    BY <1>1, <2>1 DEF GatePass, RunIs
  <2> HIDE DEF p
  <2>3. \A k \in Input : RunsKept(k)
    BY <2>1, <2>2 DEF RunsKept, TypeOK, RunType
  <2>4. UNCHANGED <<process, status, owner, lease>>
    BY <2>2 DEF rowVars
  <2> QED
    BY <2>1, <2>2, <2>3, <2>4, BusyTimed
<1>2. CASE FailRaised(w, j) /\ pc[w][j] # "idle"
  <2>1. /\ Release(j, "FAILED") /\ "FAILED" \in Settled
        /\ SetRuntime(SessionOf[j], "ERROR", NoInput, NoWorker)
        /\ EndRun(w, j) /\ UNCHANGED process
    BY <1>2 DEF FailRaised, Settled
  <2> QED
    BY <1>2, <1>a, <2>1, EndTimed
<1>3. CASE RunnerHeartbeat(w, j)
  <2>1. /\ Up(w) /\ Owned(w, j) /\ pc[w][j] # "idle"
        /\ SetRuntime(SessionOf[j], "BUSY", j, w)
        /\ lease' = [lease EXCEPT ![j] = Lease]
        /\ UNCHANGED <<process, status, owner>> /\ UNCHANGED pc
    BY <1>3 DEF RunnerHeartbeat, runVars
  <2>2. lease'[j] = Lease /\ \A k \in Input \ {j} : lease'[k] = lease[k]
    BY <2>1 DEF TypeOK, RowType
  <2>3. \A k \in Input : RunsKept(k)
    BY <2>1 DEF RunsKept
  <2> QED
    BY <2>1, <2>2, <2>3, BusyTimed
<1>4. CASE \/ LoseClaim(w, j) \/ RunnerEvent(w, j)
           \/ \E v \in RunnerVerdict : RunnerTerminal(w, j, v)
  <2>1. UNCHANGED rowVars /\ UNCHANGED rtVars /\ UNCHANGED process /\ UNCHANGED pc
    BY <1>4 DEF LoseClaim, RunnerEvent, RunnerTerminal, runVars
  <2>2. RunsKept(i)
    BY <2>1 DEF RunsKept
  <2> QED
    BY <1>b, <2>1, <2>2
<1>5. CASE RunnerExitLost(w, j)
  <2>1. UNCHANGED rowVars /\ UNCHANGED rtVars /\ UNCHANGED process /\ EndRun(w, j)
    BY <1>5 DEF RunnerExitLost
  <2> QED
    BY <1>b, <2>1, RunsEnd
<1>6. CASE RunnerExitCompact(w, j) \/ CompactRetry(w, j)
  <2>1. UNCHANGED rowVars /\ UNCHANGED rtVars /\ UNCHANGED process /\ pc[w][j] # "idle"
    BY <1>6 DEF RunnerExitCompact, RunnerGone, CompactRetry
  <2>2. \E p : pc' = [pc EXCEPT ![w][j] = p]
    BY <1>6 DEF RunnerExitCompact, CompactRetry, RunIs
  <2>3. RunsKept(i)
    BY <2>1, <2>2 DEF RunsKept, TypeOK, RunType
  <2> QED
    BY <1>b, <2>1, <2>3
<1>7. ASSUME NEW n \in 1..4, RunnerExit(w, j, n)
      PROVE  Timed(i)'
  <2>1. Active(w, j)
    BY <1>7 DEF RunnerExit, RunnerGone, Active
  <2>2. Finalize(w, j, Final(Outcome(w, j)), terminals[j] = <<>>, n)
        /\ (terminals[j] = <<>>) \in BOOLEAN
    BY <1>7 DEF RunnerExit
  <2> QED
    BY <2>1, <2>2, OutcomeType, FinalizeTimed
<1>8. ASSUME NEW n \in 1..4, CompactGiveUp(w, j, n)
      PROVE  Timed(i)'
  <2>1. Active(w, j) /\ Finalize(w, j, "failed", TRUE, n) /\ "failed" \in Verdict
    BY <1>8 DEF CompactGiveUp, Active, Verdict
  <2> QED
    BY <2>1, FinalizeTimed
<1>9. GateBlock(w, j) \/ SetupThrow(w, j) => FailRaised(w, j) /\ pc[w][j] # "idle"
  BY DEF GateBlock, SetupThrow
<1>10. 1..3 \subseteq 1..4 /\ 4 \in 1..4
  OBVIOUS
<1>11. CASE RunThrow(w, j)
  <2>1. Active(w, j)
    BY <1>11 DEF RunThrow, Active
  <2>2. CASE Finalize(w, j, "failed", TRUE, 4)
    BY <1>10, <2>1, <2>2, FinalizeTimed DEF Verdict
  <2>3. CASE EndRun(w, j) /\ UNCHANGED <<process, rowVars, logVars, rtVars>>
    BY <1>b, <2>3, RunsEnd
  <2> QED
    BY <1>11, <2>2, <2>3 DEF RunThrow
<1>12. ASSUME NEW n \in 1..3, StoreThrow(w, j, n)
       PROVE  Timed(i)'
  <2>1. pc[w][j] # "idle" /\ EndRun(w, j) /\ UNCHANGED process
    BY <1>12 DEF StoreThrow, RunnerGone
  <2>2. Owned(w, j)
    BY <1>a, <2>1
  <2>3. \E st \in Settled : Release(j, st)
    <3>1. (IF pc[w][j] = "compact" THEN "failed" ELSE Final(Outcome(w, j))) \in Verdict
      BY OutcomeType DEF Verdict
    <3>2. "FAILED" \in Settled
      BY DEF Settled
    <3>3. n = 1 \/ n > 1
      OBVIOUS
    <3> QED
      BY <1>12, <2>2, <3>1, <3>2, <3>3, StatusOfType DEF StoreThrow
  <2>4. \/ UNCHANGED rtVars
        \/ \E rst : SetRuntime(SessionOf[j], rst, NoInput, NoWorker)
    BY <1>12 DEF StoreThrow
  <2> QED
    BY <1>a, <2>1, <2>3, <2>4, EndTimed
<1> QED
  BY <1>1, <1>2, <1>3, <1>4, <1>5, <1>6, <1>7, <1>8, <1>9, <1>10, <1>11, <1>12
     DEF RunStep, CrashFinalizing, Gate, RunnerDone, CompactDone

LEMMA TickTimed ==
  ASSUME Punctuality, TypeOK, TypeOK', \A i \in Input : Timed(i), Tick, NEW i \in Input
  PROVE  Timed(i)'
<1> DEFINE s == SessionOf[i]
<1>1. /\ UNCHANGED <<process, status, owner, rtInput, rtWorker>> /\ UNCHANGED pc
      /\ lease'[i] = IF lease[i] = 0 THEN 0 ELSE lease[i] - 1
      /\ beat'[s] = IF beat[s] \in 0..Stale THEN beat[s] + 1 ELSE beat[s]
  BY SessionOfType DEF Tick, runVars
<1>2. lease[i] \in Nat /\ lease'[i] \in Nat /\ beat[s] \in Int /\ beat'[s] \in Int
  BY SessionOfType, Numbers DEF TypeOK, RowType, RuntimeType, NoBeat
<1>3. ASSUME NEW w \in Worker, Active(w, i)
      PROVE  lease[i] = Lease
  BY <1>3 DEF Tick, Punctual, Punctuality, Timed
<1>4. \A w \in Worker : Active(w, i)' => Active(w, i)
  BY <1>1 DEF Active
<1>5. \A w \in Worker : Active(w, i)' => Up(w)' /\ Owned(w, i)' /\ lease'[i] = Lease - 1
  BY <1>1, <1>3, <1>4, Margins DEF Timed, Up, Owned
<1>6. rtWorker'[s] # NoWorker => beat'[s] >= 0
  BY <1>1, <1>2 DEF Timed
<1>7. ASSUME rtInput'[s] = i, rtWorker'[s] # NoWorker
      PROVE  /\ status'[i] \notin {"NONE", "QUEUED"}
             /\ status'[i] = "CLAIMED" =>
                  /\ rtWorker'[s] = owner'[i]
                  /\ beat'[s] <= Stale => lease'[i] + beat'[s] >= Lease - 1
                  /\ Active(owner[i], i)' =>
                       beat'[s] <= 1 /\ (lease'[i] = Lease => beat'[s] = 0)
  <2>1. status'[i] \notin {"NONE", "QUEUED"}
    BY <1>1, <1>7 DEF Timed
  <2> SUFFICES ASSUME status'[i] = "CLAIMED"
               PROVE  /\ rtWorker'[s] = owner'[i]
                      /\ beat'[s] <= Stale => lease'[i] + beat'[s] >= Lease - 1
                      /\ Active(owner[i], i)' =>
                           beat'[s] <= 1 /\ (lease'[i] = Lease => beat'[s] = 0)
    BY <2>1
  <2>2. /\ rtWorker[s] = owner[i] /\ beat[s] >= 0
        /\ beat[s] <= Stale => lease[i] + beat[s] >= Lease - 1
        /\ Active(owner[i], i) => beat[s] <= 1 /\ (lease[i] = Lease => beat[s] = 0)
    BY <1>1, <1>7 DEF Timed
  <2>3. beat'[s] <= Stale => beat'[s] = beat[s] + 1 /\ beat[s] <= Stale
    BY <1>1, <1>2, <2>2, Margins
  <2>4. beat'[s] <= Stale => lease'[i] + beat'[s] >= Lease - 1
    BY <1>1, <1>2, <2>2, <2>3, Margins
  <2>5. owner[i] \in Worker
    BY <1>1, <1>7, <2>2, SessionOfType DEF TypeOK, RuntimeType
  <2>6. Active(owner[i], i)' => Active(owner[i], i)
    BY <1>1, <1>4, <2>5 DEF Active
  <2>7. Active(owner[i], i)' => beat[s] = 0 /\ lease'[i] = Lease - 1
    BY <1>1, <1>3, <2>2, <2>5, <2>6, Margins
  <2>8. Active(owner[i], i)' => beat'[s] <= 1 /\ lease'[i] # Lease
    BY <1>1, <2>7, Margins
  <2> QED
    BY <1>1, <2>2, <2>4, <2>8
<1> QED
  BY <1>5, <1>6, <1>7, Margins DEF Timed

LEMMA TimedStep ==
  ASSUME Punctuality, TypeOK, TypeOK', \A i \in Input : Timed(i), [Next]_vars,
         NEW i \in Input
  PROVE  Timed(i)'
<1>1. CASE RouteStep
  BY <1>1, RouteTimed
<1>2. CASE Tick
  BY <1>2, TickTimed
<1>3. ASSUME NEW w \in Worker, WorkerStep(w)
      PROVE  Timed(i)'
  <2>1. CASE Start(w)
    <3>1. \A v \in Worker : pc'[v][i] # "idle" => process[v] = "up"
      BY <2>1 DEF Start, runVars, Timed, Active, Up
    <3>2. RunsKept(i) /\ RowKept(i) /\ SessionKept(i)
      BY <2>1, <3>1 DEF Start, runVars, rowVars, rtVars, RunsKept, RowKept, SessionKept,
                        TypeOK, ProcessType
    <3> QED
      BY <3>2, TimedFrame
  <2>2. CASE Crash(w)
    <3>1. RowKept(i) /\ SessionKept(i)
      BY <2>2 DEF Crash, rowVars, rtVars, RowKept, SessionKept
    <3> QED
      BY <2>2, <3>1, DieKeepsRuns, TimedFrame DEF Crash
  <2> QED
    BY <1>3, <2>1, <2>2, RecoveryTimed, ClaimTimed, KeepaliveTimed, RunTimed DEF WorkerStep
<1>4. CASE UNCHANGED vars
  <2>1. RunsKept(i) /\ RowKept(i) /\ SessionKept(i)
    BY <1>4 DEF vars, runVars, rowVars, rtVars, RunsKept, RowKept, SessionKept
  <2> QED
    BY <2>1, TimedFrame
<1> QED
  BY <1>1, <1>2, <1>3, <1>4 DEF Next

\* Claims are made by claimInputs only.
LEMMA NewClaims ==
  ASSUME TypeOK, [Next]_vars, NEW i \in Input, status'[i] = "CLAIMED",
         status[i] # "CLAIMED"
  PROVE  \E w \in Worker : ClaimInput(w, i)
<1> USE DEF TypeOK, RowType
<1>a. ASSUME NEW j \in Input, NEW st \in Settled \cup {"QUEUED"}, Release(j, st)
      PROVE  FALSE
  BY <1>a DEF Release, Settled
<1>1. ~RouteStep
  <2>1. ASSUME NEW j \in Input,
               QueueRoute(j) \/ QueueRouteAgain(j) \/ FireMessage(j) \/ CancelRoute(j)
        PROVE  FALSE
    BY <2>1 DEF QueueRoute, QueueRouteAgain, FireMessage, Enqueue, CancelRoute, rowVars
  <2>2. ASSUME NEW s \in Session, PauseQueued(s)
        PROVE  FALSE
    <3>1. rtInput[s] \in Input /\ Release(rtInput[s], "PAUSED") /\ "PAUSED" \in Settled
      BY <2>2 DEF PauseQueued, RuntimeType, Settled
    <3> QED
      BY <3>1, <1>a
  <2>3. ASSUME NEW w \in Worker, NEW s \in Session, PauseRunning(w, s)
        PROVE  FALSE
    BY <2>3 DEF PauseRunning, rowVars
  <2> QED
    BY <2>1, <2>2, <2>3 DEF RouteStep
<1>2. ~Tick
  BY DEF Tick
<1>3. ASSUME NEW w \in Worker, WorkerStep(w)
      PROVE  ClaimInput(w, i)
  <2>1. ~Start(w) /\ ~Crash(w)
    BY DEF Start, Crash, rowVars
  <2>2. ASSUME NEW j \in Input, Recover(w, j)
        PROVE  FALSE
    <3>1. ~RenewOwnRun(w, j)
      BY DEF RenewOwnRun
    <3>2. "FAILED" \in Settled
      BY DEF Settled
    <3> QED
      BY <2>2, <3>1, <3>2, <1>a DEF Recover, RequeueClaim, FailClaim
  <2>3. ASSUME NEW j \in Input, RunStep(w, j) \/ CrashFinalizing(w, j)
        PROVE  FALSE
    <3>1. ASSUME NEW v \in Verdict, NEW append, NEW n, Finalize(w, j, v, append, n)
          PROVE  FALSE
      BY <3>1, <1>a, StatusOfType DEF Finalize
    <3>2. \A n \in 1..4 : ~RunnerExit(w, j, n)
      BY <3>1, OutcomeType DEF RunnerExit
    <3>3. \A n \in 1..4 : ~CompactGiveUp(w, j, n)
      BY <3>1 DEF CompactGiveUp, Verdict
    <3>4. ~Gate(w, j)
      <4>1. "FAILED" \in Settled
        BY DEF Settled
      <4> QED
        BY <4>1, <1>a DEF Gate, GatePass, GateBlock, SetupThrow, FailRaised, rowVars
    <3>5. ~(\/ LoseClaim(w, j) \/ RunnerHeartbeat(w, j) \/ RunnerEvent(w, j)
            \/ \E v \in RunnerVerdict : RunnerTerminal(w, j, v)
            \/ RunnerExitLost(w, j) \/ RunnerExitCompact(w, j) \/ CompactRetry(w, j))
      BY DEF LoseClaim, RunnerHeartbeat, RunnerEvent, RunnerTerminal, RunnerExitLost,
             RunnerExitCompact, CompactRetry, rowVars
    <3>6. 1..3 \subseteq 1..4 /\ 4 \in 1..4
      OBVIOUS
    <3>7. ~RunThrow(w, j)
      BY <3>1 DEF RunThrow, Verdict, rowVars
    <3>8. \A n \in 1..3 : ~StoreThrow(w, j, n)
      <4> SUFFICES ASSUME NEW n \in 1..3, StoreThrow(w, j, n) PROVE FALSE
        OBVIOUS
      <4>1. (IF pc[w][j] = "compact" THEN "failed" ELSE Final(Outcome(w, j))) \in Verdict
        BY OutcomeType DEF Verdict
      <4>2. "FAILED" \in Settled
        BY DEF Settled
      <4>3. status' = status \/ \E st \in Settled : Release(j, st)
        BY <4>1, <4>2, StatusOfType DEF StoreThrow
      <4> QED
        BY <4>3, <1>a
    <3> QED
      BY <2>3, <3>2, <3>3, <3>4, <3>5, <3>6, <3>7, <3>8
         DEF RunStep, CrashFinalizing, RunnerDone, CompactDone
  <2>4. ASSUME NEW j \in Input, Keepalive(w, j)
        PROVE  FALSE
    BY <2>4 DEF Keepalive
  <2>5. ASSUME NEW j \in Input, ClaimInput(w, j)
        PROVE  j = i
    BY <2>5 DEF ClaimInput
  <2> QED
    BY <1>3, <2>1, <2>2, <2>3, <2>4, <2>5 DEF WorkerStep
<1>4. ~UNCHANGED vars
  BY DEF vars, rowVars
<1> QED
  BY <1>1, <1>2, <1>3, <1>4 DEF Next

\* A claim that is expired and not recovered would need a fresh heartbeat; but
\* a heartbeat is stale before the lease of its claim has run out.
LEMMA NoClaimBesideAnother ==
  ASSUME Punctuality, TypeOK, NEW w \in Worker, NEW i \in Input, NEW k \in Input,
         Timed(k), ClaimInput(w, i), i # k, SessionOf[i] = SessionOf[k]
  PROVE  status[k] # "CLAIMED"
<1> SUFFICES ASSUME status[k] = "CLAIMED" PROVE FALSE
  OBVIOUS
<1> DEFINE s == SessionOf[k]
<1>1. lease[k] = 0 /\ ~Recoverable(w, k)
  BY DEF ClaimInput, Claimable, Expired
<1>2. HeldElsewhere(w, k) /\ beat[s] # NoBeat /\ beat[s] <= Stale
  BY <1>1 DEF Recoverable, Expired
<1>3. rtInput[s] = k /\ rtWorker[s] # NoWorker
  BY <1>2 DEF HeldElsewhere
<1>4. lease[k] + beat[s] >= Lease - 1
  BY <1>2, <1>3 DEF Timed
<1>5. beat[s] \in Int
  BY SessionOfType, Numbers DEF TypeOK, RuntimeType, NoBeat
<1> QED
  BY <1>1, <1>2, <1>4, <1>5, Margins

LEMMA OneClaimStep ==
  ASSUME Punctuality, TimingInv, [Next]_vars
  PROVE  OneClaimPerSession'
<1> USE DEF TimingInv
<1>1. SUFFICES ASSUME NEW i \in Input, NEW k \in Input, i # k,
                      status'[i] = "CLAIMED", status'[k] = "CLAIMED",
                      SessionOf[i] = SessionOf[k]
               PROVE  FALSE
  BY DEF OneClaimPerSession
<1>2. CASE status[i] = "CLAIMED" /\ status[k] = "CLAIMED"
  BY <1>1, <1>2 DEF OneClaimPerSession
<1>a. ASSUME NEW x \in Input, NEW y \in Input, x # y, SessionOf[x] = SessionOf[y],
             status[x] # "CLAIMED", status'[x] = "CLAIMED", status'[y] = "CLAIMED"
      PROVE  FALSE
  <2>1. PICK w \in Worker : ClaimInput(w, x)
    BY <1>a, NewClaims
  <2>2. status[y] # "CLAIMED"
    BY <1>a, <2>1, NoClaimBesideAnother
  <2>3. status'[y] = status[y]
    BY <1>a, <2>1 DEF ClaimInput, TypeOK, RowType
  <2> QED
    BY <1>a, <2>2, <2>3
<1>3. CASE ~(status[i] = "CLAIMED" /\ status[k] = "CLAIMED")
  BY <1>1, <1>3, <1>a
<1> QED
  BY <1>2, <1>3

LEMMA TimingInit == Init => TimingInv
<1> SUFFICES ASSUME Init PROVE TimingInv
  OBVIOUS
<1>1. TypeOK
  BY TypeInit
<1>2. OneClaimPerSession
  BY DEF Init, OneClaimPerSession
<1>3. ASSUME NEW i \in Input PROVE Timed(i)
  BY SessionOfType DEF Init, Timed, Active
<1> QED
  BY <1>1, <1>2, <1>3 DEF TimingInv

LEMMA TimingStep ==
  ASSUME Punctuality, TimingInv, [Next]_vars
  PROVE  TimingInv'
<1>1. TypeOK'
  BY TypeStep DEF TimingInv
<1>2. \A i \in Input : Timed(i)'
  BY <1>1, TimedStep DEF TimingInv
<1> QED
  BY <1>1, <1>2, OneClaimStep DEF TimingInv

\* As long as no event loop is late by a keepalive interval, no worker takes a
\* claim from a run that is being executed, and no session has two claims,
\* whatever chat messages, repeated queue requests, pauses and crashes do to
\* the session columns on which recovery decides.
THEOREM ClaimsAreSafe ==
  ASSUME Punctuality
  PROVE  Spec => [](LiveRunsKeepTheirClaim /\ OneClaimPerSession)
<1>1. Init => TimingInv
  BY TimingInit
<1>2. TimingInv /\ [Next]_vars => TimingInv'
  BY TimingStep
<1>3. TimingInv => LiveRunsKeepTheirClaim /\ OneClaimPerSession
  BY DEF TimingInv, Timed, LiveRunsKeepTheirClaim
<1> QED
  BY <1>1, <1>2, <1>3, PTL DEF Spec

\* So a run that is being executed is the only one of its session, and no peer
\* takes its claim away.
THEOREM LiveRunsAreSafe ==
  ASSUME Punctuality
  PROVE  Spec => []LiveRunsKeepTheirClaim
<1>1. Spec => [](LiveRunsKeepTheirClaim /\ OneClaimPerSession)
  BY ClaimsAreSafe
<1> QED
  BY <1>1, PTL

--------------------------------------------------------------------------------
(* With punctual workers nothing at all disturbs a settled row              *)

LEMMA OwnRun ==
  ASSUME NEW w \in Worker, NEW j \in Input, Timed(j), pc[w][j] # "idle"
  PROVE  Up(w) /\ Owned(w, j)
BY DEF Timed, Active

LEMMA PunctualRunCoherent ==
  ASSUME "store" \notin MayThrow, TimingInv, \A i \in Input : Coherent(i), [Next]_vars,
         NEW w \in Worker, NEW j \in Input,
         RunStep(w, j) \/ CrashFinalizing(w, j),
         NEW i \in Input
  PROVE  Coherent(i)'
<1> USE DEF TimingInv
<1>1. CASE GatePass(w, j)
  BY <1>1, FrameAll DEF GatePass, rowVars, logVars
<1>2. CASE GateBlock(w, j) \/ SetupThrow(w, j)
  <2>1. /\ Release(j, "FAILED") /\ UNCHANGED <<terminals, turn>>
        /\ \A k \in Input \ {j} : progress'[k] = progress[k]
        /\ Up(w) /\ pc[w][j] # "idle"
    BY <1>2 DEF GateBlock, SetupThrow, FailRaised, TypeOK, LogType
  <2>2. Owned(w, j)
    BY <2>1, OwnRun
  <2>3. CASE i = j
    <3>1. terminals[i] = <<>> /\ turn[i] = "none"
      BY <2>1, <2>2, <2>3, OwnClaimUnreported DEF Coherent, Owned
    <3>2. status'[i] = "FAILED"
      BY <2>1, <2>3 DEF Release, TypeOK, RowType
    <3> QED
      BY <2>1, <3>1, <3>2 DEF Coherent, Settled
  <2>4. CASE i # j
    BY <2>1, <2>4, ReleaseKeeps, Frame DEF RowKept
  <2> QED
    BY <2>3, <2>4
<1>3. CASE RunnerEvent(w, j)
  <2>1. UNCHANGED <<status, owner, terminals, turn, process>>
    BY <1>3 DEF RunnerEvent, rowVars
  <2>2. CASE i = j
    <3>1. status[i] = "CLAIMED"
      BY <1>3, <2>2 DEF RunnerEvent, Owned
    <3> QED
      BY <2>1, <3>1 DEF Coherent, Settled
  <2>3. CASE i # j
    <3>1. progress'[i] = progress[i]
      BY <1>3, <2>3 DEF RunnerEvent, TypeOK, LogType
    <3> QED
      BY <2>1, <3>1, Frame
  <2> QED
    BY <2>2, <2>3
<1>4. ASSUME NEW n \in 1..4, RunnerExit(w, j, n)
      PROVE  Coherent(i)'
  <2>1. Up(w) /\ Owned(w, j)
    BY <1>4 DEF RunnerExit, RunnerGone
  <2>2. terminals[j] = <<>>
    BY <2>1, OwnClaimUnreported
  <2>3. Finalize(w, j, Final(Outcome(w, j)), TRUE, n)
    BY <1>4, <2>2 DEF RunnerExit, Finalize
  <2> QED
    BY <2>1, <2>2, <2>3, OutcomeType, FinalizeCoherent
<1>5. ASSUME NEW n \in 1..4, CompactGiveUp(w, j, n)
      PROVE  Coherent(i)'
  <2>1. Up(w) /\ pc[w][j] # "idle" /\ Finalize(w, j, "failed", TRUE, n)
        /\ "failed" \in Verdict
    BY <1>5 DEF CompactGiveUp, Verdict
  <2>2. Owned(w, j)
    BY <2>1, OwnRun
  <2>3. terminals[j] = <<>>
    BY <2>1, <2>2, OwnClaimUnreported
  <2> QED
    BY <2>1, <2>2, <2>3, FinalizeCoherent
<1>6. CASE \/ LoseClaim(w, j) \/ RunnerHeartbeat(w, j)
           \/ \E v \in RunnerVerdict : RunnerTerminal(w, j, v)
           \/ RunnerExitLost(w, j) \/ RunnerExitCompact(w, j) \/ CompactRetry(w, j)
  BY <1>6, FrameAll DEF LoseClaim, RunnerHeartbeat, RunnerTerminal, RunnerExitLost,
                        RunnerExitCompact, CompactRetry, rowVars, logVars
<1>7. 1..3 \subseteq 1..4 /\ 4 \in 1..4
  OBVIOUS
<1>8. CASE RunThrow(w, j)
  <2>1. CASE Finalize(w, j, "failed", TRUE, 4)
    <3>1. Up(w) /\ Owned(w, j) /\ "failed" \in Verdict
      BY <1>8, OwnRun DEF RunThrow, Verdict
    <3>2. terminals[j] = <<>>
      BY <3>1, OwnClaimUnreported
    <3> QED
      BY <1>7, <2>1, <3>1, <3>2, FinalizeCoherent
  <2>2. CASE EndRun(w, j) /\ UNCHANGED <<process, rowVars, logVars, rtVars>>
    BY <2>2, FrameAll DEF rowVars, logVars
  <2> QED
    BY <1>8, <2>1, <2>2 DEF RunThrow
<1>9. \A n \in 1..3 : ~StoreThrow(w, j, n)
  BY DEF StoreThrow
<1> QED
  BY <1>1, <1>2, <1>3, <1>4, <1>5, <1>6, <1>7, <1>8, <1>9
     DEF RunStep, CrashFinalizing, Gate, RunnerDone, CompactDone

LEMMA PunctualCoherentStep ==
  ASSUME "store" \notin MayThrow, TimingInv, \A i \in Input : Coherent(i), [Next]_vars
  PROVE  \A i \in Input : Coherent(i)'
<1> USE DEF TimingInv
<1> TAKE i \in Input
<1>1. CASE RouteStep
  BY <1>1, RouteCoherent
<1>2. CASE Tick
  BY <1>2, FrameAll DEF Tick, logVars
<1>3. ASSUME NEW w \in Worker, Start(w) \/ Crash(w)
      PROVE  Coherent(i)'
  BY <1>3, FrameAll DEF Start, Crash, rowVars, logVars
<1>4. ASSUME NEW w \in Worker, WorkerStep(w)
      PROVE  Coherent(i)'
  BY <1>3, <1>4, RecoveryCoherent, ClaimCoherent, PunctualRunCoherent DEF WorkerStep
<1>5. CASE UNCHANGED vars
  BY <1>5, FrameAll DEF vars, rowVars, logVars
<1> QED
  BY <1>1, <1>2, <1>4, <1>5 DEF Next

\* The proposal gate, a failing preparation and a compaction that is given up
\* do no harm either, as long as every worker is punctual and the store does
\* not refuse a write of the block that ends a run: an input gets one
\* terminal event at most, row, event and turn result agree, and a retry starts
\* from an empty event stream.
THEOREM PunctualQueueCoherent ==
  ASSUME Punctuality, "store" \notin MayThrow
  PROVE  Spec => [](QueuedInputsAreClean /\ OneTerminalEvent /\ VerdictsAgree)
<1> DEFINE I == TimingInv /\ \A i \in Input : Coherent(i)
<1>1. Init => I
  BY TimingInit, CoherentInit DEF CoherentInv
<1>2. I /\ [Next]_vars => I'
  BY TimingStep, PunctualCoherentStep
<1>3. I => QueuedInputsAreClean /\ OneTerminalEvent /\ VerdictsAgree
  BY CoherentSays DEF TimingInv
<1> HIDE DEF I
<1> QED
  BY <1>1, <1>2, <1>3, PTL DEF Spec

\* A retry of a recovered claim starts from an empty event stream.
THEOREM RetriesStartClean ==
  ASSUME Punctuality, "store" \notin MayThrow
  PROVE  Spec => []QueuedInputsAreClean
<1>1. Spec => [](QueuedInputsAreClean /\ OneTerminalEvent /\ VerdictsAgree)
  BY PunctualQueueCoherent
<1> QED
  BY <1>1, PTL

\* With punctual workers what was settled stays settled even by the paths that
\* write a row without looking at the claim: they are only ever reached by the
\* run that owns it.
THEOREM PunctualSettledStaysSettled ==
  ASSUME Punctuality
  PROVE  Spec => SettledIsFinal
<1>1. Init => TimingInv
  BY TimingInit
<1>2. TimingInv /\ [Next]_vars => TimingInv'
  BY TimingStep
<1>3. TimingInv /\ [Next]_vars =>
        [\A i \in Input : status[i] \in Settled => status'[i] = status[i]]_vars
  <2> SUFFICES ASSUME TimingInv, [Next]_vars, NEW i \in Input, status[i] \in Settled
               PROVE  status'[i] = status[i]
    OBVIOUS
  <2>1. BlindWritesHitClaims
    <3> SUFFICES ASSUME NEW w \in Worker, NEW j \in Input,
                        GateBlock(w, j) \/ SetupThrow(w, j)
                          \/ (\E n \in 1..4 : CompactGiveUp(w, j, n))
                          \/ (\E n \in 1..3 : StoreThrow(w, j, n))
                 PROVE  status[j] = "CLAIMED"
      BY DEF BlindWritesHitClaims
    <3>1. pc[w][j] # "idle"
      BY DEF GateBlock, SetupThrow, CompactGiveUp, StoreThrow, RunnerGone
    <3> QED
      BY <3>1, OwnRun DEF TimingInv, Owned
  <2> QED
    BY <2>1, SettledStep DEF TimingInv
<1> QED
  BY <1>1, <1>2, <1>3, PTL DEF Spec, SettledIsFinal

--------------------------------------------------------------------------------
(* With punctual workers the queue implements the life of an input          *)

\* The paths that do not look at the claim are invisible or keep the promise:
\* a blocked gate and a raising setup abandon the input without a report, and
\* a compaction that is given up reports a run that still has its claim.
LEMMA PunctualRunRefines ==
  ASSUME "store" \notin MayThrow, TimingInv, \A i \in Input : Coherent(i),
         NEW w \in Worker, NEW j \in Input,
         RunStep(w, j) \/ CrashFinalizing(w, j)
  PROVE  [Lifecycle!Next]_Lifecycle!vars
<1> USE DEF TimingInv
<1>a. ASSUME Up(w), Owned(w, j), NEW v \in Verdict, NEW n \in 1..4,
             Finalize(w, j, v, TRUE, n)
      PROVE  [Lifecycle!Next]_Lifecycle!vars
  <2>1. Lifecycle!Answer(j, v) \/ Lifecycle!Report(j, v)
    BY <1>a, FinalizeRefines
  <2> QED
    BY <2>1 DEF Lifecycle!Next
<1>1. CASE \/ GatePass(w, j) \/ LoseClaim(w, j) \/ RunnerHeartbeat(w, j)
           \/ RunnerEvent(w, j) \/ (\E v \in RunnerVerdict : RunnerTerminal(w, j, v))
           \/ RunnerExitLost(w, j) \/ RunnerExitCompact(w, j) \/ CompactRetry(w, j)
  BY <1>1, Invisible DEF GatePass, LoseClaim, RunnerHeartbeat, RunnerEvent, RunnerTerminal,
                         RunnerExitLost, RunnerExitCompact, CompactRetry, rowVars, logVars
<1>2. CASE GateBlock(w, j) \/ SetupThrow(w, j)
  <2>1. /\ status' = [status EXCEPT ![j] = "FAILED"] /\ UNCHANGED <<terminals, turn>>
        /\ pc[w][j] # "idle"
    BY <1>2 DEF GateBlock, SetupThrow, FailRaised, Release
  <2>2. status[j] = "CLAIMED"
    BY <2>1, OwnRun DEF Owned
  <2>3. /\ [i \in Input |-> PhaseOf(status[i])]'
             = [[i \in Input |-> PhaseOf(status[i])] EXCEPT ![j] = PhaseOf("FAILED")]
        /\ UNCHANGED <<[i \in Input |-> ReportOf(terminals[i])], turn>>
    BY <2>1, PhaseChange
  <2>4. PhaseOf("FAILED") = "settled" /\ PhaseOf(status[j]) = "taken"
    BY <2>2, Phases DEF Settled
  <2>5. Lifecycle!Abandon(j)
    BY <2>3, <2>4 DEF Lifecycle!Abandon
  <2> QED
    BY <2>5 DEF Lifecycle!Next
<1>3. ASSUME NEW n \in 1..4, RunnerExit(w, j, n)
      PROVE  [Lifecycle!Next]_Lifecycle!vars
  <2>1. Up(w) /\ Owned(w, j)
    BY <1>3 DEF RunnerExit, RunnerGone
  <2>2. terminals[j] = <<>>
    BY <2>1, OwnClaimUnreported
  <2>3. Finalize(w, j, Final(Outcome(w, j)), TRUE, n)
    BY <1>3, <2>2 DEF RunnerExit, Finalize
  <2> QED
    BY <1>a, <2>1, <2>3, OutcomeType
<1>4. ASSUME NEW n \in 1..4, CompactGiveUp(w, j, n)
      PROVE  [Lifecycle!Next]_Lifecycle!vars
  <2>1. Up(w) /\ Owned(w, j) /\ Finalize(w, j, "failed", TRUE, n) /\ "failed" \in Verdict
    BY <1>4, OwnRun DEF CompactGiveUp, Verdict
  <2> QED
    BY <1>a, <2>1
<1>5. 1..3 \subseteq 1..4 /\ 4 \in 1..4
  OBVIOUS
<1>6. CASE RunThrow(w, j)
  <2>1. CASE Finalize(w, j, "failed", TRUE, 4)
    <3>1. Up(w) /\ Owned(w, j) /\ "failed" \in Verdict
      BY <1>6, OwnRun DEF RunThrow, Verdict
    <3> QED
      BY <1>a, <1>5, <2>1, <3>1
  <2>2. CASE UNCHANGED <<process, rowVars, logVars, rtVars>>
    BY <2>2, Invisible DEF rowVars, logVars
  <2> QED
    BY <1>6, <2>1, <2>2 DEF RunThrow
<1>7. \A n \in 1..3 : ~StoreThrow(w, j, n)
  BY DEF StoreThrow
<1> QED
  BY <1>1, <1>2, <1>3, <1>4, <1>5, <1>6, <1>7
     DEF RunStep, CrashFinalizing, Gate, RunnerDone, CompactDone

\* With punctual workers the queue keeps the promise of InputLifecycle with the
\* proposal gate, raising setups and compactions too: no input is settled
\* twice, taken back after a report, or answered with something else than its
\* report, for any number of workers, sessions and inputs and any crash.
THEOREM PunctualQueueImplementsLifecycle ==
  ASSUME Punctuality, "store" \notin MayThrow
  PROVE  Spec => ImplementsLifecycle
<1> DEFINE I == TimingInv /\ \A i \in Input : Coherent(i)
<1>1. Init => I
  BY TimingInit, CoherentInit DEF CoherentInv
<1>2. I /\ [Next]_vars => I'
  BY TimingStep, PunctualCoherentStep
<1>3. Init => Lifecycle!Init
  BY Phases, Reports DEF Init, Lifecycle!Init
<1>4. I /\ [Next]_vars => [Lifecycle!Next]_Lifecycle!vars
  <2> SUFFICES ASSUME I, [Next]_vars
               PROVE  [Lifecycle!Next]_Lifecycle!vars
    OBVIOUS
  <2> USE DEF TimingInv
  <2>1. CASE RouteStep
    BY <2>1, RouteRefines
  <2>2. CASE Tick
    BY <2>2, Invisible DEF Tick, logVars
  <2>3. ASSUME NEW w \in Worker, WorkerStep(w)
        PROVE  [Lifecycle!Next]_Lifecycle!vars
    <3>1. CASE Start(w) \/ Crash(w)
      BY <3>1, Invisible DEF Start, Crash, rowVars, logVars
    <3>2. ASSUME NEW j \in Input, ClaimInput(w, j)
          PROVE  [Lifecycle!Next]_Lifecycle!vars
      BY <3>2, ClaimRefines DEF Lifecycle!Next
    <3>3. ASSUME NEW j \in Input, Keepalive(w, j)
          PROVE  [Lifecycle!Next]_Lifecycle!vars
      BY <3>3, Invisible DEF Keepalive, logVars
    <3> QED
      BY <2>3, <3>1, <3>2, <3>3, RecoveryRefines, PunctualRunRefines DEF WorkerStep
  <2>4. CASE UNCHANGED vars
    BY <2>4, Invisible DEF vars, rowVars, logVars
  <2> QED
    BY <2>1, <2>2, <2>3, <2>4 DEF Next
<1> HIDE DEF I
<1> QED
  BY <1>1, <1>2, <1>3, <1>4, PTL DEF Spec, ImplementsLifecycle, Lifecycle!Spec

\* Two processes never execute inputs of one session at the same time, and no
\* process executes two: whoever runs is the only one, for any number of
\* workers polling the same store.
SessionsRunAlone ==
  \A w, v \in Worker, i, j \in Input :
    Active(w, i) /\ Active(v, j) /\ SessionOf[i] = SessionOf[j] => w = v /\ i = j

\* Mutual exclusion of executions per session across all processes.
THEOREM SessionsAreExclusive ==
  ASSUME Punctuality
  PROVE  Spec => []SessionsRunAlone
<1>1. Spec => [](LiveRunsKeepTheirClaim /\ OneClaimPerSession)
  BY ClaimsAreSafe
<1>2. LiveRunsKeepTheirClaim /\ OneClaimPerSession => SessionsRunAlone
  BY DEF LiveRunsKeepTheirClaim, OneClaimPerSession, SessionsRunAlone, Owned
<1> QED
  BY <1>1, <1>2, PTL

--------------------------------------------------------------------------------
(* The sessions that are shown as busy                                      *)

\* A busy session names one of its own inputs and a worker.  With the timing
\* invariant, that worker is the owner of the claim.
Busy(s) == rtStatus[s] = "BUSY" =>
  /\ rtInput[s] \in Input /\ SessionOf[rtInput[s]] = s /\ rtWorker[s] \in Worker
  /\ status[rtInput[s]] = "CLAIMED" \/ process[rtWorker[s]] = "dead"

\* The session is left as it was, and what it names keeps its claim.
LEMMA BusyKept ==
  ASSUME TypeOK, [Next]_vars, NEW s \in Session, Busy(s),
         rtStatus'[s] = "BUSY" =>
           /\ rtStatus[s] = "BUSY" /\ rtInput'[s] = rtInput[s] /\ rtWorker'[s] = rtWorker[s]
           /\ status[rtInput[s]] = "CLAIMED" =>
                status'[rtInput[s]] = "CLAIMED" \/ process'[rtWorker[s]] = "dead"
  PROVE  Busy(s)'
BY DeadStayDead DEF Busy

\* The session is marked busy for a claimed input.
LEMMA BusySet ==
  ASSUME TypeOK, [Next]_vars, NEW j \in Input, NEW w \in Worker,
         status[j] = "CLAIMED", UNCHANGED status, SetRuntime(SessionOf[j], "BUSY", j, w),
         NEW s \in Session, Busy(s)
  PROVE  Busy(s)'
<1>1. CASE s = SessionOf[j]
  BY <1>1 DEF SetRuntime, Busy, TypeOK, RuntimeType
<1>2. CASE s # SessionOf[j]
  BY <1>2, BusyKept DEF SetRuntime, TypeOK, RuntimeType
<1> QED BY <1>1, <1>2

\* The claim of j ends, and its session is not busy any more.
LEMMA BusyCleared ==
  ASSUME TypeOK, [Next]_vars, NEW j \in Input, NEW st, st # "BUSY", NEW k, NEW w,
         SetRuntime(SessionOf[j], st, k, w),
         \A i \in Input \ {j} : status[i] = "CLAIMED" => status'[i] = "CLAIMED",
         NEW s \in Session, Busy(s)
  PROVE  Busy(s)'
<1>1. CASE s = SessionOf[j]
  BY <1>1 DEF SetRuntime, Busy, TypeOK, RuntimeType
<1>2. CASE s # SessionOf[j]
  <2>1. UNCHANGED <<rtStatus[s], rtInput[s], rtWorker[s]>>
    BY <1>2 DEF SetRuntime, TypeOK, RuntimeType
  <2>2. rtStatus[s] = "BUSY" => rtInput[s] \in Input \ {j}
    BY <1>2 DEF Busy
  <2> QED BY <2>1, <2>2, BusyKept
<1> QED BY <1>1, <1>2

LEMMA ReleasedAlone ==
  ASSUME TypeOK, NEW j \in Input, NEW st, Release(j, st)
  PROVE  \A i \in Input \ {j} : status[i] = "CLAIMED" => status'[i] = "CLAIMED"
BY DEF Release, TypeOK, RowType

\* The routes look at the claim before they touch the session.
LEMMA RouteBusy ==
  ASSUME TypeOK, [Next]_vars, RouteStep, NEW s \in Session, Busy(s)
  PROVE  Busy(s)'
<1>a. ASSUME NEW i \in Input, RuntimeAfterQueue(i),
             \A j \in Input : status[j] = "CLAIMED" => status'[j] = "CLAIMED"
      PROVE  Busy(s)'
  <2>1. CASE SetRuntime(SessionOf[i], "QUEUED", i, NoWorker)
    BY <1>a, <2>1, BusyCleared
  <2>2. CASE UNCHANGED <<rtStatus, rtInput, rtWorker>>
    BY <1>a, <2>2, BusyKept DEF Busy
  <2> QED BY <1>a, <2>1, <2>2 DEF RuntimeAfterQueue
<1>b. ASSUME NEW i \in Input, Enqueue(i), Fresh(i)
      PROVE  \A j \in Input : status[j] = "CLAIMED" => status'[j] = "CLAIMED"
  BY <1>b DEF Enqueue, Fresh, TypeOK, RowType
<1>1. ASSUME NEW i \in Input, QueueRoute(i) \/ QueueRouteAgain(i) PROVE Busy(s)'
  BY <1>1, <1>a, <1>b DEF QueueRoute, QueueRouteAgain, rowVars
<1>2. ASSUME NEW i \in Input, FireMessage(i) PROVE Busy(s)'
  <2>1. CASE s = SessionOf[i]
    BY <1>2, <2>1 DEF FireMessage, Busy, TypeOK, RuntimeType
  <2>2. CASE s # SessionOf[i]
    <3>1. UNCHANGED <<rtStatus[s], rtInput[s], rtWorker[s]>>
      BY <1>2, <2>2 DEF FireMessage, TypeOK, RuntimeType
    <3>2. \A j \in Input : status[j] = "CLAIMED" => status'[j] = "CLAIMED"
      BY <1>2, <1>b DEF FireMessage
    <3> QED BY <3>1, <3>2, BusyKept DEF Busy
  <2> QED BY <2>1, <2>2
<1>3. ASSUME NEW i \in Input, CancelRoute(i) PROVE Busy(s)'
  <2>1. \A j \in Input : status[j] = "CLAIMED" => status'[j] = "CLAIMED"
    BY <1>3 DEF CancelRoute, TypeOK, RowType
  <2>2. UNCHANGED <<rtStatus, rtInput, rtWorker>>
    BY <1>3 DEF CancelRoute, rtVars
  <2> QED BY <2>1, <2>2, BusyKept DEF Busy
<1>4. ASSUME NEW t \in Session, PauseQueued(t) PROVE Busy(s)'
  <2>1. rtInput[t] \in Input /\ status[rtInput[t]] = "QUEUED"
    BY <1>4 DEF PauseQueued, TypeOK, RuntimeType
  <2>2. Release(rtInput[t], "PAUSED") /\ SetRuntime(t, "PAUSED", NoInput, NoWorker)
    BY <1>4 DEF PauseQueued
  <2>3. \A j \in Input : status[j] = "CLAIMED" => status'[j] = "CLAIMED"
    BY <2>1, <2>2 DEF Release, TypeOK, RowType
  <2>4. CASE s = t
    BY <2>2, <2>4 DEF SetRuntime, Busy, TypeOK, RuntimeType
  <2>5. CASE s # t
    <3>1. UNCHANGED <<rtStatus[s], rtInput[s], rtWorker[s]>>
      BY <2>2, <2>5 DEF SetRuntime, TypeOK, RuntimeType
    <3> QED BY <2>3, <3>1, BusyKept DEF Busy
  <2> QED BY <2>4, <2>5
<1>5. ASSUME NEW w \in Worker, NEW t \in Session, PauseRunning(w, t) PROVE Busy(s)'
  BY <1>5, BusyKept DEF PauseRunning, rowVars, rtVars
<1> QED BY <1>1, <1>2, <1>3, <1>4, <1>5 DEF RouteStep

\* Recovery resets the session of a claim it takes.
LEMMA RecoveryBusy ==
  ASSUME TypeOK, [Next]_vars, NEW w \in Worker, NEW j \in Input, Recover(w, j),
         NEW s \in Session, Busy(s)
  PROVE  Busy(s)'
<1>1. CASE RenewOwnRun(w, j)
  BY <1>1, BusySet DEF RenewOwnRun, Recoverable
<1>2. ASSUME NEW st, NEW rst, rst # "BUSY", Release(j, st), ResetRuntime(j, rst)
      PROVE  Busy(s)'
  <2>1. CASE rtInput[SessionOf[j]] = j
    BY <1>2, <2>1, ReleasedAlone, BusyCleared DEF ResetRuntime
  <2>2. CASE rtInput[SessionOf[j]] # j
    <3>1. UNCHANGED <<rtStatus, rtInput, rtWorker>>
      BY <1>2, <2>2 DEF ResetRuntime, rtVars
    <3>2. rtStatus[s] = "BUSY" => rtInput[s] \in Input \ {j}
      BY <2>2 DEF Busy
    <3> QED BY <1>2, <3>1, <3>2, ReleasedAlone, BusyKept
  <2> QED BY <2>1, <2>2
<1>3. CASE RequeueClaim(w, j)
  BY <1>2, <1>3 DEF RequeueClaim
<1>4. CASE FailClaim(w, j)
  BY <1>2, <1>4 DEF FailClaim
<1> QED BY <1>1, <1>3, <1>4 DEF Recover

\* The end of a run resets the session, unless the worker dies before it does.
LEMMA FinalizeBusy ==
  ASSUME TimingInv, [Next]_vars, NEW w \in Worker, NEW j \in Input, Active(w, j),
         NEW v, NEW append, NEW n \in 1..4, Finalize(w, j, v, append, n),
         NEW s \in Session, Busy(s)
  PROVE  Busy(s)'
<1> USE DEF TimingInv
<1>1. CASE n >= 3
  <2>1. Release(j, StatusOf(v)) /\ SetRuntime(SessionOf[j], RuntimeStatusOf(v), NoInput, NoWorker)
    BY <1>1 DEF Finalize
  <2>2. RuntimeStatusOf(v) # "BUSY"
    BY DEF RuntimeStatusOf
  <2> QED BY <2>1, <2>2, ReleasedAlone, BusyCleared
<1>2. CASE n = 2
  <2>1. Release(j, StatusOf(v)) /\ UNCHANGED rtVars /\ Die(w)
    BY <1>2 DEF Finalize
  <2>2. process'[w] = "dead"
    BY <2>1 DEF Die, TypeOK, ProcessType
  <2>3. rtStatus[s] = "BUSY" /\ rtInput[s] = j => rtWorker[s] = w
    <3>1. Owned(w, j)
      BY OwnRun DEF Active
    <3>2. rtStatus[s] = "BUSY" /\ rtInput[s] = j => SessionOf[j] = s /\ rtWorker[s] \in Worker
      BY DEF Busy
    <3> QED BY <3>1, <3>2, SpecialWorker DEF Timed, Owned
  <2> QED BY <2>1, <2>2, <2>3, ReleasedAlone, BusyKept DEF Busy, rtVars
<1>3. CASE n = 1
  BY <1>3, BusyKept DEF Finalize, rtVars
<1> QED BY <1>1, <1>2, <1>3

LEMMA RunBusy ==
  ASSUME "store" \notin MayThrow, TimingInv, [Next]_vars, NEW w \in Worker, NEW j \in Input,
         RunStep(w, j) \/ CrashFinalizing(w, j), NEW s \in Session, Busy(s)
  PROVE  Busy(s)'
<1> USE DEF TimingInv
<1>a. pc[w][j] # "idle" => Active(w, j) /\ status[j] = "CLAIMED"
  BY OwnRun DEF Active, Owned
<1>b. ASSUME UNCHANGED status, UNCHANGED rtVars PROVE Busy(s)'
  BY <1>b, BusyKept DEF rtVars
<1>1. CASE GatePass(w, j)
  <2>1. Owned(w, j) /\ pc[w][j] # "idle"
    BY <1>1, OwnRun DEF GatePass
  <2> QED BY <1>1, <1>a, <2>1, BusySet DEF GatePass, rowVars
<1>2. CASE GateBlock(w, j) \/ SetupThrow(w, j)
  <2>1. Release(j, "FAILED") /\ SetRuntime(SessionOf[j], "ERROR", NoInput, NoWorker)
    BY <1>2 DEF GateBlock, SetupThrow, FailRaised
  <2> QED BY <2>1, ReleasedAlone, BusyCleared
<1>3. CASE RunnerHeartbeat(w, j)
  BY <1>3, BusySet DEF RunnerHeartbeat, Owned
<1>4. CASE \/ LoseClaim(w, j) \/ RunnerEvent(w, j)
           \/ \E v \in RunnerVerdict : RunnerTerminal(w, j, v)
           \/ RunnerExitLost(w, j) \/ RunnerExitCompact(w, j) \/ CompactRetry(w, j)
  BY <1>4, <1>b DEF LoseClaim, RunnerEvent, RunnerTerminal, RunnerExitLost, RunnerExitCompact,
                    CompactRetry, rowVars
<1>5. ASSUME NEW n \in 1..4, RunnerExit(w, j, n) \/ CompactGiveUp(w, j, n) PROVE Busy(s)'
  <2>1. Active(w, j)
    BY <1>5 DEF RunnerExit, RunnerGone, CompactGiveUp, Active
  <2> QED BY <1>5, <2>1, FinalizeBusy DEF RunnerExit, CompactGiveUp
<1>6. 1..3 \subseteq 1..4 /\ 4 \in 1..4
  OBVIOUS
<1>7. CASE RunThrow(w, j)
  <2>1. Active(w, j)
    BY <1>7 DEF RunThrow, Active
  <2> QED BY <1>6, <1>7, <1>b, <2>1, FinalizeBusy DEF RunThrow, rowVars
<1>8. \A n \in 1..3 : ~StoreThrow(w, j, n)
  BY DEF StoreThrow
<1> QED
  BY <1>1, <1>2, <1>3, <1>4, <1>5, <1>6, <1>7, <1>8
     DEF RunStep, CrashFinalizing, Gate, RunnerDone, CompactDone

LEMMA BusyStep ==
  ASSUME "store" \notin MayThrow, TimingInv, [Next]_vars, NEW s \in Session, Busy(s)
  PROVE  Busy(s)'
<1> USE DEF TimingInv
<1>a. ASSUME UNCHANGED <<status, rtStatus, rtInput, rtWorker>> PROVE Busy(s)'
  BY <1>a, BusyKept
<1>1. CASE RouteStep
  BY <1>1, RouteBusy
<1>2. CASE Tick
  BY <1>2, <1>a DEF Tick
<1>3. ASSUME NEW w \in Worker, WorkerStep(w) PROVE Busy(s)'
  <2>1. CASE Start(w) \/ Crash(w)
    BY <2>1, <1>a DEF Start, Crash, rowVars, rtVars
  <2>2. ASSUME NEW j \in Input, ClaimInput(w, j) PROVE Busy(s)'
    <3>1. \A i \in Input : status[i] = "CLAIMED" => status'[i] = "CLAIMED"
      BY <2>2 DEF ClaimInput, TypeOK, RowType
    <3> QED BY <2>2, <3>1, BusyKept DEF ClaimInput, rtVars, Busy
  <2>3. ASSUME NEW j \in Input, Keepalive(w, j) PROVE Busy(s)'
    BY <2>3, <1>a DEF Keepalive
  <2> QED BY <1>3, <2>1, <2>2, <2>3, RecoveryBusy, RunBusy DEF WorkerStep
<1>4. CASE UNCHANGED vars
  BY <1>4, <1>a DEF vars, rowVars, rtVars
<1> QED BY <1>1, <1>2, <1>3, <1>4 DEF Next

\* A session is shown as busy only while its input is claimed, or because the
\* process that marked it is dead, as long as every worker is punctual and the
\* store does not refuse a write of the block that ends a run.
THEOREM BusyMeansClaimed ==
  ASSUME Punctuality, "store" \notin MayThrow
  PROVE  Spec => []BusySessionsHaveAClaim
<1> DEFINE I == TimingInv /\ \A s \in Session : Busy(s)
<1>1. Init => I
  BY TimingInit DEF Init, Busy
<1>2. I /\ [Next]_vars => I'
  BY TimingStep, BusyStep
<1>3. I => BusySessionsHaveAClaim
  BY DEF Busy, BusySessionsHaveAClaim, Input, NoInput
<1> HIDE DEF I
<1> QED
  BY <1>1, <1>2, <1>3, PTL DEF Spec

================================================================================

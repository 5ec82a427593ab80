------------------------------ MODULE SessionQueue ------------------------------
(***************************************************************************)
(* The session input queue of the local runtime: the input rows and the    *)
(* session runtime state of the state store, the queue worker of every     *)
(* api-server process that polls them, the executor of a claimed input,    *)
(* and the HTTP and channel routes that feed, pause and cancel inputs.     *)
(*                                                                         *)
(* A synchronous block of JavaScript is one action; an action ends where   *)
(* the code awaits (the proposal gate, the runner, the compaction).  A     *)
(* crash may nevertheless cut the block that finalises a run, because each *)
(* of its SQL statements commits on its own.                               *)
(*                                                                         *)
(* Time is abstract.  lease[i] counts down the ticks left on a claim,      *)
(* beat[s] counts up the ticks since the last heartbeat of a session.      *)
(***************************************************************************)
EXTENDS Integers, Sequences, FiniteSets

CONSTANTS
  Worker,           \* identities of queue workers, one per process (claimedBy)
  NoWorker,         \* SQL NULL in claimed_by and current_worker_id
  Session,          \* the sessions of the workspace
  NumInputs,        \* bound: the inputs that are ever enqueued
  SessionOf,        \* the session an input is enqueued for
  Prio,             \* the priority it is enqueued with
  Scheduled,        \* the sessions of cron runs ("scheduled-<uuid>")
  Lease,            \* ticks a claim lasts unless it is renewed
  Stale,            \* ticks after which a heartbeat counts as stale
  MaxConcurrency,   \* runs one worker executes at a time
  RecoveryAttempts, \* requeues granted to an interrupted scheduled run
  MayStall,         \* workers whose event loop may be late by more than a tick
  GateMayBlock,     \* TRUE: an agent may have proposed unconnected integrations
  MayThrow,         \* what may raise: "setup" of a run, the "run" itself, or the
                    \* "store", refusing a write of the block that ends a run
  RunnerVerdict     \* bound: what a runner's terminal event may say

Input == 1..NumInputs

Verdict == {"completed", "waiting_user", "paused", "failed"}

ASSUME SessionQueueAssumption ==
  /\ NoWorker \notin Worker
  /\ NumInputs \in Nat
  /\ SessionOf \in [Input -> Session]
  /\ Prio \in [Input -> Int]
  /\ Scheduled \subseteq Session
  /\ MayStall \subseteq Worker
  /\ Lease \in Nat \ {0}
  /\ Stale \in Nat
  /\ MaxConcurrency \in Nat \ {0}
  /\ RecoveryAttempts \in Nat
  /\ GateMayBlock \in BOOLEAN
  /\ MayThrow \subseteq {"setup", "run", "store"}
  \* "terminated" is a run_failed the executor may retry (the pi harness): the
  \* provider cut a long-running request short.
  /\ RunnerVerdict \subseteq Verdict \cup {"terminated"}

NoInput == 0
NoBeat == -1

VARIABLES
  process,    \* [Worker -> "new" | "up" | "dead"]
  \* agent_session_inputs
  status, owner, lease, attempt,
  \* session_output_events and turn_results, what the code asks of them
  progress,   \* "none" | "held" (waiting event) | "run" (runner events)
  terminals,  \* the terminal events of the input, in the order appended
  turn,       \* the status of its turn result, or "none"
  \* session_runtime_state
  rtStatus, rtInput, rtWorker, beat,
  \* #activeRuns and the locals of processClaimedInput, per worker and input
  pc, abort, lost, seen, try

rowVars == <<status, owner, lease, attempt>>
logVars == <<progress, terminals, turn>>
rtVars  == <<rtStatus, rtInput, rtWorker, beat>>
runVars == <<pc, abort, lost, seen, try>>
vars == <<process, rowVars, logVars, rtVars, runVars>>

--------------------------------------------------------------------------------
(* Values *)

Settled == {"DONE", "FAILED", "PAUSED", "CANCELLED"}
InputStatus == {"NONE", "QUEUED", "CLAIMED"} \cup Settled
RuntimeStatus == {"IDLE", "BUSY", "WAITING_USER", "ERROR", "QUEUED", "PAUSED"}

AbortReason == {"none", "user_requested_pause", "claim_lost", "claim_expired"}
RunPc == {"idle", "gate", "runner", "unspawned", "compact"}

StatusOf(v) == CASE v = "failed" -> "FAILED"
                 [] v = "paused" -> "PAUSED"
                 [] OTHER        -> "DONE"

\* Mutant: the status literal of the executor's gate branch.
RuntimeStatusOfTypo(v) == CASE v = "failed"       -> "ERROR"
                            [] v = "paused"       -> "PAUSED"
                            [] v = "waiting_user" -> "WAITING_ON_USER"
                            [] OTHER              -> "IDLE"

RuntimeStatusOf(v) == CASE v = "failed"       -> "ERROR"
                        [] v = "paused"       -> "PAUSED"
                        [] v = "waiting_user" -> "WAITING_USER"
                        [] OTHER              -> "IDLE"

--------------------------------------------------------------------------------
(* Helpers *)

Up(w) == process[w] = "up"
ServerUp == \E w \in Worker : Up(w)

Active(w, i) == pc[w][i] # "idle"
ActiveRuns(w) == {i \in Input : Active(w, i)}

\* claimStillOwned: the row is still this worker's claim.
Owned(w, i) == status[i] = "CLAIMED" /\ owner[i] = w

\* updateRuntimeState overwrites every column and always leaves a heartbeat.
SetRuntime(s, st, i, w) ==
  /\ rtStatus' = [rtStatus EXCEPT ![s] = st]
  /\ rtInput' = [rtInput EXCEPT ![s] = i]
  /\ rtWorker' = [rtWorker EXCEPT ![s] = w]
  /\ beat' = [beat EXCEPT ![s] = 0]

\* updateInput with claimedBy and claimedUntil null.
Release(i, st) ==
  /\ status' = [status EXCEPT ![i] = st]
  /\ owner' = [owner EXCEPT ![i] = NoWorker]
  /\ lease' = [lease EXCEPT ![i] = 0]

RunIs(w, i, p, a, l, v, n) ==
  /\ pc' = [pc EXCEPT ![w][i] = p]
  /\ abort' = [abort EXCEPT ![w][i] = a]
  /\ lost' = [lost EXCEPT ![w][i] = l]
  /\ seen' = [seen EXCEPT ![w][i] = v]
  /\ try' = [try EXCEPT ![w][i] = n]

EndRun(w, i) == RunIs(w, i, "idle", "none", FALSE, "none", 0)

\* An AbortController keeps its first reason.
Aborted(w, i, reason) ==
  abort' = [abort EXCEPT ![w][i] = IF @ = "none" THEN reason ELSE @]

Die(w) ==
  /\ process' = [process EXCEPT ![w] = "dead"]
  /\ pc' = [pc EXCEPT ![w] = [i \in Input |-> "idle"]]
  /\ abort' = [abort EXCEPT ![w] = [i \in Input |-> "none"]]
  /\ lost' = [lost EXCEPT ![w] = [i \in Input |-> FALSE]]
  /\ seen' = [seen EXCEPT ![w] = [i \in Input |-> "none"]]
  /\ try' = [try EXCEPT ![w] = [i \in Input |-> 0]]

\* Bound: the last identity that is left does not crash.
MayDie(w) == Up(w) /\ \E v \in Worker \ {w} : process[v] # "dead"

--------------------------------------------------------------------------------
(* Routes: the queue route, the channel port, pause and cancel *)

\* The runtime state the queue route leaves behind it for input i.
RuntimeAfterQueue(i) ==
  LET s == SessionOf[i]
      cur == rtInput[s] IN
  IF cur # NoInput /\ status[cur] = "CLAIMED"
  THEN /\ beat' = [beat EXCEPT ![s] = IF @ = NoBeat THEN 0 ELSE @]
       /\ UNCHANGED <<rtStatus, rtInput, rtWorker>>
  ELSE SetRuntime(s, "QUEUED", i, NoWorker)

\* The next input of the model's universe: created_at follows the identity.
Fresh(i) == status[i] = "NONE" /\ \A j \in Input : j < i => status[j] # "NONE"

Enqueue(i) ==
  /\ status' = [status EXCEPT ![i] = "QUEUED"]
  /\ UNCHANGED <<owner, lease, attempt, logVars>>

QueueRoute(i) ==
  /\ ServerUp
  /\ Fresh(i)
  /\ Enqueue(i)
  /\ RuntimeAfterQueue(i)
  /\ UNCHANGED <<process, runVars>>

\* The same request again, with the idempotency key of the first one: the row
\* is returned whatever its status, the runtime state is written all the same.
QueueRouteAgain(i) ==
  /\ ServerUp
  /\ status[i] # "NONE"
  /\ RuntimeAfterQueue(i)
  /\ UNCHANGED <<process, rowVars, logVars, runVars>>

\* A chat message.  The port resets status and current input before it
\* enqueues, and leaves the worker and heartbeat columns as they were.
FireMessage(i) ==
  /\ ServerUp
  /\ Fresh(i)
  /\ Enqueue(i)
  /\ rtStatus' = [rtStatus EXCEPT ![SessionOf[i]] = "IDLE"]
  /\ rtInput' = [rtInput EXCEPT ![SessionOf[i]] = NoInput]
  /\ UNCHANGED <<process, rtWorker, beat, runVars>>

CancelRoute(i) ==
  /\ ServerUp
  /\ status[i] = "QUEUED"
  /\ status' = [status EXCEPT ![i] = "CANCELLED"]
  /\ UNCHANGED <<process, owner, lease, attempt, logVars, rtVars, runVars>>

\* Mutant: the status of the current input is not looked at.
PauseQueuedUnchecked(s) ==
  LET i == rtInput[s] IN
  /\ ServerUp
  /\ i # NoInput
  /\ status[i] # "CLAIMED"
  /\ terminals' = [terminals EXCEPT ![i] = Append(@, "paused")]
  /\ Release(i, "PAUSED")
  /\ SetRuntime(s, "PAUSED", NoInput, NoWorker)
  /\ turn' = [turn EXCEPT ![i] = "paused"]
  /\ UNCHANGED <<process, attempt, progress, runVars>>

\* pauseSessionRun on an input that nobody claimed yet.
PauseQueued(s) ==
  LET i == rtInput[s] IN
  /\ ServerUp
  /\ i # NoInput
  /\ status[i] = "QUEUED"
  /\ terminals' = [terminals EXCEPT ![i] = Append(@, "paused")]
  /\ Release(i, "PAUSED")
  /\ SetRuntime(s, "PAUSED", NoInput, NoWorker)
  /\ turn' = [turn EXCEPT ![i] = "paused"]
  /\ UNCHANGED <<process, attempt, progress, runVars>>

\* pauseSessionRun on a run of this very process.
PauseRunning(w, s) ==
  LET i == rtInput[s] IN
  /\ Up(w)
  /\ i # NoInput
  /\ status[i] = "CLAIMED"
  /\ Active(w, i)
  /\ Aborted(w, i, "user_requested_pause")
  /\ UNCHANGED <<process, rowVars, logVars, rtVars, pc, lost, seen, try>>

--------------------------------------------------------------------------------
(* One pass of the queue worker: recovery of claims, then new claims.  The *)
(* pass is split per row; no row is claimed while one is left to recover.  *)

Expired(i) == lease[i] = 0

\* The session's runtime state says another worker is on this input.
HeldElsewhere(w, i) ==
  LET s == SessionOf[i] IN
  /\ ~Active(w, i)
  /\ rtInput[s] = i
  /\ rtWorker[s] \notin {NoWorker, w}

\* Mutant: a fresh heartbeat does not protect a claim.
RecoverableFresh(w, i) ==
  LET b == beat[SessionOf[i]] IN
  /\ status[i] = "CLAIMED"
  /\ IF Expired(i)
     THEN ~(HeldElsewhere(w, i) /\ b # NoBeat /\ b <= Stale)
     ELSE HeldElsewhere(w, i)

\* Mutant: an expired claim that names another worker is left alone for good.
RecoverableShy(w, i) ==
  LET b == beat[SessionOf[i]] IN
  /\ status[i] = "CLAIMED"
  /\ IF Expired(i)
     THEN ~HeldElsewhere(w, i)
     ELSE HeldElsewhere(w, i) /\ b > Stale

Recoverable(w, i) ==
  LET b == beat[SessionOf[i]] IN
  /\ status[i] = "CLAIMED"
  /\ IF Expired(i)
     THEN ~(HeldElsewhere(w, i) /\ b # NoBeat /\ b <= Stale)
     ELSE HeldElsewhere(w, i) /\ b > Stale

\* Mutant: only the events decide, not the terminal or the turn result.
ShouldRequeueBlind(i) ==
  \/ progress[i] = "none"
  \/ SessionOf[i] \in Scheduled /\ attempt[i] < RecoveryAttempts

\* Nothing of the input was done, or it is a cron run with attempts left.
ShouldRequeue(i) ==
  /\ terminals[i] = <<>>
  /\ turn[i] = "none"
  /\ \/ progress[i] = "none"
     \/ SessionOf[i] \in Scheduled /\ attempt[i] < RecoveryAttempts

\* Bound: attempt is compared with RecoveryAttempts only, so it saturates there.
NextAttempt(n) == IF n < RecoveryAttempts THEN n + 1 ELSE n

RenewOwnRun(w, i) ==
  /\ Up(w)
  /\ Recoverable(w, i)
  /\ Expired(i)
  /\ Active(w, i)
  /\ owner[i] = w
  /\ lease' = [lease EXCEPT ![i] = Lease]
  /\ SetRuntime(SessionOf[i], "BUSY", i, w)
  /\ UNCHANGED <<process, status, owner, attempt, logVars, runVars>>

\* The recovery branches reset the session only if it points at this input.
ResetRuntime(i, st) ==
  LET s == SessionOf[i] IN
  IF rtInput[s] = i THEN SetRuntime(s, st, NoInput, NoWorker)
                    ELSE UNCHANGED rtVars

\* Mutant: the events of the interrupted attempt are not cleared.
RequeueClaimDirty(w, i) ==
  /\ Up(w)
  /\ Recoverable(w, i)
  /\ ~Active(w, i)
  /\ ShouldRequeue(i)
  /\ Release(i, "QUEUED")
  /\ attempt' = [attempt EXCEPT ![i] = NextAttempt(@)]
  /\ ResetRuntime(i, "IDLE")
  /\ UNCHANGED <<process, logVars, runVars>>

RequeueClaim(w, i) ==
  /\ Up(w)
  /\ Recoverable(w, i)
  /\ ~Active(w, i)
  /\ ShouldRequeue(i)
  /\ Release(i, "QUEUED")
  /\ attempt' = [attempt EXCEPT ![i] = NextAttempt(@)]
  /\ progress' = [progress EXCEPT ![i] = "none"]
  /\ ResetRuntime(i, "IDLE")
  /\ UNCHANGED <<process, terminals, turn, runVars>>

\* Mutant: run_failed is appended whatever is persisted already.
FailClaimTwice(w, i) ==
  /\ Up(w)
  /\ Recoverable(w, i)
  /\ ~(Expired(i) /\ Active(w, i) /\ owner[i] = w)
  /\ Active(w, i) \/ ~ShouldRequeue(i)
  /\ IF Active(w, i) THEN Aborted(w, i, "claim_expired") ELSE UNCHANGED abort
  /\ terminals' = [terminals EXCEPT ![i] = Append(@, "failed")]
  /\ Release(i, "FAILED")
  /\ ResetRuntime(i, "ERROR")
  /\ UNCHANGED <<process, attempt, progress, turn, pc, lost, seen, try>>

FailClaim(w, i) ==
  /\ Up(w)
  /\ Recoverable(w, i)
  /\ ~(Expired(i) /\ Active(w, i) /\ owner[i] = w)
  /\ Active(w, i) \/ ~ShouldRequeue(i)
  /\ IF Active(w, i) THEN Aborted(w, i, "claim_expired") ELSE UNCHANGED abort
  /\ terminals' = [terminals EXCEPT
                     ![i] = IF @ = <<>> THEN <<"failed">> ELSE @]
  /\ Release(i, "FAILED")
  /\ ResetRuntime(i, "ERROR")
  /\ UNCHANGED <<process, attempt, progress, turn, pc, lost, seen, try>>

\* Mutant: the NOT EXISTS of claimInputs is missing.
ClaimableAnySession(w, i) ==
  /\ status[i] = "QUEUED"
  /\ \A j \in ActiveRuns(w) : SessionOf[j] # SessionOf[i]

\* Mutant: the sessions this worker is running are not excluded.
ClaimableWhileRunning(w, i) ==
  /\ status[i] = "QUEUED"
  /\ \A j \in Input \ {i} :
       SessionOf[j] = SessionOf[i] /\ status[j] = "CLAIMED" => Expired(j)

\* claimInputs: queued, in a session this worker is not running and in which
\* nobody holds another unexpired claim; highest priority, then oldest, first.
Claimable(w, i) ==
  /\ status[i] = "QUEUED"
  /\ \A j \in ActiveRuns(w) : SessionOf[j] # SessionOf[i]
  /\ \A j \in Input \ {i} :
       SessionOf[j] = SessionOf[i] /\ status[j] = "CLAIMED" => Expired(j)

Precedes(i, j) == Prio[i] > Prio[j] \/ (Prio[i] = Prio[j] /\ i <= j)

ClaimInput(w, i) ==
  /\ Up(w)
  /\ \A j \in Input : ~Recoverable(w, j)
  /\ Cardinality(ActiveRuns(w)) < MaxConcurrency
  /\ Claimable(w, i)
  /\ \A j \in Input : Claimable(w, j) => Precedes(i, j)
  /\ status' = [status EXCEPT ![i] = "CLAIMED"]
  /\ owner' = [owner EXCEPT ![i] = w]
  /\ lease' = [lease EXCEPT ![i] = Lease]
  /\ RunIs(w, i, "gate", "none", FALSE, "none", 0)
  /\ UNCHANGED <<process, attempt, logVars, rtVars>>

\* The keepalive timer of a run: it renews the claim while the row is still
\* its own, and the heartbeat while the session still points at the run.
Keepalive(w, i) ==
  LET s == SessionOf[i] IN
  /\ Up(w)
  /\ Active(w, i)
  /\ Owned(w, i)
  /\ lease' = [lease EXCEPT ![i] = Lease]
  /\ beat' = [beat EXCEPT ![s] =
                IF rtInput[s] = i /\ rtWorker[s] = w THEN 0 ELSE @]
  /\ UNCHANGED <<process, status, owner, attempt, logVars,
                 rtStatus, rtInput, rtWorker, runVars>>

--------------------------------------------------------------------------------
(* The executor, between its awaits *)

\* The gate lets the input through: reserve the session, check the claim,
\* mark the session busy and spawn the runner.
GatePass(w, i) ==
  LET s == SessionOf[i] IN
  /\ Up(w)
  /\ pc[w][i] = "gate"
  /\ IF Owned(w, i)
     THEN /\ SetRuntime(s, "BUSY", i, w)
          /\ RunIs(w, i, IF abort[w][i] = "none" THEN "runner" ELSE "unspawned",
                   abort[w][i], FALSE, "none", 1)
     ELSE /\ SetRuntime(s, "QUEUED", i, w)
          /\ EndRun(w, i)
  /\ UNCHANGED <<process, rowVars, logVars>>

\* What the queue worker writes when the executor raised.
FailRaised(w, i) ==
  /\ Release(i, "FAILED")
  /\ SetRuntime(SessionOf[i], "ERROR", NoInput, NoWorker)
  /\ EndRun(w, i)
  /\ UNCHANGED <<process, attempt, terminals, turn>>

\* The gate blocks.  The row goes back to QUEUED with a later available_at,
\* then the runtime state is given the status "WAITING_ON_USER", which the
\* CHECK constraint of session_runtime_state refuses: the executor raises in
\* the same turn of the event loop, and the worker fails the input.
GateBlock(w, i) ==
  /\ GateMayBlock
  /\ Up(w)
  /\ pc[w][i] = "gate"
  /\ progress' = [progress EXCEPT ![i] = "held"]
  /\ FailRaised(w, i)

SetupThrow(w, i) ==
  /\ "setup" \in MayThrow
  /\ Up(w)
  /\ pc[w][i] = "gate"
  /\ FailRaised(w, i)
  /\ UNCHANGED progress

\* renewClaimLease finds the claim gone: remember it and stop the runner.
LoseClaim(w, i) ==
  /\ Up(w)
  /\ pc[w][i] = "runner"
  /\ ~Owned(w, i)
  /\ ~lost[w][i]
  /\ lost' = [lost EXCEPT ![w][i] = TRUE]
  /\ Aborted(w, i, "claim_lost")
  /\ UNCHANGED <<process, rowVars, logVars, rtVars, pc, seen, try>>

\* renewClaimLease on a heartbeat or an event, the claim being in place.
RunnerHeartbeat(w, i) ==
  /\ Up(w)
  /\ pc[w][i] = "runner"
  /\ Owned(w, i)
  /\ lease' = [lease EXCEPT ![i] = Lease]
  /\ SetRuntime(SessionOf[i], "BUSY", i, w)
  /\ UNCHANGED <<process, status, owner, attempt, logVars, runVars>>

\* An event of the runner that is not terminal, while the claim holds.
RunnerEvent(w, i) ==
  /\ Up(w)
  /\ pc[w][i] = "runner"
  /\ seen[w][i] = "none"
  /\ Owned(w, i)
  /\ progress' = [progress EXCEPT ![i] = "run"]
  /\ UNCHANGED <<process, rowVars, terminals, turn, rtVars, runVars>>

\* The terminal event is kept in a local until the run is finalised.
RunnerTerminal(w, i, v) ==
  /\ Up(w)
  /\ pc[w][i] = "runner"
  /\ seen[w][i] = "none"
  /\ Owned(w, i)
  /\ seen' = [seen EXCEPT ![w][i] = v]
  /\ UNCHANGED <<process, rowVars, logVars, rtVars, pc, abort, lost, try>>

\* A persisted terminal wins over the runner's, the runner's over the reason
\* of an abort, and a runner that ended without one has failed.
Outcome(w, i) ==
  IF terminals[i] # <<>> THEN terminals[i][Len(terminals[i])]
  ELSE IF seen[w][i] # "none" THEN seen[w][i]
  ELSE IF abort[w][i] = "user_requested_pause" THEN "paused"
  ELSE "failed"

\* The provider-termination outcome, once it is not going to be retried.
Final(v) == IF v = "terminated" THEN "failed" ELSE v

\* Mutant: the runtime state is not reset at the end of a run.
FinalizeStillBusy(w, i, v, append, n) ==
  /\ terminals' = [terminals EXCEPT ![i] = IF append THEN Append(@, v) ELSE @]
  /\ IF n >= 2 THEN Release(i, StatusOf(v)) ELSE UNCHANGED <<status, owner, lease>>
  /\ UNCHANGED rtVars
  /\ IF n = 4 THEN /\ turn' = [turn EXCEPT ![i] = v]
                   /\ EndRun(w, i)
                   /\ UNCHANGED process
              ELSE /\ MayDie(w)
                   /\ Die(w)
                   /\ UNCHANGED turn
  /\ UNCHANGED <<attempt, progress>>

\* The synchronous block that finalises a run with verdict v.  Its writes
\* commit one by one: the terminal event (unless it is persisted already), the
\* row, the runtime state, the turn result.  n is how many of them happen
\* before the process dies; all four make a complete step.
Finalize(w, i, v, append, n) ==
  /\ terminals' = [terminals EXCEPT ![i] = IF append THEN Append(@, v) ELSE @]
  /\ IF n >= 2 THEN Release(i, StatusOf(v)) ELSE UNCHANGED <<status, owner, lease>>
  /\ IF n >= 3 THEN SetRuntime(SessionOf[i], RuntimeStatusOf(v), NoInput, NoWorker)
               ELSE UNCHANGED rtVars
  /\ IF n = 4 THEN /\ turn' = [turn EXCEPT ![i] = v]
                   /\ EndRun(w, i)
                   /\ UNCHANGED process
              ELSE /\ MayDie(w)
                   /\ Die(w)
                   /\ UNCHANGED turn
  /\ UNCHANGED <<attempt, progress>>

RunnerGone(w, i) == Up(w) /\ pc[w][i] \in {"runner", "unspawned"}

\* The runner is gone and the claim is too: leave without a trace.
RunnerExitLost(w, i) ==
  /\ RunnerGone(w, i)
  /\ lost[w][i] \/ ~Owned(w, i)
  /\ EndRun(w, i)
  /\ UNCHANGED <<process, rowVars, logVars, rtVars>>

\* Mutant: the claim is not checked when the runner is gone.
RunnerExitUnchecked(w, i, n) ==
  LET v == Outcome(w, i) IN
  /\ RunnerGone(w, i)
  /\ v # "terminated" \/ try[w][i] = 2
  /\ Finalize(w, i, Final(v), terminals[i] = <<>>, n)

RunnerExit(w, i, n) ==
  LET v == Outcome(w, i) IN
  /\ RunnerGone(w, i)
  /\ ~lost[w][i]
  /\ Owned(w, i)
  /\ v # "terminated" \/ try[w][i] = 2
  /\ Finalize(w, i, Final(v), terminals[i] = <<>>, n)

\* A first attempt that the provider terminated awaits a compaction.
RunnerExitCompact(w, i) ==
  /\ RunnerGone(w, i)
  /\ ~lost[w][i]
  /\ Owned(w, i)
  /\ Outcome(w, i) = "terminated"
  /\ try[w][i] = 1
  /\ pc' = [pc EXCEPT ![w][i] = "compact"]
  /\ UNCHANGED <<process, rowVars, logVars, rtVars, abort, lost, seen, try>>

\* The compaction changed the branch: the runner gets its second attempt.
CompactRetry(w, i) ==
  /\ Up(w)
  /\ pc[w][i] = "compact"
  /\ RunIs(w, i, IF abort[w][i] = "none" THEN "runner" ELSE "unspawned",
           abort[w][i], lost[w][i], "none", 2)
  /\ UNCHANGED <<process, rowVars, logVars, rtVars>>

\* It did not: the failure is final.  The claim is not looked at again.
CompactGiveUp(w, i, n) ==
  /\ Up(w)
  /\ pc[w][i] = "compact"
  /\ Finalize(w, i, "failed", TRUE, n)

\* The runner or the compaction raises.  The executor's catch fails the input,
\* unless the claim is gone.
RunThrow(w, i) ==
  /\ "run" \in MayThrow
  /\ Up(w)
  /\ pc[w][i] \in {"runner", "unspawned", "compact"}
  /\ IF Owned(w, i) /\ ~lost[w][i]
     THEN Finalize(w, i, "failed", TRUE, 4)
     ELSE /\ EndRun(w, i)
          /\ UNCHANGED <<process, rowVars, logVars, rtVars>>

\* The store refuses the write after the n-th of the finalising block.  The
\* catch fails the input if the row was not written yet, with a terminal event
\* of its own; otherwise the claim is released and the catch leaves silently.
\* Bound: the writes of the catch itself succeed.
StoreThrow(w, i, n) ==
  LET late == pc[w][i] = "compact"
      v == IF late THEN "failed" ELSE Final(Outcome(w, i))
      events == IF late \/ terminals[i] = <<>> THEN Append(terminals[i], v)
                                              ELSE terminals[i]
      caught == n = 1 /\ Owned(w, i) IN
  /\ "store" \in MayThrow
  /\ Up(w)
  /\ \/ late
     \/ /\ RunnerGone(w, i)
        /\ ~lost[w][i]
        /\ Owned(w, i)
        /\ Outcome(w, i) # "terminated" \/ try[w][i] = 2
  /\ terminals' = [terminals EXCEPT
                     ![i] = IF caught THEN Append(events, "failed") ELSE events]
  /\ turn' = [turn EXCEPT ![i] = IF caught THEN "failed" ELSE @]
  /\ IF caught \/ n > 1 THEN Release(i, IF caught THEN "FAILED" ELSE StatusOf(v))
                        ELSE UNCHANGED <<status, owner, lease>>
  /\ IF caught \/ n = 3
     THEN SetRuntime(SessionOf[i], IF caught THEN "ERROR" ELSE RuntimeStatusOf(v),
                     NoInput, NoWorker)
     ELSE UNCHANGED rtVars
  /\ EndRun(w, i)
  /\ UNCHANGED <<process, attempt, progress>>

--------------------------------------------------------------------------------
(* Processes and time *)

Start(w) ==
  /\ process[w] = "new"
  /\ process' = [process EXCEPT ![w] = "up"]
  /\ UNCHANGED <<rowVars, logVars, rtVars, runVars>>

Crash(w) ==
  /\ MayDie(w)
  /\ Die(w)
  /\ UNCHANGED <<rowVars, logVars, rtVars>>

\* A tick is longer than the keepalive interval, so the timers of a worker
\* whose event loop is not blocked have renewed its claims since the last one.
Punctual(w) ==
  w \notin MayStall =>
    \A i \in Input : Up(w) /\ Active(w, i) /\ Owned(w, i) => lease[i] = Lease

Tick ==
  /\ \A w \in Worker : Punctual(w)
  /\ lease' = [i \in Input |-> IF lease[i] = 0 THEN 0 ELSE lease[i] - 1]
  /\ beat' = [s \in Session |-> IF beat[s] \in 0..Stale THEN beat[s] + 1 ELSE beat[s]]
  /\ UNCHANGED <<process, status, owner, attempt, logVars,
                 rtStatus, rtInput, rtWorker, runVars>>

--------------------------------------------------------------------------------
(* Specification *)

Init ==
  /\ process = [w \in Worker |-> "new"]
  /\ status = [i \in Input |-> "NONE"]
  /\ owner = [i \in Input |-> NoWorker]
  /\ lease = [i \in Input |-> 0]
  /\ attempt = [i \in Input |-> 0]
  /\ progress = [i \in Input |-> "none"]
  /\ terminals = [i \in Input |-> <<>>]
  /\ turn = [i \in Input |-> "none"]
  /\ rtStatus = [s \in Session |-> "IDLE"]
  /\ rtInput = [s \in Session |-> NoInput]
  /\ rtWorker = [s \in Session |-> NoWorker]
  /\ beat = [s \in Session |-> NoBeat]
  /\ pc = [w \in Worker |-> [i \in Input |-> "idle"]]
  /\ abort = [w \in Worker |-> [i \in Input |-> "none"]]
  /\ lost = [w \in Worker |-> [i \in Input |-> FALSE]]
  /\ seen = [w \in Worker |-> [i \in Input |-> "none"]]
  /\ try = [w \in Worker |-> [i \in Input |-> 0]]

RouteStep ==
  \/ \E i \in Input : QueueRoute(i)
  \/ \E i \in Input : QueueRouteAgain(i)
  \/ \E i \in Input : FireMessage(i)
  \/ \E i \in Input : CancelRoute(i)
  \/ \E s \in Session : PauseQueued(s)
  \/ \E w \in Worker, s \in Session : PauseRunning(w, s)

Recover(w, i) == RenewOwnRun(w, i) \/ RequeueClaim(w, i) \/ FailClaim(w, i)

Gate(w, i) == GatePass(w, i) \/ GateBlock(w, i) \/ SetupThrow(w, i)

RunnerDone(w, i) ==
  RunnerExitLost(w, i) \/ RunnerExit(w, i, 4) \/ RunnerExitCompact(w, i)

CompactDone(w, i) == CompactRetry(w, i) \/ CompactGiveUp(w, i, 4)

RunStep(w, i) ==
  \/ Gate(w, i)
  \/ LoseClaim(w, i)
  \/ RunnerHeartbeat(w, i)
  \/ RunnerEvent(w, i)
  \/ \E v \in RunnerVerdict : RunnerTerminal(w, i, v)
  \/ RunnerDone(w, i)
  \/ CompactDone(w, i)
  \/ RunThrow(w, i)
  \/ \E n \in 1..3 : StoreThrow(w, i, n)

\* A crash in the middle of the finalising block.
CrashFinalizing(w, i) ==
  \E n \in 1..3 : RunnerExit(w, i, n) \/ CompactGiveUp(w, i, n)

WorkerStep(w) ==
  \/ Start(w)
  \/ Crash(w)
  \/ \E i \in Input : Recover(w, i)
  \/ \E i \in Input : ClaimInput(w, i)
  \/ \E i \in Input : Keepalive(w, i)
  \/ \E i \in Input : RunStep(w, i)
  \/ \E i \in Input : CrashFinalizing(w, i)

Next == RouteStep \/ Tick \/ \E w \in Worker : WorkerStep(w)

Spec == Init /\ [][Next]_vars

\* The desktop restarts a dead runtime, the poll loop and the timers fire, the
\* gate's calls return, the runner ends (its hard timeout kills it) and so does
\* the compaction.  Nobody has to send, pause or cancel anything.
Fairness ==
  /\ WF_vars(\E w \in Worker : Start(w))
  /\ WF_vars(Tick)
  /\ \A w \in Worker :
       /\ WF_vars(\E i \in Input : Recover(w, i))
       /\ WF_vars(\E i \in Input : ClaimInput(w, i))
       /\ \A i \in Input :
            /\ WF_vars(Keepalive(w, i))
            /\ WF_vars(Gate(w, i))
            /\ WF_vars(RunnerDone(w, i))
            /\ WF_vars(CompactDone(w, i))

FairSpec == Spec /\ Fairness

--------------------------------------------------------------------------------
(* Properties *)

ProcessType == process \in [Worker -> {"new", "up", "dead"}]

RowType ==
  /\ status \in [Input -> InputStatus]
  /\ owner \in [Input -> Worker \cup {NoWorker}]
  /\ lease \in [Input -> 0..Lease]
  /\ attempt \in [Input -> 0..RecoveryAttempts]

LogType ==
  /\ progress \in [Input -> {"none", "held", "run"}]
  /\ terminals \in [Input -> Seq(Verdict)]
  /\ turn \in [Input -> Verdict \cup {"none"}]

RuntimeType ==
  /\ rtStatus \in [Session -> RuntimeStatus]
  /\ rtInput \in [Session -> Input \cup {NoInput}]
  /\ rtWorker \in [Session -> Worker \cup {NoWorker}]
  /\ beat \in [Session -> NoBeat..(Stale + 1)]

RunType ==
  /\ pc \in [Worker -> [Input -> RunPc]]
  /\ abort \in [Worker -> [Input -> AbortReason]]
  /\ lost \in [Worker -> [Input -> BOOLEAN]]
  /\ seen \in [Worker -> [Input -> RunnerVerdict \cup {"none"}]]
  /\ try \in [Worker -> [Input -> 0..2]]

\* The types of the tables, of the run locals and of the model's clocks.
TypeOK == ProcessType /\ RowType /\ LogType /\ RuntimeType /\ RunType

\* One process never executes two inputs of one session at a time, whatever
\* stalls, is recovered by a peer or queued anew (claimInputs' exclusion of
\* the sessions that processAvailableInputsOnce is running).
OneActiveRunPerSession ==
  \A w \in Worker : \A i, j \in ActiveRuns(w) :
    SessionOf[i] = SessionOf[j] => i = j

\* While every event loop is punctual no peer takes a claim from a live run,
\* although chat messages, queue requests and pauses rewrite the very columns
\* (#claimRecovery reads them) that tell whether a claim is abandoned.
LiveRunsKeepTheirClaim ==
  \A w \in Worker, i \in Input : Active(w, i) => Owned(w, i)

\* Across all processes one session has one claim at most, also while a dead
\* worker's claim waits to be recovered (claimInputs' NOT EXISTS).
OneClaimPerSession ==
  \A i, j \in Input :
    /\ status[i] = "CLAIMED"
    /\ status[j] = "CLAIMED"
    /\ SessionOf[i] = SessionOf[j]
    => i = j

\* An input that waits (again) starts from an empty event stream, so a retry
\* never shows the events of the attempt it replaces (#recoverClaimedInputs).
QueuedInputsAreClean ==
  \A i \in Input : status[i] = "QUEUED" =>
    progress[i] = "none" /\ terminals[i] = <<>> /\ turn[i] = "none"

\* Recovery, pause and finalisation together never leave two terminal events.
OneTerminalEvent == \A i \in Input : Len(terminals[i]) <= 1

\* Row, event stream and turn result tell one story: a turn result agrees with
\* the row and the terminal event, a DONE or PAUSED row with the event.
VerdictsAgree ==
  \A i \in Input :
    /\ turn[i] # "none" =>
         status[i] = StatusOf(turn[i]) /\ terminals[i] = <<turn[i]>>
    /\ status[i] \in {"DONE", "PAUSED"} =>
         \E v \in Verdict : terminals[i] = <<v>> /\ StatusOf(v) = status[i]

\* A session is shown as BUSY only for a claimed input, unless the process
\* that marked it so is dead.
BusySessionsHaveAClaim ==
  \A s \in Session : rtStatus[s] = "BUSY" =>
    /\ rtInput[s] # NoInput
    /\ status[rtInput[s]] = "CLAIMED" \/ process[rtWorker[s]] = "dead"

\* What was settled stays settled, whichever stale worker wakes up later.
SettledIsFinal ==
  [][\A i \in Input : status[i] \in Settled => status'[i] = status[i]]_vars

\* Every input that was accepted is settled in the end.
AcceptedInputsSettle ==
  \A i \in Input : status[i] = "QUEUED" ~> status[i] \in Settled

\* The executor's comment on the gate: hold the input, requeue it.
HeldInputsStayQueued ==
  [][\A i \in Input : progress[i] # "held" /\ progress'[i] = "held"
       => status'[i] = "QUEUED"]_vars

\* The recovery's message: the lease expired before a terminal event.
RecoveredBeforeTerminal ==
  \A i \in Input : status[i] = "FAILED" /\ terminals[i] # <<>> =>
    terminals[i][Len(terminals[i])] = "failed"

================================================================================

----------------------------- MODULE IssueWorkflow -----------------------------
(***************************************************************************)
(* Tasks that run in sessions of their own.  An issue has a status, issues *)
(* that block it, and one subagent run that is used again by every reply   *)
(* and rerun; the run executes inputs of the issue's child session.  Run   *)
(* and issue are derived data: syncSubagentRunState computes them from the *)
(* runtime state, the latest input and its turn result, whenever somebody  *)
(* reads the run or the executor ends a turn, and an issue that becomes    *)
(* done dispatches the issues it was blocking.                             *)
(*                                                                         *)
(* One workspace in one runtime process.  What the executor does with a    *)
(* claimed input is the subject of SessionQueue and MainSessionEvents, of  *)
(* which this module keeps what the run and the issue are derived from.  A *)
(* synchronous block is one action; the process may die between two of the *)
(* writes of a dispatch, of a follow-up and of the block that ends a turn. *)
(***************************************************************************)
EXTENDS Integers, Sequences, FiniteSets

CONSTANTS
  NumIssues,   \* bound: the issues that are ever created
  UserStatus,  \* bound: the statuses a user gives an issue by hand
  MaxEdits,    \* bound: how often a user edits or dispatches an existing issue
  MaxFollowUps, \* bound: how many runs are given an input directly, each once
  MaxCrashes,  \* bound: how often the process dies
  MaxEvents,   \* bound: how many of these there are in all
  Verdict      \* bound: how a turn may end, see Turn

Issue == 1..NumIssues

IssueStatus == {"backlog", "todo", "in_progress", "in_review", "blocked", "done"}

\* "asks" is a completed turn whose text asks for access; the executor takes it
\* for a question, the derivation takes it for a completed turn.
Turn == {"completed", "asks", "waiting_user", "failed", "paused"}

ASSUME IssueWorkflowAssumption ==
  /\ NumIssues \in Nat
  /\ UserStatus \subseteq IssueStatus
  /\ MaxEdits \in Nat
  /\ MaxFollowUps \in Nat
  /\ MaxCrashes \in Nat
  /\ MaxEvents \in Nat
  /\ Verdict \subseteq Turn

NoInput == 0

VARIABLES
  task,       \* the issue, its run, and its session's runtime state and inputs
  exec,       \* the executor of the claimed input, "lost_..." when its process died
  cancelling, \* a cancel request waits for the run to settle
  \* history
  edits, crashes,
  followed,   \* the issues whose run was given an input directly
  byHand,     \* a user patched the issue after the last dispatch
  withdrawn,  \* the input left the queue with no executor to report it
  torn        \* a block that gave the issue an input or ended its turn was cut, or
              \* a user took the issue away from a run that was alive

histVars == <<edits, crashes, followed, byHand, withdrawn, torn>>
vars == <<task, exec, cancelling, histVars>>

--------------------------------------------------------------------------------
(* Values *)

Row == [status : {"QUEUED", "CLAIMED", "DONE", "FAILED", "PAUSED", "CANCELLED"},
        turn : Turn \cup {"none"}]

Task ==
  [status : IssueStatus \cup {"absent"},
   blockedBy : SUBSET Issue,
   active : BOOLEAN,  \* active_subagent_id is its run, else null
   linked : BOOLEAN,  \* latest_subagent_id is its run, else null
   run : {"none", "queued", "running", "waiting_on_user", "completed", "failed", "cancelled"},
   question : BOOLEAN,  \* blocking_payload says "waiting_on_user"
   cur : Nat, latest : Nat,  \* current_child_input_id, latest_child_input_id
   rt : {"IDLE", "QUEUED", "BUSY", "WAITING_USER", "PAUSED", "ERROR"},
   rtInput : Nat,
   rows : Seq(Row)]

NoTask == [status |-> "absent", blockedBy |-> {}, active |-> FALSE, linked |-> FALSE,
           run |-> "none", question |-> FALSE, cur |-> NoInput, latest |-> NoInput,
           rt |-> "IDLE", rtInput |-> NoInput, rows |-> <<>>]

\* Mutant: a run that has ended counts as well.
LiveOrEnded(t) == t.run \notin {"none", "cancelled"}

Live(t) == t.run \in {"queued", "running", "waiting_on_user"}

StatusIn(t, n) == IF n \in DOMAIN t.rows THEN t.rows[n].status ELSE "NONE"
TurnIn(t, n) == IF n \in DOMAIN t.rows THEN t.rows[n].turn ELSE "none"

OpenInputs(t) == {n \in DOMAIN t.rows : t.rows[n].status \in {"QUEUED", "CLAIMED"}}

SetRow(t, n, st) == [t EXCEPT !.rows[n].status = st]
SetRuntime(t, st, n) == [t EXCEPT !.rt = st, !.rtInput = n]

--------------------------------------------------------------------------------
(* The derivation of a run from its session, and of an issue from its run  *)

CurrentInput(t) == IF t.rtInput # NoInput THEN t.rtInput
                   ELSE IF t.cur # NoInput THEN t.cur ELSE t.latest

LatestInput(t) == IF t.latest # NoInput THEN t.latest ELSE CurrentInput(t)

\* The status syncSubagentRunState derives: the first that applies.
Derived(t) ==
  LET turn == TurnIn(t, LatestInput(t))
      current == StatusIn(t, CurrentInput(t)) IN
  IF t.run = "cancelled" THEN "cancelled"
  ELSE IF turn = "failed" \/ t.rt = "ERROR" THEN "failed"
  ELSE IF turn \in {"completed", "asks"}
       THEN IF t.rt = "WAITING_USER" \/ t.question THEN "waiting_on_user" ELSE "completed"
  ELSE IF \/ turn = "waiting_user" \/ t.rt = "WAITING_USER"
          \/ t.run = "waiting_on_user" \/ t.question THEN "waiting_on_user"
  ELSE IF current = "CLAIMED" \/ t.rt = "BUSY" THEN "running"
  ELSE IF current = "QUEUED" \/ t.rt = "QUEUED" THEN "queued"
  ELSE t.run

\* Mutant: a failed run leaves the status of its issue alone.
ShownFailureForgotten(t) ==
  [t EXCEPT !.linked = TRUE, !.active = t.run = "running",
            !.status = CASE t.run = "queued" -> "todo"
                         [] t.run = "running" -> "in_progress"
                         [] t.run = "waiting_on_user" -> "blocked"
                         [] t.run = "completed" -> "done"
                         [] OTHER -> @]

\* syncLinkedIssueFromSubagentState: what the issue says of its run.
Shown(t) ==
  [t EXCEPT !.linked = TRUE, !.active = t.run = "running",
            !.status = CASE t.run = "queued" -> "todo"
                         [] t.run = "running" -> "in_progress"
                         [] t.run \in {"waiting_on_user", "failed"} -> "blocked"
                         [] t.run = "completed" -> "done"
                         [] OTHER -> @]

Refreshed(t) ==
  IF t.run = "none" THEN t
  ELSE Shown([t EXCEPT !.run = Derived(t), !.cur = CurrentInput(t), !.latest = LatestInput(t)])

--------------------------------------------------------------------------------
(* Dispatching an issue.  T is a state of all tasks.                       *)

\* Mutant: it is enough that nothing that blocks the issue is still to be done.
BlockersNotWaiting(T, i) ==
  \A b \in T[i].blockedBy : T[b].status \notin {"todo", "in_progress"}

\* incompleteBlockingTaskIds is empty.
BlockersDone(T, i) == \A b \in T[i].blockedBy : T[b].status = "done"

\* Mutant: the latest run is not looked at.
DispatchableTwice(T, i) == ~T[i].active /\ BlockersDone(T, i)

Dispatchable(T, i) ==
  /\ ~T[i].active
  /\ BlockersDone(T, i)
  /\ ~(T[i].linked /\ Live(T[i]))

\* upsertIssueExecutionRun and enqueueInput.
Enqueued(t) ==
  [t EXCEPT !.run = "queued", !.question = FALSE,
            !.rows = Append(@, [status |-> "QUEUED", turn |-> "none"])]

Dispatched(t) ==
  LET n == Len(t.rows) + 1 IN
  [SetRuntime(Enqueued(t), "QUEUED", n) EXCEPT
     !.cur = n, !.latest = n, !.status = "todo", !.active = FALSE, !.linked = TRUE]

\* upsertIssueExecutionRun.
Opened(t) == [t EXCEPT !.run = "queued", !.question = FALSE]

\* The first k writes that give a run an input: the input, the runtime state, the run.
Given(t, k) ==
  LET n == Len(t.rows) + 1
      row == IF k >= 1 THEN [t EXCEPT !.rows = Append(@, [status |-> "QUEUED", turn |-> "none"])]
                       ELSE t
      runtime == IF k >= 2 THEN SetRuntime(row, "QUEUED", n) ELSE row IN
  IF k >= 3 THEN [Opened(runtime) EXCEPT !.cur = n, !.latest = n] ELSE runtime

\* The first writes of a dispatch: the run, the runtime state, which forgets its
\* input, and k - 1 of those that give the run another one.
Begun(t, k) ==
  IF k = 0 THEN Opened(t) ELSE Given(SetRuntime(Opened(t), "QUEUED", NoInput), k - 1)

\* Mutant: the issue that is done is not yet done for the issues it blocks.
ReadyDownstreamStale(T, done) ==
  {k \in Issue : /\ T[k].status = "todo"
                 /\ T[k].blockedBy \cap done # {}
                 /\ Dispatchable([j \in Issue |->
                      IF j \in done THEN [T[j] EXCEPT !.status = "in_progress"] ELSE T[j]], k)}

\* dispatchReadyDownstreamIssues; an issue that is refused is passed over.
ReadyDownstream(T, done) ==
  {k \in Issue : /\ T[k].status = "todo"
                 /\ T[k].blockedBy \cap done # {}
                 /\ Dispatchable(T, k)}

\* syncSubagentRunState of the issues in S.  Those that become done dispatch the
\* issues they were blocking, whose instructions quote, and so refresh, the runs
\* linked to the issues that blocked them.
Synced(T, S) ==
  LET seen == [j \in Issue |-> IF j \in S THEN Refreshed(T[j]) ELSE T[j]]
      done == {j \in S : seen[j].run = "completed" /\ T[j].status # "done"}
      next == ReadyDownstream(seen, done)
      quoted == {b \in UNION {T[k].blockedBy : k \in next} : seen[b].linked} IN
  [j \in Issue |-> IF j \in next THEN Dispatched(seen[j])
                   ELSE IF j \in quoted THEN Refreshed(seen[j]) ELSE seen[j]]

\* The step gives the issue another input.
NewWork(i) == Len(task'[i].rows) > Len(task[i].rows)

\* A dispatch starts the history of an issue anew.
SetTasks(T, hand) ==
  /\ task' = T
  /\ byHand' = [j \in Issue |-> (byHand[j] \/ j \in hand) /\ ~NewWork(j)]
  /\ withdrawn' = [j \in Issue |-> withdrawn[j] /\ ~NewWork(j)]

\* The bound leaves room for n more of them.
Room(n) == edits + crashes + Cardinality(followed) + n <= MaxEvents

\* The process dies.  Claims outlive it, but those of the issues in E, which it
\* had settled; waiting requests do not.
Die(E) ==
  /\ crashes < MaxCrashes /\ Room(1)
  /\ crashes' = crashes + 1
  /\ exec' = [i \in Issue |-> CASE i \in E -> "none"
                                [] i \notin E /\ exec[i] = "gate" -> "lost_unstarted"
                                [] i \notin E /\ exec[i] = "runner" -> "lost_started"
                                [] OTHER -> exec[i]]
  /\ cancelling' = [i \in Issue |-> FALSE]

Tear(i) == torn' = [torn EXCEPT ![i] = TRUE]

--------------------------------------------------------------------------------
(* Users and agents: create, edit, dispatch, read                          *)

Exists(i) == task[i].status # "absent"

With(i, t) == [task EXCEPT ![i] = t]

\* All that blocks an issue of B, directly or not.
Upstream(B) ==
  {j \in Issue : \A S \in SUBSET Issue :
     (B \subseteq S /\ \A k \in S : task[k].blockedBy \subseteq S) => j \in S}

\* Mutant: only the issue itself is looked for.
MayBlockButItself(i, B) == (\A b \in B : Exists(b)) /\ i \notin B

\* normalizedIssueBlockedBy accepts B.
MayBlock(i, B) == (\A b \in B : Exists(b)) /\ i \notin Upstream(B)

\* createIssue counts the issues.
NextIssue(i) == ~Exists(i) /\ \A j \in 1..(i - 1) : Exists(j)

DispatchIfReady(T, i) ==
  IF T[i].status = "todo" /\ Dispatchable(T, i) THEN [T EXCEPT ![i] = Dispatched(@)] ELSE T

\* POST /issues.
Create(i, st, B) ==
  /\ NextIssue(i)
  /\ MayBlock(i, B)
  /\ SetTasks(DispatchIfReady(With(i, [NoTask EXCEPT !.status = st, !.blockedBy = B]), i), {})
  /\ UNCHANGED <<exec, cancelling, edits, crashes, followed, torn>>

\* delegateTask.  The instruction quotes, and so refreshes, the runs linked to the
\* issues that block it; whether it has to wait for them was read before.
Delegate(i, B) ==
  LET made == With(i, [NoTask EXCEPT !.status = "todo", !.blockedBy = B])
      seen == Synced(made, {b \in B : task[b].linked}) IN
  /\ NextIssue(i)
  /\ MayBlock(i, B)
  /\ SetTasks([seen EXCEPT ![i] = IF BlockersDone(made, i) THEN Dispatched(@)
                                  ELSE SetRuntime(@, "IDLE", NoInput)], {})
  /\ UNCHANGED <<exec, cancelling, edits, crashes, followed, torn>>

Edit == edits < MaxEdits /\ Room(1) /\ edits' = edits + 1

\* PATCH /issues/:id, with blocked_by in the body or not.  While a run is active the
\* body may still name the ids of its runs, which it sets to null here.
Patch(i, st, B, named, active, linked) ==
  LET old == task[i]
      new == With(i, [old EXCEPT !.status = st, !.blockedBy = B,
                                 !.active = active, !.linked = linked]) IN
  /\ Exists(i)
  /\ old.active => st = old.status /\ ~named
  /\ IF named THEN MayBlock(i, B) ELSE B = old.blockedBy
  /\ SetTasks(IF named \/ old.status # "todo" THEN DispatchIfReady(new, i) ELSE new, {i})
  /\ torn' = [torn EXCEPT ![i] = @ \/ (Live(old) /\ ~active /\ ~linked)]
  /\ UNCHANGED <<exec, cancelling, crashes, followed>>

\* rerunTask, replyTask and a message to the issue's session, which refuses an
\* issue of the backlog.
Redispatch(i) ==
  /\ Edit
  /\ Exists(i)
  /\ Dispatchable(task, i)
  /\ SetTasks([task EXCEPT ![i] = Dispatched(@)], {})
  /\ UNCHANGED <<exec, cancelling, crashes, followed, torn>>

\* resumeSubagent takes a run that waits for the user, continueSubagent one that is
\* over; neither looks at the issue.
FollowUp(i) ==
  LET seen == Synced(task, {i}) IN
  /\ i \notin followed /\ Cardinality(followed) < MaxFollowUps /\ Room(1)
  /\ seen[i].run \notin {"none", "queued", "running"}
  /\ SetTasks([seen EXCEPT ![i] = Dispatched(@)], {})
  /\ followed' = followed \cup {i}
  /\ UNCHANGED <<exec, cancelling, edits, crashes, torn>>

\* The process dies in a dispatch of the issue, which has written the run and the
\* first k of what follows.
DispatchCut(i, k) ==
  /\ Exists(i)
  /\ Dispatchable(task, i)
  /\ Die({})
  /\ SetTasks([task EXCEPT ![i] = Begun(@, k)], {})
  /\ Tear(i)
  /\ UNCHANGED <<edits, followed>>

\* It dies after the first k writes of a follow-up.
FollowUpCut(i, k) ==
  LET seen == Synced(task, {i}) IN
  /\ i \notin followed /\ Cardinality(followed) < MaxFollowUps /\ Room(2)
  /\ Die({})
  /\ seen[i].run \notin {"none", "queued", "running"}
  /\ SetTasks([seen EXCEPT ![i] = Given(@, k)], {})
  /\ followed' = followed \cup {i}
  /\ Tear(i)
  /\ UNCHANGED edits

\* Somebody looks: getTask, listTasks, the list of background tasks.
Read(i) ==
  /\ SetTasks(Synced(task, {i}), {})
  /\ UNCHANGED <<exec, cancelling, edits, crashes, followed, torn>>

--------------------------------------------------------------------------------
(* Pause, cancel *)

Withdraw(i) == withdrawn' = [withdrawn EXCEPT ![i] = TRUE]

\* persistPausedQueuedInput.
PausedInQueue(t) ==
  LET n == t.rtInput IN
  SetRuntime([SetRow(t, n, "PAUSED") EXCEPT !.rows[n].turn = "paused"], "PAUSED", NoInput)

\* pauseSessionRun of an input that nobody claimed; the run is not told.
PauseQueued(i) ==
  /\ StatusIn(task[i], task[i].rtInput) = "QUEUED"
  /\ task' = With(i, PausedInQueue(task[i]))
  /\ Withdraw(i)
  /\ UNCHANGED <<exec, cancelling, edits, crashes, followed, byHand, torn>>

\* The cancel route of the session's queue; the run is not told.
DeleteQueued(i) ==
  \E n \in OpenInputs(task[i]) :
    /\ StatusIn(task[i], n) = "QUEUED"
    /\ task' = With(i, SetRow(task[i], n, "CANCELLED"))
    /\ Withdraw(i)
    /\ UNCHANGED <<exec, cancelling, edits, crashes, followed, byHand, torn>>

\* How cancelSyncedSubagentRunState ends, whatever the run has become meanwhile.
Cancelled(t) == [Refreshed([t EXCEPT !.run = "cancelled"]) EXCEPT
                   !.status = "blocked", !.active = FALSE, !.linked = TRUE]

Executing(i) == exec[i] \in {"gate", "runner"}

\* cancelIssueRun: an input that is queued is closed, one that is claimed is
\* paused and waited for (refused when this process does not run it).
Cancel(i) ==
  LET seen == Synced(task, {i})
      t == seen[i]
      current == StatusIn(t, CurrentInput(t))
      idle == SetRuntime(t, "IDLE", NoInput) IN
  /\ task[i].active \/ task[i].linked
  /\ Live(t)
  /\ \/ /\ current = "QUEUED"
        /\ SetTasks([seen EXCEPT ![i] = Cancelled(SetRow(idle, CurrentInput(t), "DONE"))], {})
        /\ UNCHANGED cancelling
     \/ /\ current = "CLAIMED"
        /\ SetTasks(seen, {})
        /\ cancelling' = [cancelling EXCEPT ![i] = @ \/ (t.rtInput # NoInput /\ Executing(i))]
     \/ /\ current \notin {"QUEUED", "CLAIMED"}
        /\ LET again == Synced([seen EXCEPT ![i] = idle], {i}) IN
           SetTasks([again EXCEPT ![i] = Cancelled(@)], {})
        /\ UNCHANGED cancelling
  /\ UNCHANGED <<exec, edits, crashes, followed, torn>>

\* Mutant: the request looks at the run instead of its session.
SettledRun(t) == t.run # "queued"

\* isSubagentCancellationSettled.
Settled(t) ==
  /\ t.rt \notin {"BUSY", "QUEUED"}
  /\ StatusIn(t, CurrentInput(t)) \notin {"CLAIMED", "QUEUED"}

\* The waiting request finds the run settled.
CancelSettles(i) ==
  LET seen == Synced(task, {i}) IN
  /\ cancelling[i]
  /\ Settled(seen[i])
  /\ SetTasks([seen EXCEPT ![i] = Cancelled(@)], {})
  /\ cancelling' = [cancelling EXCEPT ![i] = FALSE]
  /\ UNCHANGED <<exec, edits, crashes, followed, torn>>

\* It gives up after eight seconds.
CancelTimeout(i) ==
  LET seen == Synced(task, {i}) IN
  /\ cancelling[i]
  /\ ~Settled(seen[i])
  /\ SetTasks(seen, {})
  /\ cancelling' = [cancelling EXCEPT ![i] = FALSE]
  /\ UNCHANGED <<exec, edits, crashes, followed, torn>>

--------------------------------------------------------------------------------
(* The queue worker and the executor *)

SetExec(i, st) == exec' = [exec EXCEPT ![i] = st]

\* One claim per session, the oldest input first.
Claim(i) ==
  \E n \in OpenInputs(task[i]) :
    /\ \A m \in OpenInputs(task[i]) : n <= m /\ StatusIn(task[i], m) = "QUEUED"
    /\ exec[i] = "none"
    /\ task' = With(i, SetRow(task[i], n, "CLAIMED"))
    /\ SetExec(i, "gate")
    /\ UNCHANGED <<cancelling, histVars>>

Claimed(i) == CHOOSE n \in DOMAIN task[i].rows : task[i].rows[n].status = "CLAIMED"

GatePass(i) ==
  /\ exec[i] = "gate"
  /\ task' = With(i, SetRuntime(task[i], "BUSY", Claimed(i)))
  /\ SetExec(i, "runner")
  /\ UNCHANGED <<cancelling, histVars>>

\* The executor raises, and the queue worker fails the input; the run is not told.
SetupThrow(i) ==
  /\ exec[i] = "gate"
  /\ task' = With(i, SetRuntime(SetRow(task[i], Claimed(i), "FAILED"), "ERROR", NoInput))
  /\ SetExec(i, "none")
  /\ Withdraw(i)
  /\ UNCHANGED <<cancelling, edits, crashes, followed, byHand, torn>>

\* Mutant: the word of the turn result is written to the row.
RowStatusVerbatim(v) ==
  CASE v = "failed" -> "FAILED" [] v = "paused" -> "PAUSED" [] OTHER -> "COMPLETED"

RowStatusOf(v) == CASE v = "failed" -> "FAILED" [] v = "paused" -> "PAUSED" [] OTHER -> "DONE"

RuntimeStatusOf(v) == CASE v = "failed"       -> "ERROR"
                        [] v = "paused"       -> "PAUSED"
                        [] v = "waiting_user" -> "WAITING_USER"
                        [] OTHER              -> "IDLE"

\* Mutant: a paused turn says nothing of the run.
ReportedUnlessPaused(t, n, v) ==
  LET run == IF t.run = "cancelled" \/ v = "paused" THEN t.run
             ELSE IF v \in {"asks", "waiting_user"} THEN "waiting_on_user" ELSE v IN
  [t EXCEPT !.run = run, !.latest = n, !.question = run = "waiting_on_user",
            !.cur = IF run = "waiting_on_user" THEN n ELSE NoInput]

\* updateSubagentRunFromTurnResult.
Reported(t, n, v) ==
  LET run == IF t.run = "cancelled" \/ v = "paused" THEN "cancelled"
             ELSE IF v \in {"asks", "waiting_user"} THEN "waiting_on_user" ELSE v IN
  [t EXCEPT !.run = run, !.latest = n, !.question = run = "waiting_on_user",
            !.cur = IF run = "waiting_on_user" THEN n ELSE NoInput]

\* The first k writes of the block that ends the turn of input n: the row, the
\* runtime state, the turn result, the run, the issue.
Ended(t, n, v, k) ==
  LET row == SetRow(t, n, RowStatusOf(v))
      runtime == IF k >= 2 THEN SetRuntime(row, RuntimeStatusOf(v), NoInput) ELSE row
      turn == IF k >= 3 THEN [runtime EXCEPT !.rows[n].turn = v] ELSE runtime
      run == IF k >= 4 THEN Reported(turn, n, v) ELSE turn IN
  IF k >= 5 THEN Refreshed(run) ELSE run

RunnerExit(i, v) ==
  /\ exec[i] = "runner"
  /\ SetTasks(Synced(With(i, Ended(task[i], Claimed(i), v, 4)), {i}), {})
  /\ SetExec(i, "none")
  /\ UNCHANGED <<cancelling, edits, crashes, followed, torn>>

\* The process dies after the first k of these writes; after the fifth, the
\* issues that were blocked have not been dispatched.
RunnerExitCut(i, v, k) ==
  /\ exec[i] = "runner"
  /\ Die({i})
  /\ task' = With(i, Ended(task[i], Claimed(i), v, k))
  /\ Tear(i)
  /\ UNCHANGED <<edits, followed, byHand, withdrawn>>

Crash ==
  /\ Die({})
  /\ UNCHANGED <<task, edits, followed, byHand, withdrawn, torn>>

ResetRuntime(t, n, st) == IF t.rtInput = n THEN SetRuntime(t, st, NoInput) ELSE t

\* The queue worker recovers the claim of a process that died: an input that was
\* not begun is queued again, any other one has failed; the run is not told.
RecoverClaim(i) ==
  LET n == Claimed(i) IN
  /\ \/ /\ exec[i] = "lost_unstarted"
        /\ task' = With(i, ResetRuntime(SetRow(task[i], n, "QUEUED"), n, "IDLE"))
        /\ UNCHANGED withdrawn
     \/ /\ exec[i] = "lost_started"
        /\ task' = With(i, ResetRuntime(SetRow(task[i], n, "FAILED"), n, "ERROR"))
        /\ Withdraw(i)
  /\ SetExec(i, "none")
  /\ UNCHANGED <<cancelling, edits, crashes, followed, byHand, torn>>

--------------------------------------------------------------------------------
(* Specification *)

Init ==
  /\ task = [i \in Issue |-> NoTask]
  /\ exec = [i \in Issue |-> "none"]
  /\ cancelling = [i \in Issue |-> FALSE]
  /\ edits = 0
  /\ crashes = 0
  /\ followed = {}
  /\ byHand = [i \in Issue |-> FALSE]
  /\ withdrawn = [i \in Issue |-> FALSE]
  /\ torn = [i \in Issue |-> FALSE]

UserStep(i) ==
  \/ \E st \in UserStatus, B \in SUBSET Issue : Create(i, st, B)
  \/ \E B \in SUBSET Issue : Delegate(i, B)
  \/ /\ Edit
     /\ \E st \in UserStatus \cup {task[i].status}, B \in SUBSET Issue, named \in BOOLEAN,
           active \in {task[i].active, FALSE}, linked \in {task[i].linked, FALSE} :
          Patch(i, st, B, named, active, linked)
  \/ Redispatch(i)
  \/ FollowUp(i)
  \/ Read(i)
  \/ PauseQueued(i)
  \/ DeleteQueued(i)
  \/ Cancel(i)

ExecutorStep(i) ==
  \/ Claim(i)
  \/ GatePass(i)
  \/ SetupThrow(i)
  \/ \E v \in Verdict : RunnerExit(i, v)
  \/ RecoverClaim(i)

Outage(i) ==
  \/ \E k \in 0..4 : DispatchCut(i, k)
  \/ \E k \in 1..3 : FollowUpCut(i, k)
  \/ \E v \in Verdict, k \in 1..5 : RunnerExitCut(i, v, k)

Next ==
  \/ \E i \in Issue : \/ UserStep(i)
                      \/ CancelSettles(i)
                      \/ CancelTimeout(i)
                      \/ ExecutorStep(i)
                      \/ Outage(i)
  \/ Crash

Spec == Init /\ [][Next]_vars

--------------------------------------------------------------------------------
(* Properties *)

ExecStatus == {"none", "gate", "runner", "lost_unstarted", "lost_started"}

\* The types of the tables and of the history.
TypeOK ==
  /\ task \in [Issue -> Task]
  /\ exec \in [Issue -> ExecStatus]
  /\ cancelling \in [Issue -> BOOLEAN]
  /\ edits \in 0..MaxEdits
  /\ crashes \in 0..MaxCrashes
  /\ followed \subseteq Issue
  /\ byHand \in [Issue -> BOOLEAN]
  /\ withdrawn \in [Issue -> BOOLEAN]
  /\ torn \in [Issue -> BOOLEAN]

\* The session of an issue has one open input at most, whatever replies, reruns,
\* follow-ups and workflow dispatches race with a cancel, a pause or a recovery.  A
\* dispatch that was cut leaves an input that the next dispatch does not know, and
\* an issue whose run was taken away while alive is dispatched again beside it.
OneInputAtATime ==
  \A i \in Issue : Cardinality(OpenInputs(task[i])) > 1 => torn[i]

\* A run that is over, or waits for the user, has nothing left to execute: what a
\* cancel reports as cancelled does not go on, unless a cut, or a patch of the ids,
\* left the session with an input that its run does not know.
SettledRunsRunNothing ==
  \A i \in Issue : task[i].run \in {"waiting_on_user", "completed", "failed", "cancelled"} =>
    OpenInputs(task[i]) = {} \/ torn[i]

\* A run that is queued or running, and refuses a rerun for that, has an input to
\* execute, unless its input was withdrawn behind its back.
LiveRunsHaveWork ==
  \A i \in Issue : task[i].run \in {"queued", "running"} =>
    OpenInputs(task[i]) # {} \/ withdrawn[i] \/ torn[i]

\* The board tells the truth: but for edits by hand and blocks that were cut, an
\* issue shows what its run is; a paused run is cancelled and the issue stays.
IssuesShowTheirRuns ==
  \A i \in Issue : LET t == task[i] IN ~byHand[i] /\ ~torn[i] =>
    /\ t.run = "queued" => t.status = "todo"
    /\ t.run = "running" => t.status = "in_progress" /\ t.active
    /\ t.run \in {"waiting_on_user", "failed"} => t.status = "blocked"
    /\ t.run = "completed" => t.status = "done"
    /\ t.active => t.run = "running"

\* Work whose blockers are done is queued by the step that did the last of them.
ReadyWorkIsDispatched ==
  \A i \in Issue : LET t == task[i] IN
    t.status = "todo" /\ t.run = "none" /\ BlockersDone(task, i) =>
      \/ byHand[i] \/ torn[i]
      \/ \E b \in t.blockedBy : byHand[b] \/ torn[b]

\* No issue blocks itself, directly or not, whatever edits the graph has seen:
\* such a circle would never be dispatched.
NoIssueWaitsForItself == \A i \in Issue : i \notin Upstream(task[i].blockedBy)

\* An issue that its run has completed is reopened by an edit or a dispatch only,
\* or by a cancel that was waiting when the run completed.
CompletedWorkStaysDone ==
  [][\A i \in Issue :
       task[i].status = "done" /\ task[i].run = "completed" /\ task'[i].status # "done" =>
         \/ byHand'[i] \/ torn[i]
         \/ NewWork(i)
         \/ task'[i].run = "cancelled" /\ cancelling[i]]_vars

\* An input that is not a follow-up is queued when all that blocks its issue is done,
\* also when edits and follow-ups have put blockers back.  What a waiting cancel or a
\* follow-up finds completed is done long enough to dispatch the rest, and a block that
\* was cut may leave a turn result that a later cancel reads again.
NothingStartsBeforeItsBlockers ==
  [][\A i \in Issue : NewWork(i) /\ i \notin followed' \ followed =>
       \A b \in task'[i].blockedBy :
         \/ "done" \in {task[b].status, task'[b].status}
         \/ cancelling[b] /\ task'[b].run = "cancelled"
         \/ b \in followed' \ followed
         \/ torn[b]]_vars

================================================================================

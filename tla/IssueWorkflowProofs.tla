-------------------------- MODULE IssueWorkflowProofs --------------------------
(***************************************************************************)
(* IssueWorkflow for any number of issues, edits, follow-ups and crashes,  *)
(* whatever statuses a user sets and however turns end.  Types first; then *)
(* that the blockers of an issue form no circle, that issues show their    *)
(* runs, and that work whose blockers are done is dispatched.              *)
(***************************************************************************)
EXTENDS IssueWorkflow, SequenceTheorems, TLAPS

RowStatus == {"QUEUED", "CLAIMED", "DONE", "FAILED", "PAUSED", "CANCELLED"}
RunStatus ==
  {"none", "queued", "running", "waiting_on_user", "completed", "failed", "cancelled"}
RuntimeStatus == {"IDLE", "QUEUED", "BUSY", "WAITING_USER", "PAUSED", "ERROR"}

--------------------------------------------------------------------------------
(* The operators on one issue *)

\* U is T but for its queue: the same blockers, and claims are kept.
Keeps(t, u) ==
  /\ u \in Task
  /\ u.blockedBy = t.blockedBy
  /\ \A n \in DOMAIN t.rows : /\ n \in DOMAIN u.rows
                              /\ t.rows[n].status = "CLAIMED" => u.rows[n].status = "CLAIMED"

\* What the board shows of the issue is left alone.
SameFace(t, u) ==
  /\ u.status = t.status /\ u.active = t.active /\ u.linked = t.linked /\ u.run = t.run

\* The queue has as many inputs, and nothing of the issue moves.
OneLike(a, b) ==
  /\ b \in Task /\ b.blockedBy = a.blockedBy
  /\ Len(b.rows) = Len(a.rows) /\ SameFace(a, b)

LEMMA KeepsSelf == ASSUME NEW t \in Task PROVE Keeps(t, t)
BY DEF Keeps

LEMMA KeepsOn ==
  ASSUME NEW t \in Task, NEW u, NEW v, Keeps(t, u), Keeps(u, v) PROVE Keeps(t, v)
BY DEF Keeps

LEMMA RowsTyped ==
  ASSUME NEW t \in Task
  PROVE  /\ t.rows \in Seq(Row)
         /\ Len(t.rows) \in Nat /\ DOMAIN t.rows = 1..Len(t.rows)
         /\ \A n \in DOMAIN t.rows : /\ t.rows[n] \in Row
                                     /\ t.rows[n].status \in RowStatus
                                     /\ t.rows[n].turn \in Turn \cup {"none"}
<1>1. t.rows \in Seq(Row)
  BY DEF Task
<1>2. Len(t.rows) \in Nat /\ t.rows \in [1..Len(t.rows) -> Row] /\ DOMAIN t.rows = 1..Len(t.rows)
  BY <1>1, LenProperties
<1>3. \A r \in Row : r.status \in RowStatus /\ r.turn \in Turn \cup {"none"}
  BY DEF Row, RowStatus
<1> QED BY <1>1, <1>2, <1>3

\* Replacing one row, or none.
LEMMA RowReplaced ==
  ASSUME NEW s \in Seq(Row), NEW n, NEW r, n \in DOMAIN s => r \in Row
  PROVE  /\ [s EXCEPT ![n] = r] \in Seq(Row)
         /\ DOMAIN [s EXCEPT ![n] = r] = DOMAIN s
         /\ Len([s EXCEPT ![n] = r]) = Len(s)
         /\ \A m \in DOMAIN s : [s EXCEPT ![n] = r][m] = IF m = n THEN r ELSE s[m]
<1>1. Len(s) \in Nat /\ s \in [1..Len(s) -> Row] /\ DOMAIN s = 1..Len(s)
  BY LenProperties
<1>2. [s EXCEPT ![n] = r] \in [1..Len(s) -> Row]
  BY <1>1
<1>3. [s EXCEPT ![n] = r] \in Seq(Row)
  BY <1>1, <1>2, SeqDef
<1>4. DOMAIN [s EXCEPT ![n] = r] = DOMAIN s
      /\ \A m \in DOMAIN s : [s EXCEPT ![n] = r][m] = IF m = n THEN r ELSE s[m]
  OBVIOUS
<1>5. Len([s EXCEPT ![n] = r]) = Len(s)
  BY <1>1, <1>3, <1>4, LenProperties
<1> QED BY <1>3, <1>4, <1>5

\* Setting the status of a row.
LEMMA SetRowFacts ==
  ASSUME NEW t \in Task, NEW n, NEW st \in RowStatus
  PROVE  /\ OneLike(t, SetRow(t, n, st))
         /\ \A m \in DOMAIN t.rows :
              /\ m \in DOMAIN SetRow(t, n, st).rows
              /\ SetRow(t, n, st).rows[m].status = IF m = n THEN st ELSE t.rows[m].status
<1> DEFINE r == [t.rows[n] EXCEPT !.status = st]
           u == SetRow(t, n, st)
<1>1. t.rows \in Seq(Row)
  BY RowsTyped
<1>2. n \in DOMAIN t.rows => r \in Row /\ r.status = st
  BY RowsTyped DEF Row, RowStatus
<1>3. u = [t EXCEPT !.rows = [t.rows EXCEPT ![n] = r]]
  BY DEF SetRow, Task
<1> HIDE DEF r, u
<1>4. [t.rows EXCEPT ![n] = r] \in Seq(Row)
  BY <1>1, <1>2, RowReplaced
<1>5. u.rows = [t.rows EXCEPT ![n] = r]
  BY <1>3 DEF Task
<1>6. u \in Task
  BY <1>3, <1>4 DEF Task
<1>7. SameFace(t, u) /\ u.blockedBy = t.blockedBy
  BY <1>3 DEF Task, SameFace
<1>8. /\ DOMAIN u.rows = DOMAIN t.rows
      /\ Len(u.rows) = Len(t.rows)
      /\ \A m \in DOMAIN t.rows : u.rows[m] = IF m = n THEN r ELSE t.rows[m]
  BY <1>1, <1>2, <1>5, RowReplaced
<1>9. OneLike(t, u)
  BY <1>6, <1>7, <1>8 DEF OneLike
<1>10. \A m \in DOMAIN t.rows :
         m \in DOMAIN u.rows /\ u.rows[m].status = IF m = n THEN st ELSE t.rows[m].status
  BY <1>2, <1>8
<1> QED BY <1>9, <1>10 DEF u

\* Setting the turn result of a row.
LEMMA SetTurnFacts ==
  ASSUME NEW t \in Task, NEW n, NEW v \in Turn, NEW u, u = [t EXCEPT !.rows[n].turn = v]
  PROVE  /\ OneLike(t, u)
         /\ \A m \in DOMAIN t.rows :
              m \in DOMAIN u.rows /\ u.rows[m].status = t.rows[m].status
<1> DEFINE r == [t.rows[n] EXCEPT !.turn = v]
<1>1. t.rows \in Seq(Row)
  BY RowsTyped
<1>2. n \in DOMAIN t.rows => r \in Row /\ r.status = t.rows[n].status
  BY RowsTyped DEF Row
<1>3. u = [t EXCEPT !.rows = [t.rows EXCEPT ![n] = r]]
  BY DEF Task
<1> HIDE DEF r
<1>4. [t.rows EXCEPT ![n] = r] \in Seq(Row)
  BY <1>1, <1>2, RowReplaced
<1>5. u.rows = [t.rows EXCEPT ![n] = r]
  BY <1>3 DEF Task
<1>6. u \in Task
  BY <1>3, <1>4 DEF Task
<1>7. SameFace(t, u) /\ u.blockedBy = t.blockedBy
  BY <1>3 DEF Task, SameFace
<1>8. /\ DOMAIN u.rows = DOMAIN t.rows
      /\ Len(u.rows) = Len(t.rows)
      /\ \A m \in DOMAIN t.rows : u.rows[m] = IF m = n THEN r ELSE t.rows[m]
  BY <1>1, <1>2, <1>5, RowReplaced
<1>9. OneLike(t, u)
  BY <1>6, <1>7, <1>8 DEF OneLike
<1>10. \A m \in DOMAIN t.rows : m \in DOMAIN u.rows /\ u.rows[m].status = t.rows[m].status
  BY <1>2, <1>8
<1> QED BY <1>9, <1>10

\* Setting the runtime state.
LEMMA SetRuntimeFacts ==
  ASSUME NEW t \in Task, NEW st \in RuntimeStatus, NEW n \in Nat
  PROVE  /\ Keeps(t, SetRuntime(t, st, n))
         /\ SameFace(t, SetRuntime(t, st, n))
         /\ SetRuntime(t, st, n).rows = t.rows
<1>1. SetRuntime(t, st, n) \in Task
  BY DEF SetRuntime, Task, RuntimeStatus
<1> QED
  BY <1>1 DEF SetRuntime, Task, Keeps, SameFace

\* A row that was queued last.
LEMMA AppendedRows ==
  ASSUME NEW t \in Task
  PROVE  LET s == Append(t.rows, [status |-> "QUEUED", turn |-> "none"]) IN
         /\ s \in Seq(Row)
         /\ Len(s) = Len(t.rows) + 1
         /\ DOMAIN s = 1..(Len(t.rows) + 1)
         /\ \A m \in DOMAIN t.rows : s[m] = t.rows[m]
<1>1. t.rows \in Seq(Row)
  BY RowsTyped
<1>2. [status |-> "QUEUED", turn |-> "none"] \in Row
  BY DEF Row
<1> QED BY <1>1, <1>2

\* What the board shows of a run: the body of IssuesShowTheirRuns.
Showing(t) ==
  /\ t.run = "queued" => t.status = "todo"
  /\ t.run = "running" => t.status = "in_progress" /\ t.active
  /\ t.run \in {"waiting_on_user", "failed"} => t.status = "blocked"
  /\ t.run = "completed" => t.status = "done"
  /\ t.active => t.run = "running"

LEMMA DerivedTypes ==
  ASSUME NEW t \in Task, t.run # "none"
  PROVE  Derived(t) \in RunStatus \ {"none"}
BY DEF Derived, Task, RunStatus

LEMMA InputTypes ==
  ASSUME NEW t \in Task PROVE CurrentInput(t) \in Nat /\ LatestInput(t) \in Nat
BY DEF CurrentInput, LatestInput, Task

\* Showing a run sets status and run in step.
LEMMA ShownFacts ==
  ASSUME NEW t \in Task
  PROVE  /\ Shown(t) \in Task
         /\ Shown(t).blockedBy = t.blockedBy /\ Shown(t).rows = t.rows /\ Shown(t).run = t.run
         /\ Showing(Shown(t))
         /\ t.status # "done" /\ Shown(t).status = "done" => t.run = "completed"
         /\ t.status # "absent" => Shown(t).status # "absent"
<1> DEFINE st == CASE t.run = "queued" -> "todo"
                   [] t.run = "running" -> "in_progress"
                   [] t.run \in {"waiting_on_user", "failed"} -> "blocked"
                   [] t.run = "completed" -> "done"
                   [] OTHER -> t.status
<1>1. Shown(t) = [t EXCEPT !.linked = TRUE, !.active = (t.run = "running"), !.status = st]
  BY DEF Shown, Task
<1>2. /\ t.run = "queued" => st = "todo"
      /\ t.run = "running" => st = "in_progress"
      /\ t.run \in {"waiting_on_user", "failed"} => st = "blocked"
      /\ t.run = "completed" => st = "done"
      /\ t.run \notin {"queued", "running", "waiting_on_user", "failed", "completed"} => st = t.status
  OBVIOUS
<1>3. st \in IssueStatus \cup {"absent"}
  BY <1>2 DEF Task, IssueStatus
<1> HIDE DEF st
<1>4. Shown(t) \in Task
  BY <1>1, <1>3 DEF Task
<1>5. /\ Shown(t).blockedBy = t.blockedBy /\ Shown(t).rows = t.rows /\ Shown(t).run = t.run
      /\ Shown(t).status = st /\ (Shown(t).active <=> t.run = "running")
  BY <1>1 DEF Task
<1>6. Showing(Shown(t))
  BY <1>2, <1>5 DEF Showing
<1> QED BY <1>2, <1>4, <1>5, <1>6 DEF Task

\* Reading a run leaves its queue alone, and sets run and issue in step.
LEMMA RefreshedFacts ==
  ASSUME NEW t \in Task
  PROVE  /\ Keeps(t, Refreshed(t))
         /\ Refreshed(t).rows = t.rows
         /\ t.run = "none" => Refreshed(t) = t
         /\ t.run # "none" => Refreshed(t).run # "none" /\ Showing(Refreshed(t))
         /\ t.status # "done" /\ Refreshed(t).status = "done" => Refreshed(t).run = "completed"
         /\ t.status # "absent" => Refreshed(t).status # "absent"
<1>1. CASE t.run = "none"
  <2>1. Refreshed(t) = t
    BY <1>1 DEF Refreshed
  <2> QED BY <1>1, <2>1, KeepsSelf
<1>2. CASE t.run # "none"
  <2> DEFINE u == [t EXCEPT !.run = Derived(t), !.cur = CurrentInput(t), !.latest = LatestInput(t)]
  <2>1. Derived(t) \in RunStatus \ {"none"} /\ CurrentInput(t) \in Nat /\ LatestInput(t) \in Nat
    BY <1>2, DerivedTypes, InputTypes
  <2>2. u \in Task /\ u.blockedBy = t.blockedBy /\ u.rows = t.rows /\ u.status = t.status
        /\ u.run # "none"
    BY <2>1 DEF Task, RunStatus
  <2>3. Refreshed(t) = Shown(u)
    BY <1>2 DEF Refreshed
  <2> HIDE DEF u
  <2> QED BY <1>2, <2>2, <2>3, ShownFacts DEF Keeps
<1> QED BY <1>1, <1>2

\* An input is queued for the run.
LEMMA EnqueuedFacts ==
  ASSUME NEW t \in Task
  PROVE  /\ Keeps(t, Enqueued(t))
         /\ Len(Enqueued(t).rows) = Len(t.rows) + 1
         /\ Enqueued(t).run = "queued" /\ Enqueued(t).status = t.status
<1> DEFINE s == Append(t.rows, [status |-> "QUEUED", turn |-> "none"])
<1>1. /\ s \in Seq(Row) /\ Len(s) = Len(t.rows) + 1 /\ DOMAIN s = 1..(Len(t.rows) + 1)
      /\ \A m \in DOMAIN t.rows : s[m] = t.rows[m]
  BY AppendedRows
<1>2. Enqueued(t) = [t EXCEPT !.run = "queued", !.question = FALSE, !.rows = s]
  BY DEF Enqueued
<1> HIDE DEF s
<1>3. Enqueued(t) \in Task
  BY <1>1, <1>2 DEF Task
<1>4. Enqueued(t).rows = s /\ Enqueued(t).blockedBy = t.blockedBy /\ Enqueued(t).run = "queued"
      /\ Enqueued(t).status = t.status
  BY <1>2 DEF Task
<1>5. DOMAIN t.rows = 1..Len(t.rows) /\ Len(t.rows) \in Nat
  BY RowsTyped
<1> QED BY <1>1, <1>3, <1>4, <1>5 DEF Keeps

\* The run is opened, and the first writes that give it an input.
LEMMA OpenedFacts ==
  ASSUME NEW t \in Task
  PROVE  /\ Keeps(t, Opened(t))
         /\ Opened(t).rows = t.rows /\ Opened(t).run = "queued"
         /\ Opened(t).status = t.status
<1>1. Opened(t) \in Task
  BY DEF Opened, Task
<1> QED BY <1>1 DEF Opened, Task, Keeps

LEMMA GivenFacts ==
  ASSUME NEW t \in Task, NEW k \in 0..3
  PROVE  /\ Keeps(t, Given(t, k))
         /\ Len(Given(t, k).rows) = IF k = 0 THEN Len(t.rows) ELSE Len(t.rows) + 1
         /\ Given(t, k).run \in {t.run, "queued"}
         /\ Given(t, k).status = t.status
<1> DEFINE n == Len(t.rows) + 1
           s == Append(t.rows, [status |-> "QUEUED", turn |-> "none"])
           row == [t EXCEPT !.rows = s]
           rt == SetRuntime(row, "QUEUED", n)
           u == [Opened(rt) EXCEPT !.cur = n, !.latest = n]
<1>1. n \in Nat /\ "QUEUED" \in RuntimeStatus /\ DOMAIN t.rows = 1..Len(t.rows)
  BY RowsTyped DEF RuntimeStatus
<1>2. /\ s \in Seq(Row) /\ Len(s) = n /\ DOMAIN s = 1..n
      /\ \A m \in DOMAIN t.rows : s[m] = t.rows[m]
  BY AppendedRows
<1>3. /\ k = 0 => Given(t, k) = t
      /\ k = 1 => Given(t, k) = row
      /\ k = 2 => Given(t, k) = rt
      /\ k = 3 => Given(t, k) = u
  <2>1. k = 0 => Given(t, k) = t
    BY DEF Given
  <2>2. k = 1 => Given(t, k) = row
    BY DEF Given
  <2>3. k = 2 => Given(t, k) = rt
    BY DEF Given
  <2>4. k = 3 => Given(t, k) = u
    BY DEF Given
  <2> QED BY <2>1, <2>2, <2>3, <2>4
<1> HIDE DEF n, s
<1>4. row \in Task /\ row.rows = s /\ row.blockedBy = t.blockedBy /\ row.run = t.run
      /\ row.status = t.status
  BY <1>2 DEF Task
<1> HIDE DEF row
<1>5. /\ Keeps(row, rt) /\ SameFace(row, rt) /\ rt.rows = row.rows /\ rt \in Task
  BY <1>1, <1>4, SetRuntimeFacts DEF Keeps
<1> HIDE DEF rt
<1>6. Keeps(rt, Opened(rt)) /\ Opened(rt).rows = rt.rows /\ Opened(rt).run = "queued"
      /\ Opened(rt).status = rt.status /\ Opened(rt) \in Task
  BY <1>5, OpenedFacts DEF Keeps
<1>7. /\ u \in Task /\ u.rows = s /\ u.blockedBy = t.blockedBy /\ u.run = "queued"
      /\ u.status = t.status
  BY <1>1, <1>4, <1>5, <1>6 DEF Task, Keeps, SameFace
<1> HIDE DEF u
<1>8. \A m \in DOMAIN t.rows : m \in DOMAIN s /\ s[m] = t.rows[m]
  BY <1>1, <1>2 DEF n
<1>9. Keeps(t, row) /\ Keeps(t, u) /\ Keeps(t, rt)
  BY <1>4, <1>5, <1>7, <1>8 DEF Keeps
<1>10. Keeps(t, t)
  BY KeepsSelf
<1>11. k \in {0, 1, 2, 3} /\ Len(s) = Len(t.rows) + 1
  BY <1>2 DEF n
<1> QED BY <1>3, <1>4, <1>5, <1>7, <1>9, <1>10, <1>11 DEF SameFace

\* A dispatch leaves an issue that shows a queued run.
LEMMA DispatchedFacts ==
  ASSUME NEW t \in Task
  PROVE  /\ Keeps(t, Dispatched(t))
         /\ Len(Dispatched(t).rows) = Len(t.rows) + 1
         /\ Dispatched(t).run = "queued" /\ Dispatched(t).status = "todo"
         /\ Showing(Dispatched(t))
<1> DEFINE n == Len(t.rows) + 1
           u == SetRuntime(Enqueued(t), "QUEUED", n)
<1>1. n \in Nat
  BY RowsTyped
<1>2. Enqueued(t) \in Task
  BY EnqueuedFacts DEF Keeps
<1>3. Keeps(Enqueued(t), u) /\ u.rows = Enqueued(t).rows /\ u.run = Enqueued(t).run
  BY <1>1, <1>2, SetRuntimeFacts DEF RuntimeStatus, SameFace
<1>4. Dispatched(t) = [u EXCEPT !.cur = n, !.latest = n, !.status = "todo", !.active = FALSE,
                                !.linked = TRUE]
  BY DEF Dispatched
<1>5. Keeps(t, u)
  BY <1>2, <1>3, EnqueuedFacts, KeepsOn
<1>6. u \in Task
  BY <1>3 DEF Keeps
<1> HIDE DEF u, n
<1>7. Dispatched(t) \in Task
  BY <1>1, <1>4, <1>6 DEF Task, IssueStatus
<1>8. /\ Dispatched(t).rows = u.rows /\ Dispatched(t).blockedBy = u.blockedBy
      /\ Dispatched(t).run = u.run /\ Dispatched(t).status = "todo" /\ Dispatched(t).active = FALSE
  BY <1>4, <1>6 DEF Task
<1>9. Showing(Dispatched(t))
  BY <1>3, <1>8, EnqueuedFacts DEF Showing
<1> QED BY <1>3, <1>5, <1>7, <1>8, <1>9, EnqueuedFacts DEF Keeps

\* A run is told how its turn ended.
LEMMA ReportedFacts ==
  ASSUME NEW t \in Task, NEW n \in Nat, NEW v \in Turn
  PROVE  /\ Keeps(t, Reported(t, n, v))
         /\ Reported(t, n, v).rows = t.rows
         /\ Reported(t, n, v).run # "none"
         /\ Reported(t, n, v).status = t.status
         /\ Reported(t, n, v).active = t.active /\ Reported(t, n, v).linked = t.linked
<1> DEFINE run == IF t.run = "cancelled" \/ v = "paused" THEN "cancelled"
                  ELSE IF v \in {"asks", "waiting_user"} THEN "waiting_on_user" ELSE v
           c == IF run = "waiting_on_user" THEN n ELSE NoInput
<1>1. run \in RunStatus \ {"none"}
  BY DEF Turn, RunStatus
<1>2. c \in Nat
  BY DEF NoInput
<1>3. Reported(t, n, v) = [t EXCEPT !.run = run, !.latest = n,
                                    !.question = (run = "waiting_on_user"), !.cur = c]
  BY DEF Reported
<1> HIDE DEF run, c
<1>4. Reported(t, n, v) \in Task
  BY <1>1, <1>2, <1>3 DEF Task, RunStatus
<1> QED BY <1>1, <1>3, <1>4 DEF Keeps, Task

LEMMA VerdictTypes ==
  ASSUME NEW v \in Turn
  PROVE  RowStatusOf(v) \in RowStatus /\ RuntimeStatusOf(v) \in RuntimeStatus
BY DEF Turn, RowStatusOf, RuntimeStatusOf, RowStatus, RuntimeStatus

LEMMA SetRuntimeLike ==
  ASSUME NEW t \in Task, NEW st \in RuntimeStatus, NEW n \in Nat
  PROVE  OneLike(t, SetRuntime(t, st, n))
BY SetRuntimeFacts DEF OneLike, Keeps

\* The first four writes of the block that ends a turn do not reach the issue.
LEMMA EndedFacts ==
  ASSUME NEW t \in Task, NEW n \in Nat, NEW v \in Turn, NEW k \in 1..4
  PROVE  /\ Ended(t, n, v, k) \in Task
         /\ Ended(t, n, v, k).blockedBy = t.blockedBy
         /\ Len(Ended(t, n, v, k).rows) = Len(t.rows)
         /\ Ended(t, n, v, k).status = t.status
         /\ Ended(t, n, v, k).active = t.active /\ Ended(t, n, v, k).linked = t.linked
         /\ Ended(t, n, v, k).run = t.run \/ Ended(t, n, v, k).run # "none"
         /\ k = 4 => Ended(t, n, v, k).run # "none"
<1> DEFINE row == SetRow(t, n, RowStatusOf(v))
           runtime == IF k >= 2 THEN SetRuntime(row, RuntimeStatusOf(v), NoInput) ELSE row
           turn == IF k >= 3 THEN [runtime EXCEPT !.rows[n].turn = v] ELSE runtime
           run == IF k >= 4 THEN Reported(turn, n, v) ELSE turn
<1>1. OneLike(t, row)
  BY VerdictTypes, SetRowFacts
<1>2. row \in Task
  BY <1>1 DEF OneLike
<1> HIDE DEF row
<1>3. OneLike(row, runtime)
  BY <1>2, VerdictTypes, SetRuntimeLike DEF NoInput, OneLike, SameFace
<1>4. runtime \in Task
  BY <1>3 DEF OneLike
<1> HIDE DEF runtime
<1>5. OneLike(runtime, turn)
  <2>1. CASE k >= 3
    BY <1>4, <2>1, SetTurnFacts
  <2>2. CASE ~(k >= 3)
    BY <1>4, <2>2 DEF OneLike, SameFace
  <2> QED BY <2>1, <2>2
<1>6. turn \in Task
  BY <1>5 DEF OneLike
<1> HIDE DEF turn
<1>7. /\ run \in Task /\ run.blockedBy = turn.blockedBy /\ Len(run.rows) = Len(turn.rows)
      /\ run.status = turn.status /\ run.active = turn.active /\ run.linked = turn.linked
      /\ run.run = turn.run \/ run.run # "none"
      /\ k = 4 => run.run # "none"
  <2>1. CASE k >= 4
    BY <1>6, <2>1, ReportedFacts DEF Keeps
  <2>2. CASE ~(k >= 4)
    BY <1>6, <2>2
  <2> QED BY <2>1, <2>2
<1>8. Ended(t, n, v, k) = run
  BY DEF Ended, row, runtime, turn
<1> QED BY <1>1, <1>3, <1>5, <1>7, <1>8 DEF OneLike, SameFace

\* The fifth write is that of the issue.
LEMMA EndedFive ==
  ASSUME NEW t, NEW n, NEW v PROVE Ended(t, n, v, 5) = Refreshed(Ended(t, n, v, 4))
BY DEF Ended

\* A cancelled run.
LEMMA CancelledFacts ==
  ASSUME NEW t \in Task
  PROVE  /\ Keeps(t, Cancelled(t))
         /\ Cancelled(t).rows = t.rows
         /\ Cancelled(t).run # "none" /\ Cancelled(t).status = "blocked"
         /\ Showing(Cancelled(t))
<1> DEFINE u == [t EXCEPT !.run = "cancelled"]
<1>1. u \in Task /\ u.blockedBy = t.blockedBy /\ u.rows = t.rows /\ u.run = "cancelled"
  BY DEF Task
<1>2. Refreshed(u).run = "cancelled"
  <2>1. Derived(u) = "cancelled"
    BY <1>1 DEF Derived
  <2>2. CurrentInput(u) \in Nat /\ LatestInput(u) \in Nat
    BY <1>1, InputTypes
  <2>3. [u EXCEPT !.run = Derived(u), !.cur = CurrentInput(u), !.latest = LatestInput(u)] \in Task
        /\ [u EXCEPT !.run = Derived(u), !.cur = CurrentInput(u), !.latest = LatestInput(u)].run
             = "cancelled"
    BY <1>1, <2>1, <2>2 DEF Task
  <2> QED BY <1>1, <2>3, ShownFacts DEF Refreshed
<1>3. Keeps(u, Refreshed(u)) /\ Refreshed(u).rows = u.rows
  BY <1>1, RefreshedFacts
<1>4. Cancelled(t) = [Refreshed(u) EXCEPT !.status = "blocked", !.active = FALSE, !.linked = TRUE]
  BY DEF Cancelled
<1>5. Refreshed(u) \in Task
  BY <1>3 DEF Keeps
<1> HIDE DEF u
<1>6. Cancelled(t) \in Task
  BY <1>4, <1>5 DEF Task, IssueStatus
<1>7. /\ Cancelled(t).blockedBy = Refreshed(u).blockedBy /\ Cancelled(t).rows = Refreshed(u).rows
      /\ Cancelled(t).run = Refreshed(u).run /\ Cancelled(t).status = "blocked"
      /\ Cancelled(t).active = FALSE
  BY <1>4, <1>5 DEF Task
<1> QED BY <1>1, <1>2, <1>3, <1>6, <1>7 DEF Keeps, Showing

--------------------------------------------------------------------------------
(* The operators on all issues *)

\* An issue that was not created has no run and no queue.
Tidy(t) == t.status = "absent" => t = NoTask

LEMMA NoTaskTyped == NoTask \in Task /\ DOMAIN NoTask.rows = {}
<1>1. <<>> \in Seq(Row)
  OBVIOUS
<1> QED BY <1>1 DEF NoTask, Task, NoInput

\* A row that nobody has claimed may change.
LEMMA SetRowKeeps ==
  ASSUME NEW t \in Task, NEW n, NEW st \in RowStatus,
         n \in DOMAIN t.rows => t.rows[n].status # "CLAIMED"
  PROVE  Keeps(t, SetRow(t, n, st)) /\ SameFace(t, SetRow(t, n, st))
         /\ Len(SetRow(t, n, st).rows) = Len(t.rows)
BY SetRowFacts DEF Keeps, OneLike

LEMMA PausedInQueueFacts ==
  ASSUME NEW t \in Task, StatusIn(t, t.rtInput) = "QUEUED"
  PROVE  Keeps(t, PausedInQueue(t)) /\ SameFace(t, PausedInQueue(t))
         /\ Len(PausedInQueue(t).rows) = Len(t.rows)
<1> DEFINE n == t.rtInput
           u == SetRow(t, n, "PAUSED")
           v == [u EXCEPT !.rows[n].turn = "paused"]
<1>1. Keeps(t, u) /\ SameFace(t, u) /\ Len(u.rows) = Len(t.rows)
  BY SetRowKeeps DEF StatusIn, RowStatus
<1>2. u \in Task
  BY <1>1 DEF Keeps
<1> HIDE DEF u
<1>3. Keeps(u, v) /\ SameFace(u, v) /\ Len(v.rows) = Len(u.rows)
  BY <1>2, SetTurnFacts DEF Turn, Keeps, OneLike
<1>4. v \in Task
  BY <1>3 DEF Keeps
<1>5. PausedInQueue(t) = SetRuntime(v, "PAUSED", NoInput)
  BY DEF PausedInQueue, u
<1> HIDE DEF v
<1>6. Keeps(v, PausedInQueue(t)) /\ SameFace(v, PausedInQueue(t)) /\ PausedInQueue(t).rows = v.rows
  BY <1>4, <1>5, SetRuntimeFacts DEF RuntimeStatus, NoInput
<1> QED BY <1>1, <1>2, <1>3, <1>4, <1>6 DEF Keeps, SameFace

\* What a read, and the dispatches it causes, leave of an issue.
LEMMA SyncedIs ==
  ASSUME NEW T \in [Issue -> Task], NEW S
  PROVE  /\ Synced(T, S) \in [Issue -> Task]
         /\ \A j \in Issue :
              \E t \in {T[j], Refreshed(T[j])} :
                Synced(T, S)[j] \in {t, Refreshed(t), Dispatched(t)}
                /\ (Synced(T, S)[j] = Dispatched(t) => t.status = "todo")
<1> DEFINE seen == [j \in Issue |-> IF j \in S THEN Refreshed(T[j]) ELSE T[j]]
           done == {j \in S : seen[j].run = "completed" /\ T[j].status # "done"}
           next == ReadyDownstream(seen, done)
           quoted == {b \in UNION {T[k].blockedBy : k \in next} : seen[b].linked}
<1>1. Synced(T, S) = [j \in Issue |-> IF j \in next THEN Dispatched(seen[j])
                        ELSE IF j \in quoted THEN Refreshed(seen[j]) ELSE seen[j]]
  BY DEF Synced
<1>2. \A j \in Issue : seen[j] \in {T[j], Refreshed(T[j])} /\ seen[j] \in Task
  BY RefreshedFacts DEF Keeps
<1>3. \A j \in next : seen[j].status = "todo"
  BY DEF ReadyDownstream
<1> HIDE DEF seen, done, next, quoted
<1>4. \A j \in Issue : /\ Dispatched(seen[j]) \in Task /\ Refreshed(seen[j]) \in Task
                       /\ Dispatched(seen[j]) # seen[j] /\ Dispatched(seen[j]) # Refreshed(seen[j])
  <2> TAKE j \in Issue
  <2> DEFINE t == seen[j]
  <2>1. t \in Task
    BY <1>2
  <2> HIDE DEF t
  <2>2. Len(Dispatched(t).rows) = Len(t.rows) + 1 /\ Refreshed(t).rows = t.rows
        /\ Len(t.rows) \in Nat /\ Dispatched(t) \in Task /\ Refreshed(t) \in Task
    BY <2>1, DispatchedFacts, RefreshedFacts, RowsTyped DEF Keeps
  <2>3. Dispatched(t) # t /\ Dispatched(t) # Refreshed(t)
    BY <2>2
  <2> QED BY <2>2, <2>3 DEF t
<1>5. Synced(T, S) \in [Issue -> Task]
  BY <1>1, <1>2, <1>4
<1>6. ASSUME NEW j \in Issue
      PROVE  \E t \in {T[j], Refreshed(T[j])} :
               Synced(T, S)[j] \in {t, Refreshed(t), Dispatched(t)}
               /\ (Synced(T, S)[j] = Dispatched(t) => t.status = "todo")
  <2>1. seen[j] \in {T[j], Refreshed(T[j])}
    BY <1>2
  <2>2. Synced(T, S)[j] \in {seen[j], Refreshed(seen[j]), Dispatched(seen[j])}
    BY <1>1
  <2>3. Synced(T, S)[j] = Dispatched(seen[j]) => seen[j].status = "todo"
    BY <1>1, <1>3, <1>4
  <2> QED BY <2>1, <2>2, <2>3
<1> QED BY <1>5, <1>6

\* What happens to one issue in it.
Moved(t, u) ==
  /\ Keeps(t, u)
  /\ Tidy(t) => Tidy(u)
  /\ t.status # "absent" => u.status # "absent"
  /\ t.run # "none" => u.run # "none"
  /\ u.run = "none" => u = t
  /\ Showing(t) => Showing(u)
  /\ Len(u.rows) = Len(t.rows) \/ (Len(u.rows) > Len(t.rows) /\ Showing(u) /\ u.run # "none")

LEMMA MovedSelf == ASSUME NEW t \in Task PROVE Moved(t, t)
BY KeepsSelf DEF Moved

LEMMA MovedOn ==
  ASSUME NEW t \in Task, NEW u, NEW v, Moved(t, u), Moved(u, v) PROVE Moved(t, v)
<1>1. Keeps(t, v)
  BY KeepsOn DEF Moved
<1>2. u \in Task /\ v \in Task
  BY DEF Moved, Keeps
<1>3. Len(t.rows) \in Nat /\ Len(u.rows) \in Nat /\ Len(v.rows) \in Nat
  BY <1>2, RowsTyped
<1> QED BY <1>1, <1>3 DEF Moved

LEMMA MovedRefreshed == ASSUME NEW t \in Task PROVE Moved(t, Refreshed(t))
<1>1. CASE t.run = "none"
  BY <1>1, MovedSelf, RefreshedFacts
<1>2. CASE t.run # "none"
  <2>1. t.status = "absent" => ~Tidy(t)
    BY <1>2 DEF Tidy, NoTask
  <2> QED BY <1>2, <2>1, RefreshedFacts DEF Moved, Tidy
<1> QED BY <1>1, <1>2

LEMMA MovedDispatched == ASSUME NEW t \in Task PROVE Moved(t, Dispatched(t))
<1>1. Len(t.rows) \in Nat
  BY RowsTyped
<1> QED BY <1>1, DispatchedFacts DEF Moved, Tidy

\* So it does to every issue when somebody reads.
LEMMA SyncedMoved ==
  ASSUME NEW T \in [Issue -> Task], NEW S
  PROVE  /\ Synced(T, S) \in [Issue -> Task]
         /\ \A j \in Issue : Moved(T[j], Synced(T, S)[j])
<1>1. ASSUME NEW j \in Issue PROVE Moved(T[j], Synced(T, S)[j])
  <2>1. PICK t \in {T[j], Refreshed(T[j])} :
          Synced(T, S)[j] \in {t, Refreshed(t), Dispatched(t)}
    BY SyncedIs
  <2>2. T[j] \in Task
    OBVIOUS
  <2>3. Moved(T[j], t)
    BY <2>1, <2>2, MovedSelf, MovedRefreshed
  <2>4. t \in Task
    BY <2>3 DEF Moved, Keeps
  <2>5. Moved(t, Synced(T, S)[j])
    BY <2>1, <2>4, MovedSelf, MovedRefreshed, MovedDispatched
  <2> QED BY <2>2, <2>3, <2>5, MovedOn
<1> QED BY <1>1, SyncedIs

LEMMA DispatchIfReadyFacts ==
  ASSUME NEW T \in [Issue -> Task], NEW i \in Issue
  PROVE  /\ DispatchIfReady(T, i) \in [Issue -> Task]
         /\ \A j \in Issue : Moved(T[j], DispatchIfReady(T, i)[j])
         /\ \A j \in Issue : j # i => DispatchIfReady(T, i)[j] = T[j]
<1>1. T[i] \in Task
  OBVIOUS
<1>2. Moved(T[i], Dispatched(T[i])) /\ Dispatched(T[i]) \in Task
  BY <1>1, MovedDispatched DEF Moved, Keeps
<1>3. \A j \in Issue : Moved(T[j], T[j])
  BY MovedSelf
<1>4. CASE DispatchIfReady(T, i) = T
  BY <1>3, <1>4
<1>5. CASE DispatchIfReady(T, i) = [T EXCEPT ![i] = Dispatched(T[i])]
  BY <1>2, <1>3, <1>5
<1> QED BY <1>4, <1>5 DEF DispatchIfReady

--------------------------------------------------------------------------------
(* Types *)

\* An executor has a claimed input; an issue that was not created has none.
TypeInv ==
  /\ TypeOK
  /\ \A i \in Issue : exec[i] # "none"
                        => \E n \in DOMAIN task[i].rows : task[i].rows[n].status = "CLAIMED"
  /\ \A i \in Issue : Tidy(task[i])

ExecHasClaim(i) ==
  exec[i] # "none" => \E n \in DOMAIN task[i].rows : task[i].rows[n].status = "CLAIMED"

LEMMA ClaimedFacts ==
  ASSUME TypeInv, NEW i \in Issue, exec[i] # "none"
  PROVE  /\ Claimed(i) \in DOMAIN task[i].rows /\ Claimed(i) \in Nat
         /\ task[i].rows[Claimed(i)].status = "CLAIMED"
         /\ task[i].status # "absent" /\ task[i] \in Task
<1>1. \E n \in DOMAIN task[i].rows : task[i].rows[n].status = "CLAIMED"
  BY DEF TypeInv
<1>2. task[i] \in Task /\ Tidy(task[i])
  BY DEF TypeInv, TypeOK
<1>3. DOMAIN task[i].rows = 1..Len(task[i].rows)
  BY <1>2, RowsTyped
<1>4. Claimed(i) \in DOMAIN task[i].rows /\ task[i].rows[Claimed(i)].status = "CLAIMED"
  BY <1>1 DEF Claimed
<1> QED BY <1>1, <1>2, <1>3, <1>4, NoTaskTyped DEF Tidy

\* A step that sets the tasks, moves no executor up and keeps what is claimed.
LEMMA TypeKept ==
  ASSUME TypeInv, task' \in [Issue -> Task],
         NEW i \in Issue,
         exec' \in [Issue -> ExecStatus],
         \A j \in Issue : (j # i => exec'[j] = "none" \/ exec[j] # "none"),
         \A j \in Issue : j # i => Keeps(task[j], task'[j]) /\ (Tidy(task[j]) => Tidy(task'[j])),
         exec'[i] # "none"
           => \E n \in DOMAIN task'[i].rows : task'[i].rows[n].status = "CLAIMED",
         Tidy(task'[i]),
         cancelling' \in [Issue -> BOOLEAN],
         edits' \in 0..MaxEdits, crashes' \in 0..MaxCrashes,
         byHand' \in [Issue -> BOOLEAN], withdrawn' \in [Issue -> BOOLEAN],
         torn' \in [Issue -> BOOLEAN], followed' \subseteq Issue
  PROVE  TypeInv'
<1>1. TypeOK'
  BY DEF TypeOK
<1>2. ASSUME NEW j \in Issue, exec'[j] # "none"
      PROVE  \E n \in DOMAIN task'[j].rows : task'[j].rows[n].status = "CLAIMED"
  <2>1. CASE j = i
    BY <1>2, <2>1
  <2>2. CASE j # i
    <3>1. exec[j] # "none" /\ Keeps(task[j], task'[j])
      BY <1>2, <2>2
    <3>2. PICK n \in DOMAIN task[j].rows : task[j].rows[n].status = "CLAIMED"
      BY <3>1 DEF TypeInv
    <3> QED BY <3>1, <3>2 DEF Keeps
  <2> QED BY <2>1, <2>2
<1>3. \A j \in Issue : Tidy(task'[j])
  BY DEF TypeInv
<1> QED BY <1>1, <1>2, <1>3 DEF TypeInv, Tidy

LEMMA SetTasksTypes ==
  ASSUME TypeInv, NEW T, NEW hand, SetTasks(T, hand)
  PROVE  task' = T /\ byHand' \in [Issue -> BOOLEAN] /\ withdrawn' \in [Issue -> BOOLEAN]
BY DEF SetTasks

\* A step that only moves issues.
LEMMA TypeMoved ==
  ASSUME TypeInv, NEW T \in [Issue -> Task], NEW hand, SetTasks(T, hand),
         \A j \in Issue : Moved(task[j], T[j]),
         UNCHANGED <<exec, torn>>, cancelling' \in [Issue -> BOOLEAN],
         edits' \in 0..MaxEdits, crashes' \in 0..MaxCrashes, followed' \subseteq Issue
  PROVE  TypeInv'
<1>1. task' = T /\ byHand' \in [Issue -> BOOLEAN] /\ withdrawn' \in [Issue -> BOOLEAN]
  BY SetTasksTypes
<1>2. TypeOK'
  BY <1>1 DEF TypeInv, TypeOK
<1>3. \A j \in Issue : ExecHasClaim(j)'
  BY <1>1 DEF TypeInv, Moved, Keeps, ExecHasClaim
<1>4. \A j \in Issue : Tidy(task'[j])
  BY <1>1 DEF TypeInv, Moved
<1> QED BY <1>2, <1>3, <1>4 DEF TypeInv, ExecHasClaim, Tidy

\* A death of the process.
LEMMA DieTypes ==
  ASSUME TypeInv, NEW E, Die(E)
  PROVE  /\ exec' \in [Issue -> ExecStatus] /\ cancelling' \in [Issue -> BOOLEAN]
         /\ crashes' \in 0..MaxCrashes
         /\ \A j \in Issue : /\ exec'[j] = "none" \/ exec[j] # "none"
                             /\ j \in E => exec'[j] = "none"
<1>1. \A j \in Issue :
        LET x == CASE j \in E -> "none"
                   [] j \notin E /\ exec[j] = "gate" -> "lost_unstarted"
                   [] j \notin E /\ exec[j] = "runner" -> "lost_started"
                   [] OTHER -> exec[j]
        IN  x \in ExecStatus /\ (x = "none" \/ exec[j] # "none") /\ (j \in E => x = "none")
  BY DEF TypeInv, TypeOK, ExecStatus
<1>2. crashes' \in 0..MaxCrashes
  BY IssueWorkflowAssumption DEF Die, TypeInv, TypeOK, IssueWorkflowAssumption
<1> QED BY <1>1, <1>2 DEF Die

\* An issue that was not created is not executed.
LEMMA AbsentIdle ==
  ASSUME TypeInv, NEW i \in Issue, ~Exists(i)
  PROVE  exec[i] = "none" /\ task[i] = NoTask /\ task[i].rows = NoTask.rows
BY NoTaskTyped DEF TypeInv, Tidy, Exists

LEMMA TaskTyped == ASSUME TypeInv, NEW i \in Issue PROVE task[i] \in Task /\ Tidy(task[i])
BY DEF TypeInv, TypeOK

\* The issue that a user makes.
Made(st, B) == [NoTask EXCEPT !.status = st, !.blockedBy = B]

LEMMA MadeTypes ==
  ASSUME NEW st \in IssueStatus, NEW B \in SUBSET Issue
  PROVE  /\ Made(st, B) \in Task /\ Made(st, B).status = st /\ Made(st, B).status # "absent"
         /\ Made(st, B).blockedBy = B /\ Made(st, B).run = "none"
         /\ Made(st, B).active = FALSE /\ Made(st, B).linked = FALSE
<1>1. NoTask \in Task
  BY NoTaskTyped
<1> QED BY <1>1 DEF NoTask, Task, Made, IssueStatus

LEMMA CreateTypes ==
  ASSUME TypeInv, NEW i \in Issue, NEW st \in UserStatus, NEW B \in SUBSET Issue, Create(i, st, B)
  PROVE  TypeInv'
<1> DEFINE new == Made(st, B)
           T == With(i, new)
<1>1. new \in Task /\ new.status # "absent"
  BY MadeTypes, IssueWorkflowAssumption DEF IssueWorkflowAssumption, IssueStatus
<1>2. exec[i] = "none"
  BY AbsentIdle DEF Create, NextIssue
<1> HIDE DEF new
<1>3. T \in [Issue -> Task] /\ T[i] = new /\ \A j \in Issue : j # i => T[j] = task[j]
  BY <1>1, TaskTyped DEF With, TypeInv, TypeOK
<1> HIDE DEF T
<1> DEFINE U == DispatchIfReady(T, i)
<1>4. U \in [Issue -> Task] /\ Moved(T[i], U[i]) /\ \A j \in Issue : j # i => U[j] = task[j]
  BY <1>3, DispatchIfReadyFacts
<1> HIDE DEF U
<1>5. SetTasks(U, {}) /\ UNCHANGED <<exec, cancelling, edits, crashes, followed, torn>>
  BY DEF Create, U, T, new, Made
<1>6. task' = U /\ byHand' \in [Issue -> BOOLEAN] /\ withdrawn' \in [Issue -> BOOLEAN]
  BY <1>5, SetTasksTypes
<1>7. Tidy(U[i])
  BY <1>1, <1>3, <1>4 DEF Moved, Tidy
<1>8. \A j \in Issue : j # i => Keeps(task[j], task'[j]) /\ (Tidy(task[j]) => Tidy(task'[j]))
  BY <1>4, <1>6, TaskTyped, KeepsSelf
<1> QED
  BY <1>2, <1>4, <1>5, <1>6, <1>7, <1>8, TypeKept DEF TypeInv, TypeOK

LEMMA DelegateTypes ==
  ASSUME TypeInv, NEW i \in Issue, NEW B \in SUBSET Issue, Delegate(i, B)
  PROVE  TypeInv'
<1> DEFINE new == Made("todo", B)
           T == With(i, new)
           S == {b \in B : task[b].linked}
           seen == Synced(T, S)
           last == IF BlockersDone(T, i) THEN Dispatched(seen[i])
                   ELSE SetRuntime(seen[i], "IDLE", NoInput)
           U == [seen EXCEPT ![i] = last]
<1>1. new \in Task /\ new.status # "absent"
  BY MadeTypes DEF IssueStatus
<1>2. exec[i] = "none"
  BY AbsentIdle DEF Delegate, NextIssue
<1> HIDE DEF new
<1>3. T \in [Issue -> Task] /\ T[i] = new /\ \A j \in Issue : j # i => T[j] = task[j]
  BY <1>1, TaskTyped DEF With, TypeInv, TypeOK
<1>4. SetTasks(U, {}) /\ UNCHANGED <<exec, cancelling, edits, crashes, followed, torn>>
  BY DEF Delegate, new, Made
<1> HIDE DEF T
<1>5. seen \in [Issue -> Task] /\ \A j \in Issue : Moved(T[j], seen[j])
  BY <1>3, SyncedMoved
<1> HIDE DEF seen
<1>6. last \in Task /\ last.status # "absent"
  <2>1. seen[i] \in Task /\ seen[i].status # "absent"
    BY <1>1, <1>3, <1>5 DEF Moved
  <2>2. Dispatched(seen[i]) \in Task /\ Dispatched(seen[i]).status # "absent"
    BY <2>1, DispatchedFacts DEF Keeps
  <2>3. "IDLE" \in RuntimeStatus /\ NoInput \in Nat
    BY DEF RuntimeStatus, NoInput
  <2>4. SetRuntime(seen[i], "IDLE", NoInput) \in Task
        /\ SetRuntime(seen[i], "IDLE", NoInput).status # "absent"
    BY <2>1, <2>3, SetRuntimeFacts DEF Keeps, SameFace
  <2> QED BY <2>2, <2>4
<1> HIDE DEF last
<1>7. U \in [Issue -> Task] /\ U[i] = last /\ \A j \in Issue : j # i => U[j] = seen[j]
  BY <1>5, <1>6
<1> HIDE DEF U
<1>8. task' = U /\ byHand' \in [Issue -> BOOLEAN] /\ withdrawn' \in [Issue -> BOOLEAN]
  BY <1>4, SetTasksTypes
<1>9. \A j \in Issue : j # i => Keeps(task[j], task'[j]) /\ (Tidy(task[j]) => Tidy(task'[j]))
  BY <1>3, <1>5, <1>7, <1>8 DEF Moved
<1>10. Tidy(task'[i])
  BY <1>6, <1>7, <1>8 DEF Tidy
<1> QED
  BY <1>2, <1>4, <1>7, <1>8, <1>9, <1>10, TypeKept DEF TypeInv, TypeOK

LEMMA EditTypes == ASSUME TypeInv, Edit PROVE edits' \in 0..MaxEdits
BY IssueWorkflowAssumption DEF Edit, TypeInv, TypeOK, IssueWorkflowAssumption

LEMMA PatchTypes ==
  ASSUME TypeInv, NEW i \in Issue, NEW st \in UserStatus \cup {task[i].status},
         NEW B \in SUBSET Issue, NEW named \in BOOLEAN,
         NEW active \in {task[i].active, FALSE}, NEW linked \in {task[i].linked, FALSE},
         Edit, Patch(i, st, B, named, active, linked)
  PROVE  TypeInv'
<1> DEFINE new == [task[i] EXCEPT !.status = st, !.blockedBy = B,
                                  !.active = active, !.linked = linked]
           T == With(i, new)
           U == IF named \/ task[i].status # "todo" THEN DispatchIfReady(T, i) ELSE T
<1>1. st \in IssueStatus /\ "absent" \notin IssueStatus
  BY IssueWorkflowAssumption, TaskTyped
     DEF IssueWorkflowAssumption, IssueStatus, Patch, Exists, Task
<1>2. new \in Task /\ new.status # "absent" /\ new.rows = task[i].rows
  <2>1. task[i] \in Task /\ active \in BOOLEAN /\ linked \in BOOLEAN
    BY TaskTyped DEF Task
  <2> QED BY <1>1, <2>1 DEF Task
<1>3. SetTasks(U, {i}) /\ UNCHANGED <<exec, cancelling, crashes, followed>>
      /\ torn' \in [Issue -> BOOLEAN]
  <2>1. torn' \in [Issue -> BOOLEAN]
    BY DEF Patch, TypeInv, TypeOK
  <2> QED BY <2>1 DEF Patch
<1> HIDE DEF new
<1>4. T \in [Issue -> Task] /\ T[i] = new /\ \A j \in Issue : j # i => T[j] = task[j]
  BY <1>2, TaskTyped DEF With, TypeInv, TypeOK
<1> HIDE DEF T
<1>5. U \in [Issue -> Task] /\ Moved(T[i], U[i]) /\ \A j \in Issue : j # i => U[j] = task[j]
  BY <1>2, <1>4, DispatchIfReadyFacts, MovedSelf
<1> HIDE DEF U
<1>6. task' = U /\ byHand' \in [Issue -> BOOLEAN] /\ withdrawn' \in [Issue -> BOOLEAN]
  BY <1>3, SetTasksTypes
<1>7. Tidy(U[i])
  BY <1>2, <1>4, <1>5 DEF Moved, Tidy
<1>8. exec[i] # "none" => \E n \in DOMAIN U[i].rows : U[i].rows[n].status = "CLAIMED"
  <2> SUFFICES ASSUME exec[i] # "none"
               PROVE  \E n \in DOMAIN U[i].rows : U[i].rows[n].status = "CLAIMED"
    OBVIOUS
  <2>1. PICK n \in DOMAIN task[i].rows : task[i].rows[n].status = "CLAIMED"
    BY DEF TypeInv
  <2>2. Keeps(T[i], U[i])
    BY <1>5 DEF Moved
  <2> QED BY <1>2, <1>4, <2>1, <2>2 DEF Keeps
<1>9. \A j \in Issue : j # i => Keeps(task[j], task'[j]) /\ (Tidy(task[j]) => Tidy(task'[j]))
  BY <1>5, <1>6, TaskTyped, KeepsSelf
<1> QED
  BY <1>3, <1>5, <1>6, <1>7, <1>8, <1>9, EditTypes, TypeKept DEF TypeInv, TypeOK

\* One issue moves.
LEMMA OneMoved ==
  ASSUME TypeInv, NEW i \in Issue, NEW t, Moved(task[i], t)
  PROVE  LET T == [task EXCEPT ![i] = t] IN
         T \in [Issue -> Task] /\ \A j \in Issue : Moved(task[j], T[j])
<1>1. t \in Task
  BY DEF Moved, Keeps
<1> QED BY <1>1, TaskTyped, MovedSelf DEF TypeInv, TypeOK

LEMMA RedispatchTypes == ASSUME TypeInv, NEW i \in Issue, Redispatch(i) PROVE TypeInv'
<1>1. Moved(task[i], Dispatched(task[i]))
  BY TaskTyped, MovedDispatched
<1>2. SetTasks([task EXCEPT ![i] = Dispatched(task[i])], {})
      /\ UNCHANGED <<exec, cancelling, crashes, followed, torn>> /\ Edit
  BY DEF Redispatch
<1>3. /\ edits' \in 0..MaxEdits /\ crashes' \in 0..MaxCrashes /\ followed' \subseteq Issue
      /\ cancelling' \in [Issue -> BOOLEAN]
  BY <1>2, EditTypes DEF TypeInv, TypeOK
<1> DEFINE T == [task EXCEPT ![i] = Dispatched(task[i])]
<1>4. T \in [Issue -> Task] /\ \A j \in Issue : Moved(task[j], T[j])
  BY <1>1, OneMoved
<1>5. SetTasks(T, {}) /\ UNCHANGED <<exec, torn>>
  BY <1>2
<1> HIDE DEF T
<1> QED BY <1>3, <1>4, <1>5, TypeMoved

LEMMA ReadTypes == ASSUME TypeInv, NEW i \in Issue, Read(i) PROVE TypeInv'
BY SyncedMoved, TypeMoved DEF Read, TypeInv, TypeOK

LEMMA PauseQueuedTypes == ASSUME TypeInv, NEW i \in Issue, PauseQueued(i) PROVE TypeInv'
<1>1. task[i] \in Task /\ Tidy(task[i])
  BY TaskTyped
<1>2. Keeps(task[i], PausedInQueue(task[i])) /\ SameFace(task[i], PausedInQueue(task[i]))
  BY <1>1, PausedInQueueFacts DEF PauseQueued
<1>3. StatusIn(task[i], task[i].rtInput) = "QUEUED"
  BY DEF PauseQueued
<1>4. task[i].status # "absent"
  BY <1>1, <1>3, NoTaskTyped DEF Tidy, StatusIn
<1> DEFINE t == PausedInQueue(task[i])
<1>5. t \in Task /\ Tidy(t)
  BY <1>2, <1>4 DEF Keeps, SameFace, Tidy
<1>6. task' = [task EXCEPT ![i] = t] /\ withdrawn' = [withdrawn EXCEPT ![i] = TRUE]
      /\ UNCHANGED <<exec, cancelling, edits, crashes, followed, byHand, torn>>
  BY DEF PauseQueued, With, Withdraw
<1>7. Keeps(task[i], t)
  BY <1>2
<1> HIDE DEF t
<1>8. task' \in [Issue -> Task] /\ task'[i] = t /\ \A j \in Issue : j # i => task'[j] = task[j]
  BY <1>5, <1>6 DEF TypeInv, TypeOK
<1>9. \A j \in Issue : Keeps(task[j], task'[j])
  BY <1>7, <1>8, TaskTyped, KeepsSelf
<1>10. exec'[i] # "none"
         => \E n \in DOMAIN task'[i].rows : task'[i].rows[n].status = "CLAIMED"
  BY <1>6, <1>9 DEF TypeInv, Keeps
<1> QED
  BY <1>5, <1>6, <1>8, <1>9, <1>10, TypeKept DEF TypeInv, TypeOK

LEMMA DeleteQueuedTypes == ASSUME TypeInv, NEW i \in Issue, DeleteQueued(i) PROVE TypeInv'
<1>1. PICK n \in OpenInputs(task[i]) :
        /\ StatusIn(task[i], n) = "QUEUED"
        /\ task' = With(i, SetRow(task[i], n, "CANCELLED"))
        /\ Withdraw(i)
        /\ UNCHANGED <<exec, cancelling, edits, crashes, followed, byHand, torn>>
  BY DEF DeleteQueued
<1>2. task[i] \in Task /\ Tidy(task[i])
  BY TaskTyped
<1> DEFINE t == SetRow(task[i], n, "CANCELLED")
<1>3. Keeps(task[i], t) /\ SameFace(task[i], t)
  BY <1>1, <1>2, SetRowKeeps DEF StatusIn, RowStatus
<1>4. task[i].status # "absent"
  BY <1>1, <1>2, NoTaskTyped DEF Tidy, StatusIn
<1> HIDE DEF t
<1>5. t \in Task /\ Tidy(t)
  BY <1>3, <1>4 DEF Keeps, SameFace, Tidy
<1>6. task' = [task EXCEPT ![i] = t] /\ withdrawn' = [withdrawn EXCEPT ![i] = TRUE]
      /\ UNCHANGED <<exec, cancelling, edits, crashes, followed, byHand, torn>>
  BY <1>1 DEF With, Withdraw, t
<1>8. task' \in [Issue -> Task] /\ task'[i] = t /\ \A j \in Issue : j # i => task'[j] = task[j]
  BY <1>5, <1>6 DEF TypeInv, TypeOK
<1>9. \A j \in Issue : Keeps(task[j], task'[j])
  BY <1>3, <1>8, TaskTyped, KeepsSelf
<1>10. exec'[i] # "none"
         => \E m \in DOMAIN task'[i].rows : task'[i].rows[m].status = "CLAIMED"
  BY <1>6, <1>9 DEF TypeInv, Keeps
<1> QED
  BY <1>5, <1>6, <1>8, <1>9, <1>10, TypeKept DEF TypeInv, TypeOK

\* A cancelled issue has moved.
LEMMA MovedCancelled == ASSUME NEW t \in Task PROVE Moved(t, Cancelled(t))
BY CancelledFacts DEF Moved, Tidy

\* An input that waits is closed, and the run cancelled.
LEMMA MovedClosed ==
  ASSUME NEW t \in Task, StatusIn(t, CurrentInput(t)) = "QUEUED"
  PROVE  Moved(t, Cancelled(SetRow(SetRuntime(t, "IDLE", NoInput), CurrentInput(t), "DONE")))
<1> DEFINE u == SetRuntime(t, "IDLE", NoInput)
           n == CurrentInput(t)
           v == SetRow(u, n, "DONE")
<1>1. Keeps(t, u) /\ SameFace(t, u) /\ u.rows = t.rows
  BY SetRuntimeFacts DEF RuntimeStatus, NoInput
<1>2. u \in Task
  BY <1>1 DEF Keeps
<1> HIDE DEF u, n
<1>3. Keeps(u, v) /\ SameFace(u, v) /\ Len(v.rows) = Len(u.rows)
  BY <1>1, <1>2, SetRowKeeps DEF StatusIn, RowStatus, n
<1>4. v \in Task
  BY <1>3 DEF Keeps
<1> HIDE DEF v
<1>5. /\ Keeps(v, Cancelled(v)) /\ Cancelled(v).rows = v.rows /\ Cancelled(v).run # "none"
      /\ Cancelled(v).status = "blocked" /\ Showing(Cancelled(v))
  BY <1>4, CancelledFacts
<1>6. Keeps(t, Cancelled(v))
  BY <1>1, <1>2, <1>3, <1>4, <1>5, KeepsOn
<1>7. Moved(t, Cancelled(v))
  BY <1>1, <1>3, <1>5, <1>6 DEF Moved, Tidy
<1> QED BY <1>7 DEF u, v, n

LEMMA MovedIdle ==
  ASSUME NEW t \in Task, t.run # "none", Tidy(t)
  PROVE  Moved(t, SetRuntime(t, "IDLE", NoInput))
<1>1. "IDLE" \in RuntimeStatus /\ NoInput \in Nat
  BY DEF RuntimeStatus, NoInput
<1>2. t.status # "absent"
  BY DEF Tidy, NoTask
<1> QED BY <1>1, <1>2, SetRuntimeFacts DEF Moved, SameFace, Showing, Tidy

\* What a cancel leaves of all issues.
LEMMA CancelMoves ==
  ASSUME TypeInv, NEW i \in Issue, Cancel(i)
  PROVE  \E T \in [Issue -> Task] :
           SetTasks(T, {}) /\ \A j \in Issue : Moved(task[j], T[j])
<1> DEFINE seen == Synced(task, {i})
           t == seen[i]
           n == CurrentInput(t)
           idle == SetRuntime(t, "IDLE", NoInput)
<1>1. task \in [Issue -> Task]
  BY DEF TypeInv, TypeOK
<1>2. seen \in [Issue -> Task] /\ \A j \in Issue : Moved(task[j], seen[j])
  BY <1>1, SyncedMoved
<1>3. t.run # "none"
  BY DEF Cancel, Live
<1>4. t \in Task /\ Tidy(t)
  BY <1>2, TaskTyped DEF Moved
<1>5. ASSUME NEW u, Moved(t, u)
      PROVE  LET T == [seen EXCEPT ![i] = u] IN
             T \in [Issue -> Task] /\ \A j \in Issue : Moved(task[j], T[j])
  <2> DEFINE T == [seen EXCEPT ![i] = u]
  <2>1. u \in Task
    BY <1>5 DEF Moved, Keeps
  <2>2. T \in [Issue -> Task] /\ T[i] = u /\ \A j \in Issue : j # i => T[j] = seen[j]
    BY <1>2, <2>1
  <2>3. Moved(task[i], u)
    BY <1>2, <1>5, TaskTyped, MovedOn
  <2> HIDE DEF seen, T
  <2>4. \A j \in Issue : Moved(task[j], T[j])
    BY <1>2, <2>2, <2>3
  <2> QED BY <2>2, <2>4 DEF T
<1>6. CASE /\ StatusIn(t, n) = "QUEUED"
           /\ SetTasks([seen EXCEPT ![i] = Cancelled(SetRow(idle, n, "DONE"))], {})
  <2>1. Moved(t, Cancelled(SetRow(idle, n, "DONE")))
    BY <1>4, <1>6, MovedClosed
  <2> HIDE DEF seen, t, n, idle
  <2> QED BY <1>5, <1>6, <2>1
<1>7. CASE SetTasks(seen, {})
  BY <1>2, <1>7
<1>8. CASE SetTasks([Synced([seen EXCEPT ![i] = idle], {i}) EXCEPT ![i] = Cancelled(@)], {})
  <2> DEFINE T == [seen EXCEPT ![i] = idle]
             again == Synced(T, {i})
             U == [again EXCEPT ![i] = Cancelled(again[i])]
  <2>1. T \in [Issue -> Task] /\ \A j \in Issue : Moved(task[j], T[j])
    BY <1>3, <1>4, <1>5, MovedIdle
  <2>2. SetTasks(U, {})
    BY <1>8
  <2> HIDE DEF T
  <2>3. again \in [Issue -> Task] /\ \A j \in Issue : Moved(T[j], again[j])
    BY <2>1, SyncedMoved
  <2> HIDE DEF again
  <2>4. Moved(again[i], Cancelled(again[i])) /\ Cancelled(again[i]) \in Task
    BY <2>3, MovedCancelled DEF Moved, Keeps
  <2>5. U \in [Issue -> Task] /\ U[i] = Cancelled(again[i])
        /\ \A j \in Issue : j # i => U[j] = again[j]
    BY <2>3, <2>4
  <2> HIDE DEF U
  <2>6. \A j \in Issue : Moved(task[j], again[j])
    BY <2>1, <2>3, TaskTyped, MovedOn
  <2>7. Moved(task[i], U[i])
    BY <2>4, <2>5, <2>6, TaskTyped, MovedOn
  <2>8. \A j \in Issue : Moved(task[j], U[j])
    BY <2>5, <2>6, <2>7
  <2> QED BY <2>2, <2>5, <2>8
<1> QED BY <1>6, <1>7, <1>8 DEF Cancel

LEMMA CancelTypes == ASSUME TypeInv, NEW i \in Issue, Cancel(i) PROVE TypeInv'
<1>1. PICK T \in [Issue -> Task] :
        SetTasks(T, {}) /\ \A j \in Issue : Moved(task[j], T[j])
  BY CancelMoves
<1>2. UNCHANGED <<exec, edits, crashes, followed, torn>>
  BY DEF Cancel
<1>3. cancelling' \in [Issue -> BOOLEAN]
  <2>1. \A x : [cancelling EXCEPT ![i] = (@ \/ x)] \in [Issue -> BOOLEAN]
    BY DEF TypeInv, TypeOK
  <2>2. cancelling' = cancelling \/ \E x : cancelling' = [cancelling EXCEPT ![i] = (@ \/ x)]
    BY DEF Cancel
  <2> QED BY <2>1, <2>2 DEF TypeInv, TypeOK
<1> QED BY <1>1, <1>2, <1>3, TypeMoved DEF TypeInv, TypeOK

\* What the end of a waiting cancel leaves of all issues.
LEMMA SettlesMoves ==
  ASSUME TypeInv, NEW i \in Issue
  PROVE  LET T == [Synced(task, {i}) EXCEPT ![i] = Cancelled(@)] IN
         T \in [Issue -> Task] /\ \A j \in Issue : Moved(task[j], T[j])
<1> DEFINE seen == Synced(task, {i})
           T == [seen EXCEPT ![i] = Cancelled(seen[i])]
<1>1. seen \in [Issue -> Task] /\ \A j \in Issue : Moved(task[j], seen[j])
  BY SyncedMoved DEF TypeInv, TypeOK
<1> HIDE DEF seen
<1>2. Moved(seen[i], Cancelled(seen[i])) /\ Cancelled(seen[i]) \in Task
  BY <1>1, MovedCancelled DEF Moved, Keeps
<1>3. T \in [Issue -> Task] /\ T[i] = Cancelled(seen[i])
      /\ \A j \in Issue : j # i => T[j] = seen[j]
  BY <1>1, <1>2
<1>4. Moved(task[i], T[i])
  BY <1>1, <1>2, <1>3, TaskTyped, MovedOn
<1> HIDE DEF T
<1>5. T \in [Issue -> Task] /\ \A j \in Issue : Moved(task[j], T[j])
  BY <1>1, <1>3, <1>4
<1> QED BY <1>5 DEF T, seen

LEMMA CancelEndsTypes ==
  ASSUME TypeInv, NEW i \in Issue, CancelSettles(i) \/ CancelTimeout(i) PROVE TypeInv'
<1>1. cancelling' \in [Issue -> BOOLEAN]
  BY DEF CancelSettles, CancelTimeout, TypeInv, TypeOK
<1>2. CASE CancelSettles(i)
  BY <1>1, <1>2, SettlesMoves, TypeMoved DEF CancelSettles, TypeInv, TypeOK
<1>3. CASE CancelTimeout(i)
  BY <1>1, <1>3, SyncedMoved, TypeMoved DEF CancelTimeout, TypeInv, TypeOK
<1> QED BY <1>2, <1>3

\* A step that changes one issue.
LEMMA OneTyped ==
  ASSUME TypeInv, NEW i \in Issue, NEW t \in Task, t.status # "absent",
         task' = With(i, t),
         exec' \in [Issue -> ExecStatus],
         \A j \in Issue : (j # i => exec'[j] = "none" \/ exec[j] # "none"),
         exec'[i] # "none" => \E n \in DOMAIN t.rows : t.rows[n].status = "CLAIMED",
         cancelling' \in [Issue -> BOOLEAN],
         edits' \in 0..MaxEdits, crashes' \in 0..MaxCrashes,
         byHand' \in [Issue -> BOOLEAN], withdrawn' \in [Issue -> BOOLEAN],
         torn' \in [Issue -> BOOLEAN], followed' \subseteq Issue
  PROVE  TypeInv'
<1>1. task' \in [Issue -> Task] /\ task'[i] = t /\ \A j \in Issue : j # i => task'[j] = task[j]
  BY DEF With, TypeInv, TypeOK
<1>2. \A j \in Issue : j # i => Keeps(task[j], task'[j]) /\ (Tidy(task[j]) => Tidy(task'[j]))
  BY <1>1, TaskTyped, KeepsSelf
<1>3. Tidy(task'[i])
  BY <1>1 DEF Tidy
<1> QED BY <1>1, <1>2, <1>3, TypeKept

LEMMA ClaimTypes == ASSUME TypeInv, NEW i \in Issue, Claim(i) PROVE TypeInv'
<1>1. PICK n \in OpenInputs(task[i]) :
        /\ task' = With(i, SetRow(task[i], n, "CLAIMED"))
        /\ SetExec(i, "gate")
        /\ UNCHANGED <<cancelling, histVars>>
  BY DEF Claim
<1> DEFINE t == SetRow(task[i], n, "CLAIMED")
<1>2. task[i] \in Task /\ task[i].status # "absent" /\ n \in DOMAIN task[i].rows
  BY TaskTyped, NoTaskTyped DEF Tidy, OpenInputs
<1>3. OneLike(task[i], t) /\ n \in DOMAIN t.rows /\ t.rows[n].status = "CLAIMED"
  BY <1>2, SetRowFacts DEF RowStatus
<1>4. t \in Task /\ t.status # "absent"
  BY <1>2, <1>3 DEF OneLike, SameFace
<1>5. task' = With(i, t) /\ exec' = [exec EXCEPT ![i] = "gate"]
      /\ UNCHANGED <<cancelling, edits, crashes, followed, byHand, withdrawn, torn>>
  BY <1>1 DEF SetExec, histVars
<1> HIDE DEF t
<1>6. exec' \in [Issue -> ExecStatus] /\ \A j \in Issue : j # i => exec'[j] = exec[j]
  BY <1>5 DEF TypeInv, TypeOK, ExecStatus
<1> QED BY <1>3, <1>4, <1>5, <1>6, OneTyped DEF TypeInv, TypeOK

LEMMA GatePassTypes == ASSUME TypeInv, NEW i \in Issue, GatePass(i) PROVE TypeInv'
<1> DEFINE n == Claimed(i)
           t == SetRuntime(task[i], "BUSY", n)
<1>1. n \in DOMAIN task[i].rows /\ n \in Nat /\ task[i].rows[n].status = "CLAIMED"
      /\ task[i].status # "absent" /\ task[i] \in Task
  BY ClaimedFacts DEF GatePass
<1> HIDE DEF n
<1>2. t \in Task /\ t.status # "absent" /\ t.rows = task[i].rows
  BY <1>1, SetRuntimeFacts DEF Keeps, SameFace, RuntimeStatus
<1>3. task' = With(i, t) /\ exec' = [exec EXCEPT ![i] = "runner"]
      /\ UNCHANGED <<cancelling, edits, crashes, followed, byHand, withdrawn, torn>>
  BY DEF GatePass, SetExec, histVars, n
<1> HIDE DEF t
<1>4. exec' \in [Issue -> ExecStatus] /\ \A j \in Issue : j # i => exec'[j] = exec[j]
  BY <1>3 DEF TypeInv, TypeOK, ExecStatus
<1> QED BY <1>1, <1>2, <1>3, <1>4, OneTyped DEF TypeInv, TypeOK

\* Setting a row and then the runtime state.
LEMMA SetBothFacts ==
  ASSUME NEW t \in Task, NEW n, NEW st \in RowStatus, NEW rt \in RuntimeStatus
  PROVE  /\ OneLike(t, SetRuntime(SetRow(t, n, st), rt, NoInput))
         /\ OneLike(t, ResetRuntime(SetRow(t, n, st), n, rt))
<1>1. OneLike(t, SetRow(t, n, st)) /\ SetRow(t, n, st) \in Task
  BY SetRowFacts DEF OneLike
<1> DEFINE u == SetRow(t, n, st)
<1> HIDE DEF u
<1>2. OneLike(u, SetRuntime(u, rt, NoInput))
  BY <1>1, SetRuntimeLike DEF NoInput, u
<1>3. OneLike(t, u)
  BY <1>1 DEF u
<1>4. OneLike(t, SetRuntime(u, rt, NoInput)) /\ OneLike(t, ResetRuntime(u, n, rt))
  BY <1>2, <1>3 DEF OneLike, SameFace, ResetRuntime
<1> QED BY <1>4 DEF u

LEMMA SetupThrowTypes == ASSUME TypeInv, NEW i \in Issue, SetupThrow(i) PROVE TypeInv'
<1> DEFINE t == SetRuntime(SetRow(task[i], Claimed(i), "FAILED"), "ERROR", NoInput)
<1>1. task[i] \in Task /\ task[i].status # "absent"
  BY ClaimedFacts DEF SetupThrow
<1>2. OneLike(task[i], t)
  BY <1>1, SetBothFacts DEF RowStatus, RuntimeStatus
<1>3. t \in Task /\ t.status # "absent"
  BY <1>1, <1>2 DEF OneLike, SameFace
<1>4. task' = With(i, t) /\ exec' = [exec EXCEPT ![i] = "none"]
      /\ withdrawn' = [withdrawn EXCEPT ![i] = TRUE]
      /\ UNCHANGED <<cancelling, edits, crashes, followed, byHand, torn>>
  BY DEF SetupThrow, SetExec, Withdraw
<1> HIDE DEF t
<1>5. exec' \in [Issue -> ExecStatus] /\ exec'[i] = "none"
      /\ \A j \in Issue : j # i => exec'[j] = exec[j]
  BY <1>4 DEF TypeInv, TypeOK, ExecStatus
<1> QED BY <1>3, <1>4, <1>5, OneTyped DEF TypeInv, TypeOK

LEMMA RecoverClaimTypes == ASSUME TypeInv, NEW i \in Issue, RecoverClaim(i) PROVE TypeInv'
<1> DEFINE n == Claimed(i)
<1>1. task[i] \in Task /\ task[i].status # "absent"
  BY ClaimedFacts DEF RecoverClaim
<1> HIDE DEF n
<1>2. PICK t : /\ t \in {ResetRuntime(SetRow(task[i], n, "QUEUED"), n, "IDLE"),
                         ResetRuntime(SetRow(task[i], n, "FAILED"), n, "ERROR")}
               /\ task' = With(i, t)
               /\ withdrawn' = withdrawn \/ Withdraw(i)
  BY DEF RecoverClaim, n
<1>3. OneLike(task[i], t)
  BY <1>1, <1>2, SetBothFacts DEF RowStatus, RuntimeStatus
<1>4. t \in Task /\ t.status # "absent"
  BY <1>1, <1>3 DEF OneLike, SameFace
<1>5. exec' = [exec EXCEPT ![i] = "none"]
      /\ UNCHANGED <<cancelling, edits, crashes, followed, byHand, torn>>
  BY DEF RecoverClaim, SetExec
<1>6. exec' \in [Issue -> ExecStatus] /\ exec'[i] = "none"
      /\ \A j \in Issue : j # i => exec'[j] = exec[j]
  BY <1>5 DEF TypeInv, TypeOK, ExecStatus
<1>7. withdrawn' \in [Issue -> BOOLEAN]
  BY <1>2 DEF Withdraw, TypeInv, TypeOK
<1> QED BY <1>2, <1>4, <1>5, <1>6, <1>7, OneTyped DEF TypeInv, TypeOK

\* The issue whose turn has ended.
LEMMA EndedTask ==
  ASSUME TypeInv, NEW i \in Issue, exec[i] # "none", NEW v \in Verdict, NEW k \in 1..5
  PROVE  /\ Ended(task[i], Claimed(i), v, k) \in Task
         /\ Ended(task[i], Claimed(i), v, k).status # "absent"
         /\ Ended(task[i], Claimed(i), v, k).blockedBy = task[i].blockedBy
         /\ Len(Ended(task[i], Claimed(i), v, k).rows) = Len(task[i].rows)
<1> DEFINE n == Claimed(i)
           t == task[i]
<1>1. t \in Task /\ t.status # "absent" /\ n \in Nat /\ v \in Turn
  BY ClaimedFacts, IssueWorkflowAssumption DEF IssueWorkflowAssumption
<1> HIDE DEF t, n
<1>2. CASE k \in 1..4
  BY <1>1, <1>2, EndedFacts DEF t, n
<1>3. CASE k = 5
  <2> DEFINE u == Ended(t, n, v, 4)
  <2>1. u \in Task /\ u.blockedBy = t.blockedBy /\ Len(u.rows) = Len(t.rows) /\ u.status # "absent"
    <3>1. 4 \in 1..4
      OBVIOUS
    <3> QED BY <1>1, <3>1, EndedFacts
  <2>2. Ended(t, n, v, 5) = Refreshed(u)
    BY EndedFive
  <2> HIDE DEF u
  <2>3. Keeps(u, Refreshed(u)) /\ Refreshed(u).rows = u.rows /\ Refreshed(u).status # "absent"
    BY <2>1, RefreshedFacts
  <2> QED BY <1>3, <2>1, <2>2, <2>3 DEF Keeps, t, n
<1> QED BY <1>2, <1>3

LEMMA RunnerExitTypes ==
  ASSUME TypeInv, NEW i \in Issue, NEW v \in Verdict, RunnerExit(i, v) PROVE TypeInv'
<1> DEFINE u == Ended(task[i], Claimed(i), v, 4)
           T == With(i, u)
           U == Synced(T, {i})
<1>1. u \in Task /\ u.status # "absent"
  BY EndedTask DEF RunnerExit
<1>2. SetTasks(U, {}) /\ exec' = [exec EXCEPT ![i] = "none"]
      /\ UNCHANGED <<cancelling, edits, crashes, followed, torn>>
  BY DEF RunnerExit, SetExec
<1> HIDE DEF u
<1>3. T \in [Issue -> Task] /\ T[i] = u /\ \A j \in Issue : j # i => T[j] = task[j]
  BY <1>1 DEF With, TypeInv, TypeOK
<1> HIDE DEF T
<1>4. U \in [Issue -> Task] /\ \A j \in Issue : Moved(T[j], U[j])
  BY <1>3, SyncedMoved
<1> HIDE DEF U
<1>5. task' = U /\ byHand' \in [Issue -> BOOLEAN] /\ withdrawn' \in [Issue -> BOOLEAN]
  BY <1>2, SetTasksTypes
<1>6. exec' \in [Issue -> ExecStatus] /\ exec'[i] = "none"
      /\ \A j \in Issue : j # i => exec'[j] = exec[j]
  BY <1>2 DEF TypeInv, TypeOK, ExecStatus
<1>7. \A j \in Issue : j # i => Keeps(task[j], task'[j]) /\ (Tidy(task[j]) => Tidy(task'[j]))
  BY <1>3, <1>4, <1>5 DEF Moved
<1>8. Tidy(task'[i])
  BY <1>1, <1>3, <1>4, <1>5 DEF Moved, Tidy
<1> QED BY <1>2, <1>4, <1>5, <1>6, <1>7, <1>8, TypeKept DEF TypeInv, TypeOK

LEMMA RunnerExitCutTypes ==
  ASSUME TypeInv, NEW i \in Issue, NEW v \in Verdict, NEW k \in 1..5, RunnerExitCut(i, v, k)
  PROVE  TypeInv'
<1> DEFINE u == Ended(task[i], Claimed(i), v, k)
<1>1. u \in Task /\ u.status # "absent"
  BY EndedTask DEF RunnerExitCut
<1>2. task' = With(i, u) /\ Die({i}) /\ torn' = [torn EXCEPT ![i] = TRUE]
      /\ UNCHANGED <<edits, followed, byHand, withdrawn>>
  BY DEF RunnerExitCut, Tear
<1> HIDE DEF u
<1>3. torn' \in [Issue -> BOOLEAN]
  BY <1>2 DEF TypeInv, TypeOK
<1> QED BY <1>1, <1>2, <1>3, DieTypes, OneTyped DEF TypeInv, TypeOK

\* What a dispatch that was cut leaves of the issue.
LEMMA CutFacts ==
  ASSUME NEW t \in Task, NEW k \in 0..4
  PROVE  LET u == Begun(t, k) IN
         /\ Keeps(t, u) /\ u.status = t.status /\ u.run = "queued"
         /\ Len(u.rows) = IF k <= 1 THEN Len(t.rows) ELSE Len(t.rows) + 1
<1> DEFINE o == Opened(t)
           w == SetRuntime(o, "QUEUED", NoInput)
<1>1. /\ Keeps(t, o) /\ o \in Task /\ o.rows = t.rows /\ o.run = "queued" /\ o.status = t.status
  BY OpenedFacts DEF Keeps
<1>2. k = 0 => Begun(t, k) = o
  BY DEF Begun
<1>3. k # 0 => Begun(t, k) = Given(w, k - 1)
  BY DEF Begun
<1> HIDE DEF o
<1>4. /\ Keeps(o, w) /\ w \in Task /\ w.rows = o.rows /\ w.run = "queued" /\ w.status = o.status
  <2>1. "QUEUED" \in RuntimeStatus /\ NoInput \in Nat
    BY DEF RuntimeStatus, NoInput
  <2>2. Keeps(o, w) /\ SameFace(o, w) /\ w.rows = o.rows
    BY <1>1, <2>1, SetRuntimeFacts
  <2> QED BY <1>1, <2>2 DEF SameFace, Keeps
<1> HIDE DEF w
<1>5. CASE k = 0
  BY <1>1, <1>2, <1>5
<1>6. CASE k # 0
  <2>1. k - 1 \in 0..3
    BY <1>6
  <2>2. /\ Keeps(w, Given(w, k - 1)) /\ Given(w, k - 1).run = "queued"
        /\ Given(w, k - 1).status = w.status
        /\ Len(Given(w, k - 1).rows) = IF k - 1 = 0 THEN Len(w.rows) ELSE Len(w.rows) + 1
    BY <1>4, <2>1, GivenFacts
  <2>3. Keeps(t, w)
    BY <1>1, <1>4, KeepsOn
  <2>4. Keeps(t, Given(w, k - 1))
    BY <2>2, <2>3, KeepsOn
  <2> QED BY <1>1, <1>3, <1>4, <1>6, <2>2, <2>4
<1> QED BY <1>5, <1>6

LEMMA DispatchCutTypes ==
  ASSUME TypeInv, NEW i \in Issue, NEW k \in 0..4, DispatchCut(i, k) PROVE TypeInv'
<1> DEFINE u == Begun(task[i], k)
<1>1. task[i] \in Task /\ task[i].status # "absent"
  BY TaskTyped DEF DispatchCut, Exists
<1>2. Keeps(task[i], u) /\ u.status # "absent"
  BY <1>1, CutFacts
<1>3. SetTasks([task EXCEPT ![i] = u], {}) /\ Die({}) /\ torn' = [torn EXCEPT ![i] = TRUE]
      /\ UNCHANGED <<edits, followed>>
  BY DEF DispatchCut, Tear
<1> HIDE DEF u
<1>4. task' = With(i, u) /\ byHand' \in [Issue -> BOOLEAN] /\ withdrawn' \in [Issue -> BOOLEAN]
  BY <1>3, SetTasksTypes DEF With
<1>5. torn' \in [Issue -> BOOLEAN] /\ u \in Task
  BY <1>2, <1>3 DEF TypeInv, TypeOK, Keeps
<1>6. exec'[i] # "none" => \E n \in DOMAIN u.rows : u.rows[n].status = "CLAIMED"
  BY <1>2, <1>3, DieTypes DEF TypeInv, Keeps
<1> QED BY <1>2, <1>3, <1>4, <1>5, <1>6, DieTypes, OneTyped DEF TypeInv, TypeOK

\* What a follow-up leaves of the tasks: those of a read, and the input given.
LEMMA FollowedIs ==
  ASSUME TypeInv, NEW i \in Issue, NEW u, NEW seen, NEW T,
         seen = Synced(task, {i}), T = [seen EXCEPT ![i] = u],
         Keeps(seen[i], u), seen[i].run # "none"
  PROVE  /\ seen \in [Issue -> Task] /\ \A j \in Issue : Moved(task[j], seen[j])
         /\ T \in [Issue -> Task] /\ T[i] = u /\ \A j \in Issue : j # i => T[j] = seen[j]
         /\ Keeps(task[i], u) /\ seen[i].status # "absent"
<1>1. task \in [Issue -> Task] /\ Tidy(task[i])
  BY DEF TypeInv, TypeOK
<1>2. seen \in [Issue -> Task] /\ \A j \in Issue : Moved(task[j], seen[j])
  BY <1>1, SyncedMoved
<1>3. Keeps(task[i], u)
  BY <1>1, <1>2, KeepsOn DEF Moved
<1>4. Tidy(seen[i]) /\ u \in Task
  BY <1>1, <1>2 DEF Moved, Keeps
<1>5. seen[i].status # "absent"
  BY <1>4 DEF Tidy, NoTask
<1>6. T \in [Issue -> Task] /\ T[i] = u /\ \A j \in Issue : j # i => T[j] = seen[j]
  BY <1>2, <1>4
<1> QED BY <1>2, <1>3, <1>5, <1>6

LEMMA FollowUpTypes == ASSUME TypeInv, NEW i \in Issue, FollowUp(i) PROVE TypeInv'
<1> DEFINE seen == Synced(task, {i})
           u == Dispatched(seen[i])
           T == [seen EXCEPT ![i] = u]
<1>1. SetTasks(T, {}) /\ seen[i].run # "none" /\ followed' = followed \cup {i}
      /\ UNCHANGED <<exec, cancelling, edits, crashes, torn>>
  BY DEF FollowUp
<1>2. Moved(seen[i], u)
  BY SyncedMoved, MovedDispatched DEF TypeInv, TypeOK
<1> HIDE DEF u, T, seen
<1>3. /\ \A j \in Issue : Moved(task[j], seen[j])
      /\ T \in [Issue -> Task] /\ T[i] = u /\ \A j \in Issue : j # i => T[j] = seen[j]
  <2>1. seen = Synced(task, {i}) /\ T = [seen EXCEPT ![i] = u] /\ Keeps(seen[i], u)
    BY <1>2 DEF seen, T, Moved
  <2> QED BY <1>1, <2>1, FollowedIs
<1>4. followed' \subseteq Issue
  BY <1>1 DEF TypeInv, TypeOK
<1>5. \A j \in Issue : Moved(task[j], T[j])
  BY <1>2, <1>3, TaskTyped, MovedOn
<1> QED BY <1>1, <1>3, <1>4, <1>5, TypeMoved DEF TypeInv, TypeOK

LEMMA FollowUpCutTypes ==
  ASSUME TypeInv, NEW i \in Issue, NEW k \in 1..3, FollowUpCut(i, k) PROVE TypeInv'
<1> DEFINE seen == Synced(task, {i})
           u == Given(seen[i], k)
           T == [seen EXCEPT ![i] = u]
<1>1. SetTasks(T, {}) /\ seen[i].run # "none" /\ followed' = followed \cup {i} /\ Die({})
      /\ torn' = [torn EXCEPT ![i] = TRUE] /\ edits' = edits
  BY DEF FollowUpCut, Tear
<1>2. seen[i] \in Task
  BY SyncedMoved DEF TypeInv, TypeOK
<1>3. Keeps(seen[i], u) /\ u.status = seen[i].status
  BY <1>2, GivenFacts
<1> HIDE DEF u, T, seen
<1>4. /\ \A j \in Issue : Moved(task[j], seen[j])
      /\ T \in [Issue -> Task] /\ T[i] = u /\ \A j \in Issue : j # i => T[j] = seen[j]
      /\ Keeps(task[i], u) /\ seen[i].status # "absent"
  <2>1. seen = Synced(task, {i})
    BY DEF seen
  <2>2. T = [seen EXCEPT ![i] = u]
    BY DEF T
  <2>3. seen[i].run # "none" /\ Keeps(seen[i], u)
    BY <1>1, <1>3
  <2> QED BY ONLY TypeInv, i \in Issue, <2>1, <2>2, <2>3, FollowedIs
<1>5. followed' \subseteq Issue /\ torn' \in [Issue -> BOOLEAN]
  BY <1>1 DEF TypeInv, TypeOK
<1>6. task' = T /\ byHand' \in [Issue -> BOOLEAN] /\ withdrawn' \in [Issue -> BOOLEAN]
  BY <1>1, SetTasksTypes
<1>7. exec'[i] # "none" => \E n \in DOMAIN task'[i].rows : task'[i].rows[n].status = "CLAIMED"
  BY <1>1, <1>4, <1>6, DieTypes DEF TypeInv, Keeps
<1>8. \A j \in Issue : j # i => Keeps(task[j], task'[j]) /\ (Tidy(task[j]) => Tidy(task'[j]))
  BY <1>4, <1>6 DEF Moved
<1>9. Tidy(task'[i])
  BY <1>3, <1>4, <1>6 DEF Tidy
<1> QED
  BY <1>1, <1>4, <1>5, <1>6, <1>7, <1>8, <1>9, DieTypes, TypeKept DEF TypeInv, TypeOK

LEMMA CrashTypes == ASSUME TypeInv, Crash PROVE TypeInv'
<1>1. Die({}) /\ UNCHANGED <<task, edits, followed, byHand, withdrawn, torn>>
  BY DEF Crash
<1>2. TypeOK'
  BY <1>1, DieTypes DEF TypeInv, TypeOK
<1>3. \A j \in Issue : ExecHasClaim(j)'
  BY <1>1, DieTypes DEF TypeInv, ExecHasClaim
<1> QED BY <1>1, <1>2, <1>3 DEF TypeInv, ExecHasClaim, Tidy

LEMMA TypedInit == Init => TypeInv
<1> SUFFICES ASSUME Init PROVE TypeInv
  OBVIOUS
<1>1. task \in [Issue -> Task]
  BY NoTaskTyped DEF Init
<1>2. TypeOK
  BY <1>1, IssueWorkflowAssumption DEF Init, TypeOK, ExecStatus, IssueWorkflowAssumption
<1> QED BY <1>2 DEF TypeInv, Init, Tidy

LEMMA TypedNext == TypeInv /\ [Next]_vars => TypeInv'
<1> SUFFICES ASSUME TypeInv, [Next]_vars PROVE TypeInv'
  OBVIOUS
<1>1. ASSUME NEW i \in Issue, UserStep(i) PROVE TypeInv'
  BY <1>1, CreateTypes, DelegateTypes, PatchTypes, RedispatchTypes, FollowUpTypes, ReadTypes,
     PauseQueuedTypes, DeleteQueuedTypes, CancelTypes DEF UserStep
<1>2. ASSUME NEW i \in Issue, CancelSettles(i) \/ CancelTimeout(i) PROVE TypeInv'
  BY <1>2, CancelEndsTypes
<1>3. ASSUME NEW i \in Issue, ExecutorStep(i) PROVE TypeInv'
  BY <1>3, ClaimTypes, GatePassTypes, SetupThrowTypes, RunnerExitTypes, RecoverClaimTypes
     DEF ExecutorStep
<1>4. ASSUME NEW i \in Issue, Outage(i) PROVE TypeInv'
  BY <1>4, DispatchCutTypes, FollowUpCutTypes, RunnerExitCutTypes DEF Outage
<1>5. CASE Crash
  BY <1>5, CrashTypes
<1>6. CASE UNCHANGED vars
  BY <1>6 DEF vars, histVars, TypeInv, TypeOK, Tidy
<1> QED BY <1>1, <1>2, <1>3, <1>4, <1>5, <1>6 DEF Next

LEMMA TypedAlways == Spec => []TypeInv
BY TypedInit, TypedNext, PTL DEF Spec

\* The tables and the history have their types.
THEOREM TypeCorrect == Spec => []TypeOK
<1>1. TypeInv => TypeOK
  BY DEF TypeInv
<1> QED BY <1>1, TypedAlways, PTL

--------------------------------------------------------------------------------
(* The graph of the blockers *)

\* Issues that exist block, and every issue stays.
Known == \A i \in Issue : \A b \in task[i].blockedBy : Exists(b)

GraphInv == Known /\ NoIssueWaitsForItself

\* What a step does to the graph: nothing, or one issue gets blockers that the
\* check of the graph has accepted.
GraphStep ==
  /\ \A j \in Issue : task[j].status # "absent" => task'[j].status # "absent"
  /\ \/ \A j \in Issue : task'[j].blockedBy = task[j].blockedBy
     \/ \E i \in Issue, B \in SUBSET Issue :
          /\ MayBlock(i, B)
          /\ \A j \in Issue : task'[j].blockedBy = IF j = i THEN B ELSE task[j].blockedBy

LEMMA NotUpstream ==
  ASSUME NEW i \in Issue, NEW B
  PROVE  i \notin Upstream(B)
           <=> \E S \in SUBSET Issue : /\ B \subseteq S /\ i \notin S
                                       /\ \A k \in S : task[k].blockedBy \subseteq S
BY DEF Upstream

LEMMA NotUpstreamNext ==
  ASSUME NEW i \in Issue,
         NEW S \in SUBSET Issue, task'[i].blockedBy \subseteq S, i \notin S,
         \A k \in S : task'[k].blockedBy \subseteq S
  PROVE  i \notin Upstream(task[i].blockedBy)'
BY DEF Upstream

LEMMA GraphKept ==
  ASSUME TypeInv, GraphInv, GraphStep, task' \in [Issue -> Task] PROVE GraphInv'
<1>1. \A j \in Issue : task[j].blockedBy \subseteq Issue
  BY TaskTyped DEF Task
<1>2. CASE \A j \in Issue : task'[j].blockedBy = task[j].blockedBy
  <2>1. Known'
    BY <1>1, <1>2 DEF Known, Exists, GraphStep, GraphInv
  <2>2. ASSUME NEW i \in Issue PROVE i \notin Upstream(task[i].blockedBy)'
    <3>1. PICK S \in SUBSET Issue : /\ task[i].blockedBy \subseteq S /\ i \notin S
                                    /\ \A k \in S : task[k].blockedBy \subseteq S
      BY NotUpstream DEF GraphInv, NoIssueWaitsForItself
    <3> QED BY <1>2, <3>1, NotUpstreamNext
  <2> QED BY <2>1, <2>2 DEF GraphInv, NoIssueWaitsForItself
<1>3. CASE \E i \in Issue, B \in SUBSET Issue :
             /\ MayBlock(i, B)
             /\ \A j \in Issue : task'[j].blockedBy = IF j = i THEN B ELSE task[j].blockedBy
  <2>1. PICK i \in Issue, B \in SUBSET Issue :
          /\ MayBlock(i, B)
          /\ \A j \in Issue : task'[j].blockedBy = IF j = i THEN B ELSE task[j].blockedBy
    BY <1>3
  <2>2. Known'
    BY <1>1, <2>1 DEF Known, Exists, GraphStep, GraphInv, MayBlock
  <2>3. PICK U \in SUBSET Issue : /\ B \subseteq U /\ i \notin U
                                  /\ \A k \in U : task[k].blockedBy \subseteq U
    BY <2>1, NotUpstream DEF MayBlock
  <2>4. \A k \in U : task'[k].blockedBy \subseteq U
    BY <2>1, <2>3
  <2>5. ASSUME NEW j \in Issue PROVE j \notin Upstream(task[j].blockedBy)'
    <3>1. CASE j = i
      BY <2>1, <2>3, <2>4, <3>1, NotUpstreamNext
    <3>2. CASE j # i
      <4>1. PICK V \in SUBSET Issue : /\ task[j].blockedBy \subseteq V /\ j \notin V
                                      /\ \A k \in V : task[k].blockedBy \subseteq V
        BY NotUpstream DEF GraphInv, NoIssueWaitsForItself
      <4>2. CASE j \in U
        <5>1. U \cap V \in SUBSET Issue /\ j \notin U \cap V /\ task'[j].blockedBy \subseteq U \cap V
          BY <2>1, <2>3, <3>2, <4>1, <4>2
        <5>2. \A k \in U \cap V : task'[k].blockedBy \subseteq U \cap V
          BY <2>1, <2>3, <4>1
        <5> QED BY <5>1, <5>2, NotUpstreamNext
      <4>3. CASE j \notin U
        <5>1. U \cup V \in SUBSET Issue /\ j \notin U \cup V /\ task'[j].blockedBy \subseteq U \cup V
          BY <2>1, <3>2, <4>1, <4>3
        <5>2. \A k \in U \cup V : task'[k].blockedBy \subseteq U \cup V
          BY <2>1, <2>3, <4>1
        <5> QED BY <5>1, <5>2, NotUpstreamNext
      <4> QED BY <4>2, <4>3
    <3> QED BY <3>1, <3>2
  <2> QED BY <2>2, <2>5 DEF GraphInv, NoIssueWaitsForItself
<1> QED BY <1>2, <1>3 DEF GraphStep

LEMMA BlockersAreOthers ==
  ASSUME NEW i \in Issue, NEW B \in SUBSET Issue, MayBlock(i, B) PROVE i \notin B
BY DEF MayBlock, Upstream

--------------------------------------------------------------------------------
(* What the issues show, and that ready work is dispatched *)

\* An issue without a run has no links to one.
Lone(t) == t.run = "none" => ~t.active /\ ~t.linked

\* Work that nobody has dispatched although nothing blocks it.
Idle(T, i) == T[i].status = "todo" /\ T[i].run = "none" /\ BlockersDone(T, i)

Excused(i) ==
  \/ byHand[i] \/ torn[i]
  \/ \E b \in task[i].blockedBy : byHand[b] \/ torn[b]

FaceInv ==
  /\ \A i \in Issue : Lone(task[i])
  /\ \A i \in Issue : ~byHand[i] /\ ~torn[i] => Showing(task[i])
  /\ \A i \in Issue : Idle(task, i) => Excused(i)

LEMMA FaceIsShown ==
  FaceInv => IssuesShowTheirRuns /\ ReadyWorkIsDispatched
BY DEF FaceInv, IssuesShowTheirRuns, ReadyWorkIsDispatched, Showing, Idle, Excused

LEMMA MovedLone == ASSUME NEW t, NEW u, Moved(t, u), Lone(t) PROVE Lone(u)
BY DEF Moved, Lone

\* An issue that is idle after a read was idle before it, and what blocks it was
\* done before and is not dispatched.
LEMMA SyncedIdle ==
  ASSUME NEW T \in [Issue -> Task], NEW S, NEW i \in Issue, Lone(T[i]),
         Idle(Synced(T, S), i)
  PROVE  /\ Synced(T, S)[i] = T[i] /\ Idle(T, i)
         /\ \A b \in T[i].blockedBy : Len(Synced(T, S)[b].rows) = Len(T[b].rows)
<1> DEFINE seen == [j \in Issue |-> IF j \in S THEN Refreshed(T[j]) ELSE T[j]]
           done == {j \in S : seen[j].run = "completed" /\ T[j].status # "done"}
           next == ReadyDownstream(seen, done)
           quoted == {b \in UNION {T[k].blockedBy : k \in next} : seen[b].linked}
           U == Synced(T, S)
<1>1. U = [j \in Issue |-> IF j \in next THEN Dispatched(seen[j])
             ELSE IF j \in quoted THEN Refreshed(seen[j]) ELSE seen[j]]
  BY DEF Synced
<1>2. \A j \in Issue : /\ seen[j] \in Task /\ seen[j].blockedBy = T[j].blockedBy
                       /\ seen[j].rows = T[j].rows
                       /\ T[j].run = "none" => seen[j] = T[j]
                       /\ T[j].status # "done" /\ seen[j].status = "done"
                            => j \in S /\ seen[j].run = "completed"
  BY RefreshedFacts DEF Keeps
<1>3. U \in [Issue -> Task] /\ Moved(T[i], U[i])
  BY SyncedMoved
<1>4. U[i] = T[i] /\ T[i].run = "none" /\ seen[i] = T[i]
  BY <1>2, <1>3 DEF Moved, Idle
<1>5. \A k \in next : k \in Issue /\ BlockersDone(seen, k)
  BY DEF ReadyDownstream, Dispatchable
<1>6. \A k \in Issue : k \notin next =>
        ~(seen[k].status = "todo" /\ seen[k].blockedBy \cap done # {} /\ Dispatchable(seen, k))
  BY DEF ReadyDownstream
<1>7. \A j \in Issue : j \in S /\ seen[j].run = "completed" /\ T[j].status # "done" => j \in done
  OBVIOUS
<1>8. T[i].blockedBy \subseteq Issue
  BY DEF Task
<1>9. \A k \in next : T[k].blockedBy = seen[k].blockedBy
  BY <1>2, <1>5
<1>10. \A b \in quoted : seen[b].status = "done"
  <2> TAKE b \in quoted
  <2>1. PICK k \in next : b \in T[k].blockedBy
    OBVIOUS
  <2> QED BY <1>5, <1>9, <2>1 DEF BlockersDone
<1> HIDE DEF seen, done, next, quoted, U
<1>11. ASSUME NEW b \in T[i].blockedBy
       PROVE  seen[b].status = "done" /\ Len(U[b].rows) = Len(T[b].rows)
  <2>1. b \in Issue /\ U[b].status = "done" /\ seen[b] \in Task
    BY <1>2, <1>4, <1>8 DEF Idle, BlockersDone, U
  <2>2. b \notin next
    BY <1>1, <2>1, DispatchedFacts
  <2>3. seen[b].status = "done"
    BY <1>1, <1>10, <2>1, <2>2
  <2>4. Len(U[b].rows) = Len(T[b].rows)
    BY <1>1, <1>2, <2>1, <2>2, RefreshedFacts
  <2> QED BY <2>3, <2>4
<1>12. i \notin next
  BY <1>1, <1>2, <1>4, DispatchedFacts
<1>13. Dispatchable(seen, i) /\ seen[i].status = "todo"
  BY <1>4, <1>11 DEF Dispatchable, BlockersDone, Lone, Idle, U
<1>14. \A b \in T[i].blockedBy : T[b].status = "done"
  BY <1>2, <1>4, <1>6, <1>7, <1>8, <1>11, <1>12, <1>13
<1> QED BY <1>4, <1>11, <1>14 DEF Idle, BlockersDone, U

\* A read makes the board true of the runs that were read.
LEMMA SyncedShowing ==
  ASSUME NEW T \in [Issue -> Task], NEW S, NEW i \in Issue, i \in S, T[i].run # "none"
  PROVE  Showing(Synced(T, S)[i])
<1> DEFINE seen == [j \in Issue |-> IF j \in S THEN Refreshed(T[j]) ELSE T[j]]
<1>1. seen[i] = Refreshed(T[i]) /\ T[i] \in Task
  OBVIOUS
<1>2. seen[i] \in Task /\ seen[i].run # "none" /\ Showing(seen[i])
  BY <1>1, RefreshedFacts DEF Keeps
<1>3. Synced(T, S)[i] \in {seen[i], Refreshed(seen[i]), Dispatched(seen[i])}
  BY DEF Synced
<1> HIDE DEF seen
<1> QED BY <1>2, <1>3, RefreshedFacts, DispatchedFacts

\* A step that leaves alone what the board shows.
LEMMA FaceSame ==
  ASSUME TypeInv, FaceInv,
         \A j \in Issue : SameFace(task[j], task'[j]) /\ task'[j].blockedBy = task[j].blockedBy,
         UNCHANGED <<byHand, torn>>
  PROVE  FaceInv' /\ GraphStep
<1>1. \A j \in Issue : task[j].blockedBy \subseteq Issue
  BY TaskTyped DEF Task
<1>2. \A j \in Issue : Idle(task', j) => Idle(task, j)
  BY <1>1 DEF Idle, BlockersDone, SameFace
<1>3. \A j \in Issue : Excused(j) => Excused(j)'
  BY DEF Excused
<1>4. \A j \in Issue : (Lone(task[j]) => Lone(task'[j])) /\ (Showing(task[j]) => Showing(task'[j]))
  BY DEF Lone, Showing, SameFace
<1>5. (\A j \in Issue : Idle(task, j) => Excused(j))'
  BY <1>2, <1>3 DEF FaceInv
<1>6. GraphStep
  BY DEF GraphStep, SameFace
<1> QED BY <1>4, <1>5, <1>6 DEF FaceInv

LEMMA OneFaceSame ==
  ASSUME TypeInv, FaceInv, NEW i \in Issue, NEW t \in Task, SameFace(task[i], t),
         t.blockedBy = task[i].blockedBy, task' = With(i, t), UNCHANGED <<byHand, torn>>
  PROVE  FaceInv' /\ GraphStep
<1>1. \A j \in Issue : SameFace(task[j], task'[j]) /\ task'[j].blockedBy = task[j].blockedBy
  BY DEF With, SameFace, TypeInv, TypeOK
<1> QED BY <1>1, FaceSame

\* An excuse lasts: a dispatch ends it, but what was dispatched is not done.
LEMMA ExcusedKept ==
  ASSUME TypeInv, NEW T, NEW hand, SetTasks(T, hand), NEW i \in Issue, Excused(i),
         task'[i].blockedBy = task[i].blockedBy, ~NewWork(i),
         \A b \in task[i].blockedBy : ~NewWork(b),
         \A j \in Issue : torn[j] => torn'[j]
  PROVE  Excused(i)'
<1>1. task[i].blockedBy \subseteq Issue
  BY TaskTyped DEF Task
<1> QED BY <1>1 DEF Excused, SetTasks

\* A step that moves issues, none of which is left idle.
LEMMA FaceMoved ==
  ASSUME TypeInv, FaceInv, NEW T \in [Issue -> Task], SetTasks(T, {}),
         \A j \in Issue : Moved(task[j], T[j]), UNCHANGED torn,
         \A j \in Issue : Idle(T, j) =>
           Idle(task, j) /\ \A b \in task[j].blockedBy : Len(T[b].rows) = Len(task[b].rows)
  PROVE  FaceInv' /\ GraphStep
<1>1. task' = T
  BY DEF SetTasks
<1>2. \A j \in Issue : /\ task[j].blockedBy \subseteq Issue /\ T[j].blockedBy = task[j].blockedBy
                       /\ Len(task[j].rows) \in Nat /\ Len(T[j].rows) \in Nat
  BY TaskTyped, RowsTyped DEF Task, Moved, Keeps
<1>3. ASSUME NEW j \in Issue, ~byHand'[j], ~torn'[j] PROVE Showing(task'[j])
  <2>1. CASE NewWork(j)
    BY <1>1, <1>2, <2>1 DEF NewWork, Moved
  <2>2. CASE ~NewWork(j)
    BY <1>1, <1>3, <2>2 DEF SetTasks, FaceInv, Moved
  <2> QED BY <2>1, <2>2
<1>4. ASSUME NEW j \in Issue, Idle(task', j) PROVE Excused(j)'
  <2>1. Idle(task, j) /\ \A b \in task[j].blockedBy : Len(T[b].rows) = Len(task[b].rows)
    BY <1>1, <1>4
  <2>2. ~NewWork(j)
    BY <1>1, <1>2, <1>4 DEF NewWork, Idle, Moved
  <2>3. \A b \in task[j].blockedBy : ~NewWork(b)
    BY <1>1, <1>2, <2>1 DEF NewWork
  <2> QED BY <1>1, <1>2, <2>1, <2>2, <2>3, ExcusedKept DEF FaceInv
<1>5. \A j \in Issue : Lone(task'[j])
  BY <1>1, MovedLone DEF FaceInv
<1>6. GraphStep
  BY <1>1, <1>2 DEF GraphStep, Moved
<1>7. (\A j \in Issue : ~byHand[j] /\ ~torn[j] => Showing(task[j]))'
  BY <1>3
<1>8. (\A j \in Issue : Idle(task, j) => Excused(j))'
  BY <1>4
<1> QED BY <1>5, <1>6, <1>7, <1>8 DEF FaceInv

--------------------------------------------------------------------------------
(* The steps that the board is told of *)

LEMMA ReadFace ==
  ASSUME TypeInv, FaceInv, NEW i \in Issue,
         SetTasks(Synced(task, {i}), {}), UNCHANGED torn
  PROVE  FaceInv' /\ GraphStep
<1> DEFINE T == Synced(task, {i})
<1>1. task \in [Issue -> Task] /\ \A j \in Issue : Lone(task[j])
  BY DEF TypeInv, TypeOK, FaceInv
<1>2. T \in [Issue -> Task] /\ \A j \in Issue : Moved(task[j], T[j])
  BY <1>1, SyncedMoved
<1>3. \A j \in Issue : Idle(T, j) =>
        Idle(task, j) /\ \A b \in task[j].blockedBy : Len(T[b].rows) = Len(task[b].rows)
  BY <1>1, SyncedIdle
<1>4. SetTasks(T, {})
  OBVIOUS
<1> HIDE DEF T
<1> QED BY <1>2, <1>3, <1>4, FaceMoved

LEMMA RedispatchFace ==
  ASSUME TypeInv, FaceInv, NEW i \in Issue, Redispatch(i) PROVE FaceInv' /\ GraphStep
<1> DEFINE t == Dispatched(task[i])
           T == [task EXCEPT ![i] = t]
<1>1. Moved(task[i], t) /\ t.status = "todo" /\ t.run = "queued"
  BY TaskTyped, MovedDispatched, DispatchedFacts
<1>2. SetTasks(T, {}) /\ UNCHANGED torn
  BY DEF Redispatch
<1> HIDE DEF t
<1>3. T \in [Issue -> Task] /\ \A j \in Issue : Moved(task[j], T[j])
  BY <1>1, OneMoved
<1>4. T[i] = t /\ \A j \in Issue : j # i => T[j] = task[j]
  BY <1>3 DEF TypeInv, TypeOK
<1>5. \A j \in Issue : task[j].blockedBy \subseteq Issue
  BY TaskTyped DEF Task
<1> HIDE DEF T
<1>6. \A j \in Issue : Idle(T, j) =>
        Idle(task, j) /\ \A b \in task[j].blockedBy : Len(T[b].rows) = Len(task[b].rows)
  <2> SUFFICES ASSUME NEW j \in Issue, Idle(T, j)
               PROVE  Idle(task, j) /\ \A b \in task[j].blockedBy : Len(T[b].rows) = Len(task[b].rows)
    OBVIOUS
  <2>1. j # i /\ T[j] = task[j]
    BY <1>1, <1>4 DEF Idle
  <2>2. \A b \in task[j].blockedBy : T[b] = task[b]
    BY <1>1, <1>4, <1>5, <2>1 DEF Idle, BlockersDone
  <2> QED BY <2>1, <2>2 DEF Idle, BlockersDone
<1> QED BY <1>2, <1>3, <1>6, FaceMoved

\* A read after which the issue is given a run that is not done.
LEMMA SyncedThen ==
  ASSUME NEW T \in [Issue -> Task], NEW i \in Issue, NEW S, NEW u \in Task,
         u.run # "none", u.status # "done", \A j \in Issue : Lone(T[j]),
         NEW j \in Issue, Idle([Synced(T, S) EXCEPT ![i] = u], j)
  PROVE  /\ j # i /\ Idle(T, j) /\ i \notin T[j].blockedBy
         /\ \A b \in T[j].blockedBy : Len(Synced(T, S)[b].rows) = Len(T[b].rows)
<1> DEFINE seen == Synced(T, S)
           V == [seen EXCEPT ![i] = u]
<1>1. seen \in [Issue -> Task] /\ \A k \in Issue : Moved(T[k], seen[k])
  BY SyncedMoved
<1>2. Idle(V, j)
  OBVIOUS
<1> HIDE DEF seen
<1>3. V[i] = u /\ (\A k \in Issue : k # i => V[k] = seen[k]) /\ V \in [Issue -> Task]
  BY <1>1
<1> HIDE DEF V
<1>4. j # i /\ V[j] = seen[j] /\ seen[j].blockedBy \subseteq Issue
  BY <1>1, <1>2, <1>3 DEF Idle, Task
<1>5. i \notin seen[j].blockedBy
  BY <1>2, <1>3, <1>4 DEF Idle, BlockersDone
<1>6. Idle(seen, j)
  BY <1>2, <1>3, <1>4, <1>5 DEF Idle, BlockersDone
<1>7. seen[j] = T[j] /\ Idle(T, j)
      /\ \A b \in T[j].blockedBy : Len(seen[b].rows) = Len(T[b].rows)
  BY <1>6, SyncedIdle DEF seen
<1> QED BY <1>4, <1>5, <1>7 DEF seen

\* Such a step of the board.
LEMMA ThenFace ==
  ASSUME TypeInv, FaceInv, NEW i \in Issue, NEW S, NEW u, Moved(Synced(task, S)[i], u),
         u.run # "none", u.status # "done",
         SetTasks([Synced(task, S) EXCEPT ![i] = u], {}), UNCHANGED torn
  PROVE  FaceInv' /\ GraphStep
<1> DEFINE seen == Synced(task, S)
           T == [seen EXCEPT ![i] = u]
<1>1. u \in Task /\ task \in [Issue -> Task] /\ \A j \in Issue : Lone(task[j])
  BY DEF Moved, Keeps, TypeInv, TypeOK, FaceInv
<1>2. seen \in [Issue -> Task] /\ \A j \in Issue : Moved(task[j], seen[j])
  BY <1>1, SyncedMoved
<1>3. \A j \in Issue : Idle(T, j) =>
        /\ j # i /\ Idle(task, j) /\ i \notin task[j].blockedBy
        /\ \A b \in task[j].blockedBy : Len(seen[b].rows) = Len(task[b].rows)
  BY <1>1, SyncedThen
<1>4. Moved(seen[i], u) /\ SetTasks(T, {})
  OBVIOUS
<1> HIDE DEF seen
<1>5. T \in [Issue -> Task] /\ T[i] = u /\ \A j \in Issue : j # i => T[j] = seen[j]
  BY <1>1, <1>2
<1>6. \A j \in Issue : Moved(task[j], T[j])
  BY <1>1, <1>2, <1>4, <1>5, MovedOn
<1>7. \A j \in Issue : task[j].blockedBy \subseteq Issue
  BY TaskTyped DEF Task
<1> HIDE DEF T
<1>8. \A j \in Issue : Idle(T, j) =>
        Idle(task, j) /\ \A b \in task[j].blockedBy : Len(T[b].rows) = Len(task[b].rows)
  BY <1>3, <1>5, <1>7
<1> QED BY <1>4, <1>5, <1>6, <1>8, FaceMoved

LEMMA FollowUpFace ==
  ASSUME TypeInv, FaceInv, NEW i \in Issue, FollowUp(i) PROVE FaceInv' /\ GraphStep
<1> DEFINE t == Synced(task, {i})[i]
<1>1. t \in Task
  BY SyncedMoved DEF TypeInv, TypeOK
<1>2. SetTasks([Synced(task, {i}) EXCEPT ![i] = Dispatched(t)], {}) /\ UNCHANGED torn
  BY DEF FollowUp
<1>3. Moved(t, Dispatched(t)) /\ Dispatched(t).run # "none" /\ Dispatched(t).status # "done"
  BY <1>1, MovedDispatched, DispatchedFacts
<1> QED BY <1>2, <1>3, ThenFace

LEMMA CancelEndsFace ==
  ASSUME TypeInv, FaceInv, NEW i \in Issue, CancelSettles(i) \/ CancelTimeout(i)
  PROVE  FaceInv' /\ GraphStep
<1>1. CASE CancelSettles(i)
  <2> DEFINE t == Synced(task, {i})[i]
  <2>1. t \in Task
    BY SyncedMoved DEF Moved, Keeps, TypeInv, TypeOK
  <2>2. SetTasks([Synced(task, {i}) EXCEPT ![i] = Cancelled(t)], {}) /\ UNCHANGED torn
    BY <1>1 DEF CancelSettles
  <2>3. Moved(t, Cancelled(t)) /\ Cancelled(t).run # "none" /\ Cancelled(t).status # "done"
    BY <2>1, MovedCancelled, CancelledFacts
  <2> QED BY <2>2, <2>3, ThenFace
<1>2. CASE CancelTimeout(i)
  BY <1>2, ReadFace DEF CancelTimeout
<1> QED BY <1>1, <1>2

LEMMA CancelFace ==
  ASSUME TypeInv, FaceInv, NEW i \in Issue, Cancel(i) PROVE FaceInv' /\ GraphStep
<1> DEFINE seen == Synced(task, {i})
           t == seen[i]
           n == CurrentInput(t)
           idle == SetRuntime(t, "IDLE", NoInput)
<1>1. task \in [Issue -> Task] /\ \A j \in Issue : Lone(task[j])
  BY DEF TypeInv, TypeOK, FaceInv
<1>2. seen \in [Issue -> Task] /\ \A j \in Issue : Moved(task[j], seen[j])
  BY <1>1, SyncedMoved
<1>3. t.run # "none" /\ t \in Task /\ Tidy(t)
  BY <1>2, TaskTyped DEF Cancel, Live, Moved
<1>4. UNCHANGED torn
  BY DEF Cancel
<1>5. CASE /\ StatusIn(t, n) = "QUEUED"
           /\ SetTasks([seen EXCEPT ![i] = Cancelled(SetRow(idle, n, "DONE"))], {})
  <2> DEFINE u == SetRow(idle, n, "DONE")
  <2>1. Moved(t, Cancelled(u))
    BY <1>3, <1>5, MovedClosed
  <2>2. idle \in Task
    BY <1>3, SetRuntimeFacts DEF RuntimeStatus, NoInput, Keeps
  <2>3. u \in Task
    BY <2>2, SetRowFacts DEF RowStatus, OneLike
  <2>4. SetTasks([seen EXCEPT ![i] = Cancelled(u)], {})
    BY <1>5
  <2> HIDE DEF u
  <2>5. Cancelled(u).run # "none" /\ Cancelled(u).status # "done"
    BY <2>3, CancelledFacts
  <2> HIDE DEF idle, n
  <2> QED BY <1>4, <2>1, <2>4, <2>5, ThenFace
<1>6. CASE SetTasks(seen, {})
  BY <1>4, <1>6, ReadFace
<1>7. CASE SetTasks([Synced([seen EXCEPT ![i] = idle], {i}) EXCEPT ![i] = Cancelled(@)], {})
  <2> DEFINE M == [seen EXCEPT ![i] = idle]
             again == Synced(M, {i})
             u == Cancelled(again[i])
             U == [again EXCEPT ![i] = u]
  <2>1. SetTasks(U, {})
    BY <1>7
  <2>2. "IDLE" \in RuntimeStatus /\ NoInput \in Nat
    BY DEF RuntimeStatus, NoInput
  <2>3. Moved(t, idle) /\ idle \in Task /\ SameFace(t, idle) /\ idle.rows = t.rows
        /\ idle.blockedBy = t.blockedBy
    BY <1>3, <2>2, MovedIdle, SetRuntimeFacts DEF Keeps
  <2> HIDE DEF idle
  <2>4. M \in [Issue -> Task] /\ M[i] = idle /\ \A j \in Issue : j # i => M[j] = seen[j]
    BY <1>2, <2>3
  <2>5. \A j \in Issue : Moved(task[j], M[j])
    <3> TAKE j \in Issue
    <3>1. CASE j = i
      BY <1>1, <1>2, <2>3, <2>4, <3>1, MovedOn
    <3>2. CASE j # i
      BY <1>2, <2>4, <3>2
    <3> QED BY <3>1, <3>2
  <2>6. \A j \in Issue : Lone(M[j])
    BY <1>1, <2>5, MovedLone
  <2> HIDE DEF M
  <2>7. again \in [Issue -> Task] /\ \A j \in Issue : Moved(M[j], again[j])
    BY <2>4, SyncedMoved
  <2>8. u \in Task /\ u.run # "none" /\ u.status # "done" /\ Moved(again[i], u)
    BY <2>7, CancelledFacts, MovedCancelled DEF Keeps
  <2> HIDE DEF u
  <2>9. \A j \in Issue : Idle(U, j) =>
          /\ j # i /\ Idle(M, j) /\ i \notin M[j].blockedBy
          /\ \A b \in M[j].blockedBy : Len(again[b].rows) = Len(M[b].rows)
    <3> DEFINE S == {i}
               V == Synced(M, S)
    <3>1. M \in [Issue -> Task] /\ u \in Task /\ u.run # "none" /\ u.status # "done"
          /\ \A j \in Issue : Lone(M[j])
      BY <2>4, <2>6, <2>8
    <3> HIDE DEF S
    <3>2. ASSUME NEW j \in Issue, Idle([V EXCEPT ![i] = u], j)
          PROVE  /\ j # i /\ Idle(M, j) /\ i \notin M[j].blockedBy
                 /\ \A b \in M[j].blockedBy : Len(V[b].rows) = Len(M[b].rows)
      BY ONLY <3>1, <3>2, SyncedThen, i \in Issue
    <3> QED BY <3>2 DEF S
  <2> HIDE DEF again
  <2>10. U \in [Issue -> Task] /\ U[i] = u /\ \A j \in Issue : j # i => U[j] = again[j]
    BY <2>7, <2>8
  <2>11. \A j \in Issue : Moved(task[j], U[j])
    <3> TAKE j \in Issue
    <3>1. task[j] \in Task
      BY <1>1
    <3>2. Moved(task[j], again[j])
      BY <2>5, <2>7, <3>1, MovedOn
    <3> QED BY <2>8, <2>10, <3>1, <3>2, MovedOn
  <2> HIDE DEF U
  <2>12. ASSUME NEW j \in Issue, Idle(U, j)
         PROVE  Idle(task, j) /\ \A b \in task[j].blockedBy : Len(U[b].rows) = Len(task[b].rows)
    <3>1. /\ j # i /\ Idle(M, j) /\ i \notin M[j].blockedBy
          /\ \A b \in M[j].blockedBy : Len(again[b].rows) = Len(M[b].rows)
      BY <2>9, <2>12
    <3>2. M[j] = seen[j] /\ M[j].blockedBy \subseteq Issue
      BY <2>4, <3>1 DEF Task
    <3>3. Idle(seen, j)
      BY <2>4, <3>1, <3>2 DEF Idle, BlockersDone
    <3>4. seen[j] = task[j] /\ Idle(task, j)
          /\ \A b \in task[j].blockedBy : Len(seen[b].rows) = Len(task[b].rows)
      BY <1>1, <3>3, SyncedIdle
    <3> HIDE DEF seen
    <3> QED BY <2>4, <2>10, <3>1, <3>2, <3>4
  <2> QED BY <1>4, <2>1, <2>10, <2>11, <2>12, FaceMoved
<1> QED BY <1>5, <1>6, <1>7 DEF Cancel

\* What a user makes shows that it has no run.
LEMMA MadeFace ==
  ASSUME NEW st \in IssueStatus, NEW B \in SUBSET Issue
  PROVE  /\ Made(st, B) \in Task /\ Made(st, B).status # "absent"
         /\ Made(st, B).blockedBy = B /\ Made(st, B).run = "none"
         /\ Showing(Made(st, B)) /\ Lone(Made(st, B))
BY MadeTypes DEF Showing, Lone

\* A step that gives one issue its blockers.
LEMMA GraphOfOne ==
  ASSUME TypeInv, NEW i \in Issue, NEW B \in SUBSET Issue, MayBlock(i, B),
         task'[i].blockedBy = B, task'[i].status # "absent",
         \A j \in Issue : j # i => Moved(task[j], task'[j])
  PROVE  GraphStep
BY DEF GraphStep, Moved, Keeps

LEMMA CreateFace ==
  ASSUME TypeInv, FaceInv, Known, NEW i \in Issue, NEW st \in UserStatus, NEW B \in SUBSET Issue,
         Create(i, st, B)
  PROVE  FaceInv' /\ GraphStep
<1> DEFINE new == Made(st, B)
           T == With(i, new)
           U == DispatchIfReady(T, i)
<1>1. new \in Task /\ new.status # "absent" /\ new.blockedBy = B /\ Showing(new) /\ Lone(new)
  <2>1. st \in IssueStatus
    BY IssueWorkflowAssumption DEF IssueWorkflowAssumption
  <2> QED BY <2>1, MadeFace
<1>2. MayBlock(i, B) /\ ~Exists(i) /\ SetTasks(U, {}) /\ UNCHANGED torn
  BY DEF Create, NextIssue, Made
<1>3. i \notin B
  BY <1>2, BlockersAreOthers
<1> HIDE DEF new
<1>4. T \in [Issue -> Task] /\ T[i] = new /\ \A j \in Issue : j # i => T[j] = task[j]
  BY <1>1 DEF With, TypeInv, TypeOK
<1>5. U = T \/ (U = [T EXCEPT ![i] = Dispatched(T[i])])
  BY DEF DispatchIfReady
<1>6. U = T => ~(new.status = "todo" /\ Dispatchable(T, i))
  <2> SUFFICES ASSUME new.status = "todo", Dispatchable(T, i) PROVE U # T
    OBVIOUS
  <2>1. U = [T EXCEPT ![i] = Dispatched(T[i])]
    BY <1>4 DEF DispatchIfReady
  <2>2. Len(Dispatched(new).rows) = Len(new.rows) + 1 /\ Len(new.rows) \in Nat
    BY <1>1, DispatchedFacts, RowsTyped
  <2> HIDE DEF T, U
  <2> QED BY <1>4, <2>1, <2>2
<1>7. U \in [Issue -> Task] /\ Moved(new, U[i]) /\ \A j \in Issue : j # i => U[j] = task[j]
  BY <1>4, DispatchIfReadyFacts
<1> HIDE DEF T, U
<1>8. task' = U
  BY <1>2 DEF SetTasks
<1>9. \A j \in Issue : j # i => ~NewWork(j)
  BY <1>7, <1>8, TaskTyped, RowsTyped DEF NewWork
<1>10. \A j \in Issue : task[j].blockedBy \subseteq Issue /\ i \notin task[j].blockedBy
  BY <1>2, TaskTyped DEF Known, Task
<1>11. ASSUME NEW j \in Issue, Idle(U, j) PROVE Excused(j)'
  <2>1. CASE j = i
    <3>1. U[i] = new
      BY <1>7, <1>11, <2>1 DEF Idle, Moved
    <3>2. U = T
      <4>1. Dispatched(new).run = "queued"
        BY <1>1, DispatchedFacts
      <4> QED BY <1>4, <1>5, <1>11, <2>1, <4>1 DEF Idle
    <3>3. new.status = "todo" /\ new.run = "none" /\ BlockersDone(T, i)
      BY <1>11, <2>1, <3>1, <3>2 DEF Idle
    <3>4. Dispatchable(T, i)
      BY <1>1, <1>4, <3>3 DEF Dispatchable, Lone
    <3> QED BY <1>6, <3>2, <3>3, <3>4
  <2>2. CASE j # i
    <3>1. Idle(task, j)
      BY <1>7, <1>10, <1>11, <2>2 DEF Idle, BlockersDone
    <3>2. Excused(j)
      BY <3>1 DEF FaceInv
    <3>3. task'[j].blockedBy = task[j].blockedBy
      BY <1>7, <1>8, <2>2
    <3>4. \A b \in task[j].blockedBy : ~NewWork(b)
      BY <1>9, <1>10
    <3>5. \A k \in Issue : torn[k] => torn'[k]
      BY <1>2
    <3> QED BY <1>2, <1>9, <2>2, <3>2, <3>3, <3>4, <3>5, ExcusedKept
  <2> QED BY <2>1, <2>2
<1>12. ASSUME NEW j \in Issue, ~byHand'[j], ~torn'[j] PROVE Showing(task'[j])
  <2>1. CASE j = i
    BY <1>1, <1>7, <1>8, <2>1 DEF Moved
  <2>2. CASE j # i
    BY <1>2, <1>7, <1>8, <1>9, <1>12, <2>2 DEF SetTasks, FaceInv
  <2> QED BY <2>1, <2>2
<1>13. \A j \in Issue : Lone(task'[j])
  BY <1>1, <1>7, <1>8, MovedLone DEF FaceInv
<1>14. \A j \in Issue : j # i => Moved(task[j], task'[j])
  BY <1>7, <1>8, TaskTyped, MovedSelf
<1>15. task'[i].blockedBy = B /\ task'[i].status # "absent"
  BY <1>1, <1>7, <1>8 DEF Moved, Keeps
<1>16. GraphStep
  BY <1>2, <1>14, <1>15, GraphOfOne
<1>17. (\A j \in Issue : ~byHand[j] /\ ~torn[j] => Showing(task[j]))'
  BY <1>12
<1>18. (\A j \in Issue : Idle(task, j) => Excused(j))'
  BY <1>8, <1>11
<1> QED BY <1>13, <1>16, <1>17, <1>18 DEF FaceInv

LEMMA DelegateFace ==
  ASSUME TypeInv, FaceInv, Known, NEW i \in Issue, NEW B \in SUBSET Issue, Delegate(i, B)
  PROVE  FaceInv' /\ GraphStep
<1> DEFINE new == Made("todo", B)
           T == With(i, new)
           S == {b \in B : task[b].linked}
           seen == Synced(T, S)
           last == IF BlockersDone(T, i) THEN Dispatched(seen[i])
                   ELSE SetRuntime(seen[i], "IDLE", NoInput)
           U == [seen EXCEPT ![i] = last]
<1>1. new \in Task /\ new.status # "absent" /\ new.blockedBy = B /\ Showing(new) /\ Lone(new)
      /\ new.run = "none"
  <2>1. "todo" \in IssueStatus
    BY DEF IssueStatus
  <2> QED BY <2>1, MadeFace
<1>2. MayBlock(i, B) /\ ~Exists(i) /\ SetTasks(U, {}) /\ UNCHANGED torn
  BY DEF Delegate, NextIssue, Made
<1>3. i \notin B
  BY <1>2, BlockersAreOthers
<1> HIDE DEF new
<1>4. T \in [Issue -> Task] /\ T[i] = new /\ \A j \in Issue : j # i => T[j] = task[j]
  BY <1>1 DEF With, TypeInv, TypeOK
<1> HIDE DEF T, S
<1>5. seen \in [Issue -> Task] /\ \A j \in Issue : Moved(T[j], seen[j])
  BY <1>4, SyncedMoved
<1>6. \A j \in Issue : Lone(T[j])
  BY <1>1, <1>4 DEF FaceInv
<1>7. \A j \in Issue : Idle(seen, j) =>
        /\ seen[j] = T[j] /\ Idle(T, j)
        /\ \A b \in T[j].blockedBy : Len(seen[b].rows) = Len(T[b].rows)
  BY <1>4, <1>6, SyncedIdle
<1> HIDE DEF seen
<1>8. seen[i] \in Task /\ seen[i].status # "absent" /\ Showing(seen[i]) /\ seen[i].blockedBy = B
  BY <1>1, <1>4, <1>5 DEF Moved, Keeps
<1>9. /\ last \in Task /\ last.status # "absent" /\ Showing(last) /\ last.blockedBy = B
      /\ Lone(last)
      /\ last.run = "none" => ~BlockersDone(T, i) /\ seen[i].run = "none"
                              /\ last.status = seen[i].status
  <2>1. CASE BlockersDone(T, i)
    <3>1. last = Dispatched(seen[i])
      BY <2>1
    <3> QED BY <1>8, <3>1, DispatchedFacts DEF Keeps, Lone
  <2>2. CASE ~BlockersDone(T, i)
    <3>1. last = SetRuntime(seen[i], "IDLE", NoInput)
      BY <2>2
    <3>2. "IDLE" \in RuntimeStatus /\ NoInput \in Nat
      BY DEF RuntimeStatus, NoInput
    <3>3. Keeps(seen[i], last) /\ SameFace(seen[i], last)
      BY <1>8, <3>1, <3>2, SetRuntimeFacts
    <3>4. Lone(seen[i])
      BY <1>1, <1>4, <1>5, MovedLone
    <3> HIDE DEF last
    <3> QED BY <1>8, <2>2, <3>3, <3>4 DEF Keeps, SameFace, Showing, Lone
  <2> QED BY <2>1, <2>2
<1> HIDE DEF last
<1>10. U \in [Issue -> Task] /\ U[i] = last /\ \A j \in Issue : j # i => U[j] = seen[j]
  BY <1>5, <1>9
<1> HIDE DEF U
<1>11. task' = U
  BY <1>2 DEF SetTasks
<1>12. \A j \in Issue : j # i => Moved(task[j], task'[j])
  BY <1>4, <1>5, <1>10, <1>11
<1>13. \A j \in Issue : task[j].blockedBy \subseteq Issue /\ i \notin task[j].blockedBy
  BY <1>2, TaskTyped DEF Known, Task
<1>14. \A j \in Issue : Len(task[j].rows) \in Nat /\ Len(U[j].rows) \in Nat
  BY <1>10, TaskTyped, RowsTyped
<1>15. ASSUME NEW j \in Issue, Idle(U, j) PROVE Excused(j)'
  <2>1. CASE j = i
    <3>1. seen[i].run = "none" /\ seen[i].status = "todo" /\ ~BlockersDone(T, i)
      BY <1>9, <1>10, <1>15, <2>1 DEF Idle
    <3>2. \A b \in B : U[b] = seen[b]
      BY <1>3, <1>10
    <3>3. BlockersDone(seen, i)
      BY <1>8, <1>9, <1>10, <1>15, <2>1, <3>2 DEF Idle, BlockersDone
    <3>4. Idle(T, i)
      BY <1>7, <3>1, <3>3 DEF Idle
    <3> QED BY <3>1, <3>4 DEF Idle
  <2>2. CASE j # i
    <3>1. U[j] = seen[j] /\ T[j] = task[j] /\ seen[j].blockedBy = task[j].blockedBy
      BY <1>4, <1>5, <1>10, <2>2 DEF Moved, Keeps
    <3>2. \A b \in task[j].blockedBy : b # i /\ U[b] = seen[b] /\ T[b] = task[b]
      BY <1>4, <1>10, <1>13
    <3>3. Idle(seen, j)
      BY <1>15, <3>1, <3>2 DEF Idle, BlockersDone
    <3>4. /\ seen[j] = T[j] /\ Idle(T, j)
          /\ \A b \in T[j].blockedBy : Len(seen[b].rows) = Len(T[b].rows)
      BY <1>7, <3>3
    <3>5. Idle(task, j)
      BY <3>1, <3>2, <3>4 DEF Idle, BlockersDone
    <3>6. Excused(j)
      BY <3>5 DEF FaceInv
    <3>7. ~NewWork(j) /\ \A b \in task[j].blockedBy : ~NewWork(b)
      BY <1>11, <1>13, <1>14, <3>1, <3>2, <3>4 DEF NewWork
    <3>8. task'[j].blockedBy = task[j].blockedBy /\ \A k \in Issue : torn[k] => torn'[k]
      BY <1>2, <1>11, <3>1
    <3> QED BY <1>2, <3>6, <3>7, <3>8, ExcusedKept
  <2> QED BY <2>1, <2>2
<1>16. ASSUME NEW j \in Issue, ~byHand'[j], ~torn'[j] PROVE Showing(task'[j])
  <2>1. CASE j = i
    BY <1>9, <1>10, <1>11, <2>1
  <2>2. CASE j # i /\ NewWork(j)
    BY <1>11, <1>12, <1>14, <2>2 DEF NewWork, Moved
  <2>3. CASE j # i /\ ~NewWork(j)
    BY <1>2, <1>12, <1>16, <2>3 DEF SetTasks, FaceInv, Moved
  <2> QED BY <2>1, <2>2, <2>3
<1>17. \A j \in Issue : Lone(task'[j])
  BY <1>9, <1>10, <1>11, <1>12, MovedLone DEF FaceInv
<1>18. GraphStep
  BY <1>2, <1>9, <1>10, <1>11, <1>12, GraphOfOne
<1>19. (\A j \in Issue : ~byHand[j] /\ ~torn[j] => Showing(task[j]))'
  BY <1>16
<1>20. (\A j \in Issue : Idle(task, j) => Excused(j))'
  BY <1>11, <1>15
<1> QED BY <1>17, <1>18, <1>19, <1>20 DEF FaceInv

LEMMA PatchFace ==
  ASSUME TypeInv, FaceInv, NEW i \in Issue, NEW st \in UserStatus \cup {task[i].status},
         NEW B \in SUBSET Issue, NEW named \in BOOLEAN,
         NEW active \in {task[i].active, FALSE}, NEW linked \in {task[i].linked, FALSE},
         Patch(i, st, B, named, active, linked)
  PROVE  FaceInv' /\ GraphStep
<1> DEFINE new == [task[i] EXCEPT !.status = st, !.blockedBy = B,
                                  !.active = active, !.linked = linked]
           T == With(i, new)
           U == IF named \/ task[i].status # "todo" THEN DispatchIfReady(T, i) ELSE T
<1>1. st \in IssueStatus /\ "absent" \notin IssueStatus
  BY IssueWorkflowAssumption, TaskTyped
     DEF IssueWorkflowAssumption, IssueStatus, Patch, Exists, Task
<1>2. new \in Task /\ new.status # "absent" /\ new.rows = task[i].rows /\ new.blockedBy = B
      /\ new.run = task[i].run /\ (new.active => task[i].active) /\ (new.linked => task[i].linked)
  <2>1. task[i] \in Task /\ active \in BOOLEAN /\ linked \in BOOLEAN
    BY TaskTyped DEF Task
  <2>2. (active => task[i].active) /\ (linked => task[i].linked)
    OBVIOUS
  <2>3. /\ new.status = st /\ new.rows = task[i].rows /\ new.blockedBy = B
        /\ new.run = task[i].run /\ new.active = active /\ new.linked = linked
    BY <2>1 DEF Task
  <2>4. new \in Task
    BY <1>1, <2>1 DEF Task
  <2> QED BY <1>1, <2>2, <2>3, <2>4
<1>3. SetTasks(U, {i}) /\ \A k \in Issue : torn[k] => torn'[k]
  <2>1. \A k \in Issue : torn[k] => torn'[k]
    BY DEF Patch, TypeInv, TypeOK
  <2> QED BY <2>1 DEF Patch
<1>4. MayBlock(i, B) \/ B = task[i].blockedBy
  BY DEF Patch
<1> HIDE DEF new
<1>5. T \in [Issue -> Task] /\ T[i] = new /\ \A j \in Issue : j # i => T[j] = task[j]
  BY <1>2 DEF With, TypeInv, TypeOK
<1> HIDE DEF T
<1>6. U = T \/ (U = [T EXCEPT ![i] = Dispatched(new)])
  BY <1>5 DEF DispatchIfReady
<1>7. U \in [Issue -> Task] /\ Moved(new, U[i]) /\ (\A j \in Issue : j # i => U[j] = task[j])
  <2>1. Dispatched(new) \in Task
    BY <1>2, DispatchedFacts DEF Keeps
  <2> QED BY <1>2, <1>5, <1>6, <2>1, MovedSelf, MovedDispatched
<1>8. U[i] = new \/ U[i] = Dispatched(new)
  BY <1>5, <1>6
<1> HIDE DEF U
<1>9. task' = U /\ byHand' = [j \in Issue |-> (byHand[j] \/ j \in {i}) /\ ~NewWork(j)]
  BY <1>3 DEF SetTasks
<1>10. \A j \in Issue : j # i => ~NewWork(j)
  BY <1>7, <1>9, TaskTyped, RowsTyped DEF NewWork
<1>11. Len(task[i].rows) \in Nat
  BY TaskTyped, RowsTyped
<1>12. ~byHand'[i] => NewWork(i)
  BY <1>9
<1>13. NewWork(i) => U[i] = Dispatched(new) /\ U[i].status = "todo" /\ U[i].run = "queued"
                    /\ Showing(U[i])
  BY <1>2, <1>8, <1>9, <1>11, DispatchedFacts DEF NewWork
<1>14. \A j \in Issue : task[j].blockedBy \subseteq Issue
  BY TaskTyped DEF Task
<1>15. ASSUME NEW j \in Issue, Idle(U, j) PROVE Excused(j)'
  <2>1. CASE j = i
    BY <1>12, <1>13, <1>15, <2>1 DEF Idle, Excused
  <2>2. CASE j # i /\ i \in task[j].blockedBy
    <3>1. U[i].status = "done"
      BY <1>7, <1>15, <2>2 DEF Idle, BlockersDone
    <3>2. byHand'[i]
      BY <1>12, <1>13, <3>1
    <3>3. i \in task'[j].blockedBy
      BY <1>7, <1>9, <2>2
    <3> QED BY <3>2, <3>3 DEF Excused
  <2>3. CASE j # i /\ i \notin task[j].blockedBy
    <3>1. Idle(task, j)
      BY <1>7, <1>14, <1>15, <2>3 DEF Idle, BlockersDone
    <3>2. Excused(j)
      BY <3>1 DEF FaceInv
    <3>3. task'[j].blockedBy = task[j].blockedBy /\ \A k \in Issue : torn[k] => torn'[k]
      BY <1>3, <1>7, <1>9, <2>3
    <3>4. \A b \in task[j].blockedBy : ~NewWork(b)
      BY <1>10, <1>14, <2>3
    <3> QED BY <1>3, <1>10, <2>3, <3>2, <3>3, <3>4, ExcusedKept
  <2> QED BY <2>1, <2>2, <2>3
<1>16. ASSUME NEW j \in Issue, ~byHand'[j], ~torn'[j] PROVE Showing(task'[j])
  <2>1. CASE j = i
    BY <1>9, <1>12, <1>13, <1>16, <2>1
  <2>2. CASE j # i
    BY <1>3, <1>7, <1>9, <1>10, <1>16, <2>2 DEF FaceInv
  <2> QED BY <2>1, <2>2
<1>17. Lone(new)
  BY <1>2 DEF FaceInv, Lone
<1>18. \A j \in Issue : Lone(task'[j])
  BY <1>7, <1>9, <1>17, MovedLone DEF FaceInv
<1>19. \A j \in Issue : j # i => task'[j] = task[j]
  BY <1>7, <1>9
<1>20. task'[i].blockedBy = B /\ task'[i].status # "absent"
  BY <1>2, <1>7, <1>9 DEF Moved, Keeps
<1>21. GraphStep
  BY <1>4, <1>19, <1>20 DEF GraphStep
<1>22. (\A j \in Issue : ~byHand[j] /\ ~torn[j] => Showing(task[j]))'
  BY <1>16
<1>23. (\A j \in Issue : Idle(task, j) => Excused(j))'
  BY <1>9, <1>15
<1> QED BY <1>18, <1>21, <1>22, <1>23 DEF FaceInv

--------------------------------------------------------------------------------
(* The steps that the board is not told of, and the cuts *)

LEMMA QueueFace ==
  ASSUME TypeInv, FaceInv, NEW i \in Issue, PauseQueued(i) \/ DeleteQueued(i) \/ Claim(i)
  PROVE  FaceInv' /\ GraphStep
<1> DEFINE t == task[i]
<1>1. t \in Task
  BY TaskTyped
<1>2. CASE PauseQueued(i)
  <2>1. /\ task' = With(i, PausedInQueue(t)) /\ UNCHANGED <<byHand, torn>>
        /\ StatusIn(t, t.rtInput) = "QUEUED"
    BY <1>2 DEF PauseQueued
  <2> HIDE DEF t
  <2>2. Keeps(t, PausedInQueue(t)) /\ SameFace(t, PausedInQueue(t))
    BY <1>1, <2>1, PausedInQueueFacts
  <2> QED BY <2>1, <2>2, OneFaceSame DEF Keeps, t
<1>3. CASE DeleteQueued(i) \/ Claim(i)
  <2>1. PICK n \in OpenInputs(t), st \in RowStatus :
          task' = With(i, SetRow(t, n, st)) /\ UNCHANGED <<byHand, torn>>
    BY <1>3 DEF DeleteQueued, Claim, RowStatus, histVars
  <2> HIDE DEF t
  <2>2. OneLike(t, SetRow(t, n, st))
    BY <1>1, SetRowFacts
  <2> QED BY <2>1, <2>2, OneFaceSame DEF OneLike, t
<1> QED BY <1>2, <1>3

LEMMA ExecutorFace ==
  ASSUME TypeInv, FaceInv, NEW i \in Issue, GatePass(i) \/ SetupThrow(i) \/ RecoverClaim(i)
  PROVE  FaceInv' /\ GraphStep
<1> DEFINE t == task[i]
           n == Claimed(i)
<1>1. t \in Task /\ n \in Nat
  BY ClaimedFacts DEF GatePass, SetupThrow, RecoverClaim
<1>2. UNCHANGED <<byHand, torn>>
  BY DEF GatePass, SetupThrow, RecoverClaim, histVars
<1>3. PICK u : /\ task' = With(i, u)
               /\ u \in {SetRuntime(t, "BUSY", n),
                         SetRuntime(SetRow(t, n, "FAILED"), "ERROR", NoInput),
                         ResetRuntime(SetRow(t, n, "QUEUED"), n, "IDLE"),
                         ResetRuntime(SetRow(t, n, "FAILED"), n, "ERROR")}
  BY DEF GatePass, SetupThrow, RecoverClaim
<1> HIDE DEF t, n
<1>4. OneLike(t, u)
  BY <1>1, <1>3, SetRuntimeLike, SetBothFacts DEF RowStatus, RuntimeStatus
<1> QED BY <1>2, <1>3, <1>4, OneFaceSame DEF OneLike, t

\* One issue moves and is excused by the cut.
LEMMA TornFace ==
  ASSUME TypeInv, FaceInv, NEW i \in Issue, NEW u \in Task, task' = With(i, u),
         u.blockedBy = task[i].blockedBy, u.status # "absent", Lone(u),
         torn' = [torn EXCEPT ![i] = TRUE],
         \A j \in Issue : j # i => byHand'[j] = byHand[j]
  PROVE  FaceInv' /\ GraphStep
<1>1. task' \in [Issue -> Task] /\ task'[i] = u /\ \A j \in Issue : j # i => task'[j] = task[j]
  BY DEF With, TypeInv, TypeOK
<1>2. torn'[i] /\ \A j \in Issue : j # i => torn'[j] = torn[j]
  BY DEF TypeInv, TypeOK
<1>3. \A j \in Issue : task'[j].blockedBy = task[j].blockedBy /\ task[j].blockedBy \subseteq Issue
  BY <1>1, TaskTyped DEF Task
<1>4. ASSUME NEW j \in Issue, Idle(task', j) PROVE Excused(j)'
  <2>1. CASE j = i \/ i \in task[j].blockedBy
    BY <1>2, <1>3, <2>1 DEF Excused
  <2>2. CASE j # i /\ i \notin task[j].blockedBy
    <3>1. Idle(task, j)
      BY <1>1, <1>3, <1>4, <2>2 DEF Idle, BlockersDone
    <3>2. Excused(j)
      BY <3>1 DEF FaceInv
    <3> QED BY <1>2, <1>3, <2>2, <3>2 DEF Excused
  <2> QED BY <2>1, <2>2
<1>5. \A j \in Issue : ~byHand'[j] /\ ~torn'[j] => Showing(task'[j])
  BY <1>1, <1>2 DEF FaceInv
<1>6. \A j \in Issue : Lone(task'[j])
  BY <1>1 DEF FaceInv
<1>7. GraphStep
  BY <1>1, <1>3 DEF GraphStep
<1>8. (\A j \in Issue : ~byHand[j] /\ ~torn[j] => Showing(task[j]))'
  BY <1>5
<1>9. (\A j \in Issue : Idle(task, j) => Excused(j))'
  BY <1>4
<1> QED BY <1>6, <1>7, <1>8, <1>9 DEF FaceInv

LEMMA DispatchCutFace ==
  ASSUME TypeInv, FaceInv, NEW i \in Issue, NEW k \in 0..4, DispatchCut(i, k)
  PROVE  FaceInv' /\ GraphStep
<1> DEFINE u == Begun(task[i], k)
<1>1. task[i] \in Task /\ task[i].status # "absent"
  BY TaskTyped DEF DispatchCut, Exists
<1>2. Keeps(task[i], u) /\ u.status # "absent" /\ u.run = "queued"
  BY <1>1, CutFacts
<1>3. SetTasks([task EXCEPT ![i] = u], {}) /\ torn' = [torn EXCEPT ![i] = TRUE]
  BY DEF DispatchCut, Tear
<1> HIDE DEF u
<1>4. task' = With(i, u) /\ \A j \in Issue : j # i => task'[j] = task[j]
  BY <1>3 DEF SetTasks, With
<1>5. \A j \in Issue : j # i => byHand'[j] = byHand[j]
  <2> SUFFICES ASSUME NEW j \in Issue, j # i PROVE byHand'[j] = byHand[j]
    OBVIOUS
  <2>1. ~NewWork(j)
    BY <1>4, TaskTyped, RowsTyped DEF NewWork
  <2>2. byHand' = [h \in Issue |-> (byHand[h] \/ h \in {}) /\ ~NewWork(h)]
    BY <1>3 DEF SetTasks
  <2>3. byHand[j] \in BOOLEAN
    BY DEF TypeInv, TypeOK
  <2> QED BY <2>1, <2>2, <2>3
<1> QED BY <1>2, <1>3, <1>4, <1>5, TornFace DEF Keeps, Lone

LEMMA FollowUpCutFace ==
  ASSUME TypeInv, FaceInv, NEW i \in Issue, NEW k \in 1..3, FollowUpCut(i, k)
  PROVE  FaceInv' /\ GraphStep
<1> DEFINE seen == Synced(task, {i})
           u == Given(seen[i], k)
           T == [seen EXCEPT ![i] = u]
<1>1. SetTasks(T, {}) /\ seen[i].run # "none" /\ torn' = [torn EXCEPT ![i] = TRUE]
  BY DEF FollowUpCut, Tear
<1>2. seen[i] \in Task /\ task \in [Issue -> Task] /\ \A j \in Issue : Lone(task[j])
  BY SyncedMoved DEF TypeInv, TypeOK, FaceInv
<1>3. Keeps(seen[i], u) /\ u.status = seen[i].status /\ u.run \in {seen[i].run, "queued"}
  BY <1>2, GivenFacts
<1> HIDE DEF u, T, seen
<1>4. /\ \A j \in Issue : Moved(task[j], seen[j])
      /\ T \in [Issue -> Task] /\ T[i] = u /\ \A j \in Issue : j # i => T[j] = seen[j]
      /\ Keeps(task[i], u) /\ seen[i].status # "absent"
  <2>1. seen = Synced(task, {i})
    BY DEF seen
  <2>2. T = [seen EXCEPT ![i] = u]
    BY DEF T
  <2>3. seen[i].run # "none" /\ Keeps(seen[i], u)
    BY <1>1, <1>3
  <2> QED BY ONLY TypeInv, i \in Issue, <2>1, <2>2, <2>3, FollowedIs
<1>5. \A j \in Issue : Idle(seen, j) =>
        /\ seen[j] = task[j] /\ Idle(task, j)
        /\ \A b \in task[j].blockedBy : Len(seen[b].rows) = Len(task[b].rows)
  <2>1. task \in [Issue -> Task] /\ \A j \in Issue : Lone(task[j])
    BY <1>2
  <2> DEFINE S == {i}
  <2>2. seen = Synced(task, S)
    BY DEF seen
  <2> HIDE DEF S
  <2>3. ASSUME NEW j \in Issue, Idle(seen, j)
        PROVE  /\ seen[j] = task[j] /\ Idle(task, j)
               /\ \A b \in task[j].blockedBy : Len(seen[b].rows) = Len(task[b].rows)
    BY <2>1, <2>2, <2>3, SyncedIdle
  <2> QED BY <2>3
<1>6. task' = T
  BY <1>1 DEF SetTasks
<1>7. torn'[i] /\ \A j \in Issue : torn[j] => torn'[j]
  BY <1>1 DEF TypeInv, TypeOK
<1>8. \A j \in Issue : /\ task[j].blockedBy \subseteq Issue /\ task'[j].blockedBy = task[j].blockedBy
                       /\ Len(task[j].rows) \in Nat /\ Len(T[j].rows) \in Nat
  <2> TAKE j \in Issue
  <2>1. task[j] \in Task /\ T[j] \in Task
    BY <1>4, TaskTyped
  <2>2. T[j].blockedBy = task[j].blockedBy
    BY <1>4 DEF Moved, Keeps
  <2> QED BY <1>6, <2>1, <2>2, RowsTyped DEF Task
<1>9. ASSUME NEW j \in Issue, Idle(task', j) PROVE Excused(j)'
  <2>1. CASE j = i \/ i \in task[j].blockedBy
    BY <1>7, <1>8, <2>1 DEF Excused
  <2>2. CASE j # i /\ i \notin task[j].blockedBy
    <3>1. Idle(seen, j)
      BY <1>4, <1>6, <1>8, <1>9, <2>2 DEF Idle, BlockersDone
    <3>2. /\ seen[j] = task[j] /\ Idle(task, j)
          /\ \A b \in task[j].blockedBy : Len(seen[b].rows) = Len(task[b].rows)
      BY <1>5, <3>1
    <3>3. ~NewWork(j) /\ \A b \in task[j].blockedBy : ~NewWork(b)
      BY <1>4, <1>6, <1>8, <2>2, <3>2 DEF NewWork
    <3>4. Excused(j)
      BY <3>2 DEF FaceInv
    <3> QED BY <1>1, <1>7, <1>8, <3>3, <3>4, ExcusedKept
  <2> QED BY <2>1, <2>2
<1>10. ASSUME NEW j \in Issue, ~byHand'[j], ~torn'[j] PROVE Showing(task'[j])
  <2>1. j # i /\ task'[j] = seen[j] /\ Moved(task[j], seen[j])
    BY <1>4, <1>6, <1>7, <1>10
  <2>2. CASE NewWork(j)
    BY <1>4, <1>6, <1>8, <2>1, <2>2 DEF NewWork, Moved
  <2>3. CASE ~NewWork(j)
    BY <1>1, <1>7, <1>10, <2>1, <2>3 DEF SetTasks, FaceInv, Moved
  <2> QED BY <2>2, <2>3
<1>11. \A j \in Issue : Lone(task'[j])
  <2> TAKE j \in Issue
  <2>1. CASE j = i
    BY <1>1, <1>3, <1>4, <1>6, <2>1 DEF Lone
  <2>2. CASE j # i
    BY <1>2, <1>4, <1>6, <2>2, MovedLone
  <2> QED BY <2>1, <2>2
<1>12. GraphStep
  <2>1. \A j \in Issue : task[j].status # "absent" => task'[j].status # "absent"
    BY <1>3, <1>4, <1>6 DEF Moved
  <2> QED BY <1>8, <2>1 DEF GraphStep
<1>13. (\A j \in Issue : ~byHand[j] /\ ~torn[j] => Showing(task[j]))'
  BY <1>10
<1>14. (\A j \in Issue : Idle(task, j) => Excused(j))'
  BY <1>9
<1> QED BY <1>11, <1>12, <1>13, <1>14 DEF FaceInv

LEMMA RunnerExitCutFace ==
  ASSUME TypeInv, FaceInv, NEW i \in Issue, NEW v \in Verdict, NEW k \in 1..5,
         RunnerExitCut(i, v, k)
  PROVE  FaceInv' /\ GraphStep
<1> DEFINE t == task[i]
           n == Claimed(i)
           u == Ended(t, n, v, k)
<1>1. t \in Task /\ n \in Nat /\ v \in Turn /\ exec[i] # "none" /\ Lone(t)
  BY ClaimedFacts, IssueWorkflowAssumption
     DEF IssueWorkflowAssumption, RunnerExitCut, FaceInv
<1>2. u \in Task /\ u.status # "absent" /\ u.blockedBy = t.blockedBy
  BY <1>1, EndedTask
<1>3. task' = With(i, u) /\ torn' = [torn EXCEPT ![i] = TRUE] /\ byHand' = byHand
  BY DEF RunnerExitCut, Tear
<1>4. Lone(u)
  <2> HIDE DEF t, n
  <2>1. CASE k \in 1..4
    <3>1. u.active = t.active /\ u.linked = t.linked /\ (u.run = t.run \/ u.run # "none")
      BY <1>1, <2>1, EndedFacts
    <3> HIDE DEF u
    <3> QED BY <1>1, <3>1 DEF Lone
  <2>2. CASE k = 5
    <3> DEFINE w == Ended(t, n, v, 4)
    <3>1. 4 \in 1..4
      OBVIOUS
    <3>2. w \in Task /\ w.run # "none"
      BY <1>1, <3>1, EndedFacts
    <3>3. u = Refreshed(w)
      BY <2>2, EndedFive
    <3> HIDE DEF w, u
    <3> QED BY <3>2, <3>3, RefreshedFacts DEF Lone
  <2> QED BY <2>1, <2>2
<1> HIDE DEF u
<1> QED BY <1>2, <1>3, <1>4, TornFace DEF t

LEMMA RunnerExitFace ==
  ASSUME TypeInv, FaceInv, NEW i \in Issue, NEW v \in Verdict, RunnerExit(i, v)
  PROVE  FaceInv' /\ GraphStep
<1> DEFINE t == task[i]
           n == Claimed(i)
           u == Ended(t, n, v, 4)
           T == With(i, u)
           U == Synced(T, {i})
<1>1. t \in Task /\ n \in Nat /\ v \in Turn /\ 4 \in 1..4 /\ t.status # "absent"
  BY ClaimedFacts, IssueWorkflowAssumption DEF IssueWorkflowAssumption, RunnerExit
<1>2. SetTasks(U, {}) /\ UNCHANGED torn
  BY DEF RunnerExit
<1>3. /\ u \in Task /\ u.blockedBy = t.blockedBy /\ Len(u.rows) = Len(t.rows)
      /\ u.status = t.status /\ u.run # "none"
  <2> HIDE DEF t, n
  <2> QED BY <1>1, EndedFacts
<1> HIDE DEF u, n
<1>4. T \in [Issue -> Task] /\ T[i] = u /\ \A j \in Issue : j # i => T[j] = task[j]
  BY <1>3 DEF With, TypeInv, TypeOK
<1> HIDE DEF T
<1>5. U \in [Issue -> Task] /\ \A j \in Issue : Moved(T[j], U[j])
  BY <1>4, SyncedMoved
<1>6. Showing(U[i])
  BY <1>3, <1>4, SyncedShowing
<1>7. \A j \in Issue : Lone(T[j])
  BY <1>3, <1>4 DEF FaceInv, Lone
<1>8. \A j \in Issue : Idle(U, j) =>
        /\ U[j] = T[j] /\ Idle(T, j)
        /\ \A b \in T[j].blockedBy : Len(U[b].rows) = Len(T[b].rows)
  BY <1>4, <1>7, SyncedIdle
<1> HIDE DEF U
<1>9. task' = U
  BY <1>2 DEF SetTasks
<1>10. \A j \in Issue : /\ task[j].blockedBy \subseteq Issue /\ T[j].blockedBy = task[j].blockedBy
                        /\ T[j].status = task[j].status
                        /\ Len(T[j].rows) = Len(task[j].rows)
                        /\ Len(task[j].rows) \in Nat /\ Len(U[j].rows) \in Nat
  BY <1>3, <1>4, <1>5, TaskTyped, RowsTyped DEF Task
<1>11. ASSUME NEW j \in Issue, Idle(U, j) PROVE Excused(j)'
  <2>1. /\ U[j] = T[j] /\ Idle(T, j)
        /\ \A b \in T[j].blockedBy : Len(U[b].rows) = Len(T[b].rows)
    BY <1>8, <1>11
  <2>2. j # i
    BY <1>3, <1>4, <2>1 DEF Idle
  <2>3. Idle(task, j)
    BY <1>4, <1>10, <2>1, <2>2 DEF Idle, BlockersDone
  <2>4. ~NewWork(j) /\ \A b \in task[j].blockedBy : ~NewWork(b)
    BY <1>9, <1>10, <2>1 DEF NewWork
  <2>5. Excused(j) /\ task'[j].blockedBy = task[j].blockedBy
        /\ \A k \in Issue : torn[k] => torn'[k]
    BY <1>2, <1>9, <1>10, <2>1, <2>3 DEF FaceInv
  <2> QED BY <1>2, <2>4, <2>5, ExcusedKept
<1>12. ASSUME NEW j \in Issue, ~byHand'[j], ~torn'[j] PROVE Showing(task'[j])
  <2>1. CASE j = i
    BY <1>6, <1>9, <2>1
  <2>2. CASE j # i /\ NewWork(j)
    BY <1>4, <1>5, <1>9, <1>10, <2>2 DEF NewWork, Moved
  <2>3. CASE j # i /\ ~NewWork(j)
    BY <1>2, <1>4, <1>5, <1>9, <1>12, <2>3 DEF SetTasks, FaceInv, Moved
  <2> QED BY <2>1, <2>2, <2>3
<1>13. \A j \in Issue : Lone(task'[j])
  BY <1>5, <1>7, <1>9, MovedLone
<1>14. GraphStep
  BY <1>1, <1>3, <1>4, <1>5, <1>9, <1>10 DEF GraphStep, Moved, Keeps
<1>15. (\A j \in Issue : ~byHand[j] /\ ~torn[j] => Showing(task[j]))'
  BY <1>12
<1>16. (\A j \in Issue : Idle(task, j) => Excused(j))'
  BY <1>9, <1>11
<1> QED BY <1>13, <1>14, <1>15, <1>16 DEF FaceInv

--------------------------------------------------------------------------------
(* The theorems *)

BoardInv == TypeInv /\ GraphInv /\ FaceInv

LEMMA BoardInit == Init => BoardInv
<1> SUFFICES ASSUME Init PROVE BoardInv
  OBVIOUS
<1>1. TypeInv
  BY TypedInit
<1>2. \A i \in Issue : task[i] = NoTask
  BY DEF Init
<1>3. GraphInv
  <2>1. \A i \in Issue : task[i].blockedBy = {}
    BY <1>2 DEF NoTask
  <2>2. ASSUME NEW i \in Issue PROVE i \notin Upstream(task[i].blockedBy)
    <3>1. {} \in SUBSET Issue /\ task[i].blockedBy \subseteq {} /\ i \notin {}
          /\ \A k \in {} : task[k].blockedBy \subseteq {}
      BY <2>1
    <3> QED BY <3>1, NotUpstream
  <2> QED BY <2>1, <2>2 DEF GraphInv, Known, NoIssueWaitsForItself
<1>4. FaceInv
  BY <1>2 DEF FaceInv, Lone, Showing, Idle, NoTask
<1> QED BY <1>1, <1>3, <1>4 DEF BoardInv

LEMMA BoardNext == BoardInv /\ [Next]_vars => BoardInv'
<1> SUFFICES ASSUME BoardInv, [Next]_vars PROVE BoardInv'
  OBVIOUS
<1> USE DEF BoardInv, GraphInv
<1>1. TypeInv'
  BY TypedNext
<1>2. ASSUME NEW i \in Issue, UserStep(i) PROVE FaceInv' /\ GraphStep
  BY <1>2, CreateFace, DelegateFace, PatchFace, RedispatchFace, FollowUpFace, ReadFace,
     QueueFace, CancelFace
     DEF UserStep, Read
<1>3. ASSUME NEW i \in Issue, CancelSettles(i) \/ CancelTimeout(i) PROVE FaceInv' /\ GraphStep
  BY <1>3, CancelEndsFace
<1>4. ASSUME NEW i \in Issue, ExecutorStep(i) PROVE FaceInv' /\ GraphStep
  BY <1>4, QueueFace, ExecutorFace, RunnerExitFace DEF ExecutorStep
<1>5. ASSUME NEW i \in Issue, Outage(i) PROVE FaceInv' /\ GraphStep
  BY <1>5, DispatchCutFace, FollowUpCutFace, RunnerExitCutFace DEF Outage
<1>6. ASSUME UNCHANGED <<task, byHand, torn>> PROVE FaceInv' /\ GraphStep
  BY <1>6, FaceSame DEF SameFace
<1>7. FaceInv' /\ GraphStep
  BY <1>2, <1>3, <1>4, <1>5, <1>6 DEF Next, Crash, vars, histVars
<1>8. GraphInv'
  BY <1>1, <1>7, GraphKept DEF TypeInv, TypeOK
<1> QED BY <1>1, <1>7, <1>8

LEMMA BoardAlways == Spec => []BoardInv
BY BoardInit, BoardNext, PTL DEF Spec

\* No sequence of edits makes issues that wait for each other in a circle.
THEOREM NoCircle == Spec => []NoIssueWaitsForItself
<1>1. BoardInv => NoIssueWaitsForItself
  BY DEF BoardInv, GraphInv
<1> QED BY <1>1, BoardAlways, PTL

\* The board shows what the runs of the issues are.
THEOREM BoardIsTrue == Spec => []IssuesShowTheirRuns
<1>1. BoardInv => IssuesShowTheirRuns
  BY FaceIsShown DEF BoardInv
<1> QED BY <1>1, BoardAlways, PTL

\* An issue is dispatched by the step that finds the last of its blockers done.
THEOREM ReadyIsDispatched == Spec => []ReadyWorkIsDispatched
<1>1. BoardInv => ReadyWorkIsDispatched
  BY FaceIsShown DEF BoardInv
<1> QED BY <1>1, BoardAlways, PTL

================================================================================

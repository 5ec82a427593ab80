-------------------------- MODULE IssueSessionProofs --------------------------
(***************************************************************************)
(* IssueWorkflow, continued: the run of an issue and the inputs of its     *)
(* session agree.  A session has one open input, which is the one its run  *)
(* is about, and no input when the run is over; completed work is reopened *)
(* on purpose only, and nothing but a follow-up starts before what blocks  *)
(* it is done.                                                             *)
(***************************************************************************)
EXTENDS IssueWorkflowProofs, IssueWorkflowRefinement, FiniteSetTheorems

--------------------------------------------------------------------------------
(* What a run and its session say of the newest input *)

\* Run and runtime state name the newest input or none, and no other one is open.
Pointed(t) ==
  /\ t.latest = Len(t.rows)
  /\ t.rtInput \in {NoInput, Len(t.rows)}
  /\ t.cur \in {NoInput, Len(t.rows)}
  /\ OpenInputs(t) \subseteq {Len(t.rows)}

NewestTurn(t) == TurnIn(t, Len(t.rows))

\* The newest input is open.
Underway(t) ==
  /\ t.run \in {"queued", "running"} /\ ~t.question
  /\ t.rt \in {"QUEUED", "BUSY", "IDLE"}
  /\ NewestTurn(t) = "none"

\* It is not, having been withdrawn if gone: the run is what the turn says, and a
\* derivation leaves it so.
Over(t, gone) ==
  \/ t.run = "cancelled"
  \/ gone /\ t.run # "completed" /\ NewestTurn(t) \in {"none", "paused"}
  \/ t.run = "failed" /\ NewestTurn(t) = "failed"
  \/ t.run = "waiting_on_user" /\ t.rt # "ERROR" /\ NewestTurn(t) = "waiting_user"
  \/ t.run = "waiting_on_user" /\ t.rt # "ERROR" /\ t.question
       /\ NewestTurn(t) \in {"completed", "asks"}
  \/ t.run = "completed" /\ t.rt = "IDLE" /\ ~t.question /\ NewestTurn(t) = "completed"

\* The issue knows of a run that is alive.
Tied(t) == Live(t) => t.linked \/ t.active

Sound(t, gone) ==
  /\ Pointed(t)
  /\ Len(t.rows) = 0 => t.run \in {"none", "cancelled"}
  /\ Tied(t)
  /\ OpenInputs(t) # {} => Underway(t)
  /\ Len(t.rows) # 0 /\ OpenInputs(t) = {} => Over(t, gone)

\* So it is unless a dispatch or the end of a turn was cut, or a user took the issue
\* away from its run.
SessionInv == \A i \in Issue : torn[i] \/ Sound(task[i], withdrawn[i])

Firm(t) == t.status = "done" /\ t.run = "completed"

\* What a step may do to an issue that goes on.
Advances(t, u) ==
  /\ Len(u.rows) >= Len(t.rows)
  /\ \A gone \in BOOLEAN : Sound(t, gone) =>
       /\ Sound(u, gone)
       /\ Len(u.rows) > Len(t.rows) => Sound(u, FALSE)
       /\ Firm(t) => Firm(u) \/ Len(u.rows) > Len(t.rows)

LEMMA OpenAre ==
  ASSUME NEW t \in Task
  PROVE  /\ Len(t.rows) \in Nat /\ OpenInputs(t) \subseteq 1..Len(t.rows)
         /\ DOMAIN t.rows = 1..Len(t.rows)
BY RowsTyped DEF OpenInputs

LEMMA NewestInput ==
  ASSUME NEW t \in Task, Pointed(t)
  PROVE  CurrentInput(t) = Len(t.rows) /\ LatestInput(t) = Len(t.rows)
BY OpenAre DEF Pointed, CurrentInput, LatestInput, NoInput

LEMMA OpenIsNewest ==
  ASSUME NEW t \in Task, Pointed(t)
  PROVE  OpenInputs(t) # {} <=> StatusIn(t, Len(t.rows)) \in {"QUEUED", "CLAIMED"}
BY OpenAre DEF Pointed, StatusIn, OpenInputs

\* What is derived in each case.
LEMMA DerivedIs ==
  ASSUME NEW t \in Task, NEW gone, Sound(t, gone), t.run # "none"
  PROVE  /\ OpenInputs(t) # {} => Derived(t) \in {"queued", "running"}
         /\ Over(t, gone) => Over([t EXCEPT !.run = Derived(t)], gone)
         /\ t.run \in {"completed", "cancelled"} => Derived(t) = t.run
<1>1. CurrentInput(t) = Len(t.rows) /\ LatestInput(t) = Len(t.rows)
  BY NewestInput DEF Sound
<1>2. ASSUME OpenInputs(t) # {} PROVE Derived(t) \in {"queued", "running"} /\ t.run # "completed"
  <2>1. StatusIn(t, Len(t.rows)) \in {"QUEUED", "CLAIMED"} /\ Underway(t)
    BY <1>2, OpenIsNewest DEF Sound
  <2> QED BY <1>1, <2>1 DEF Derived, Underway, NewestTurn
<1> DEFINE u == [t EXCEPT !.run = Derived(t)]
<1>3. u.run = Derived(t) /\ u.rows = t.rows /\ u.rt = t.rt /\ u.question = t.question
  BY DEF Task
<1>4. NewestTurn(u) = NewestTurn(t)
  BY <1>3 DEF NewestTurn, TurnIn
<1> HIDE DEF u
<1>5. ASSUME Over(t, gone) PROVE Over(u, gone) /\ (t.run = "completed" => Derived(t) = t.run)
  <2>1. CASE t.run = "cancelled"
    BY <1>3, <2>1 DEF Derived, Over
  <2>2. CASE t.run # "cancelled"
    BY <1>1, <1>3, <1>4, <1>5, <2>2 DEF Derived, Over, NewestTurn
  <2> QED BY <2>1, <2>2
<1>6. t.run = "completed" => OpenInputs(t) = {} /\ Over(t, gone)
  BY <1>2 DEF Sound
<1>7. t.run = "cancelled" => Derived(t) = t.run
  BY DEF Derived
<1>8. t.run \in {"completed", "cancelled"} => Derived(t) = t.run
  BY <1>5, <1>6, <1>7
<1>9. Over(t, gone) => Over(u, gone)
  BY <1>5
<1> QED BY <1>2, <1>8, <1>9 DEF u

\* The fields that a read leaves.
LEMMA RefreshedIs ==
  ASSUME NEW t \in Task, t.run # "none"
  PROVE  LET u == Refreshed(t) IN
         /\ u \in Task /\ u.run = Derived(t) /\ u.linked = TRUE
         /\ u.cur = CurrentInput(t) /\ u.latest = LatestInput(t)
         /\ u.rows = t.rows /\ u.rt = t.rt /\ u.rtInput = t.rtInput /\ u.question = t.question
         /\ u.run = "completed" => u.status = "done"
<1> DEFINE w == [t EXCEPT !.run = Derived(t), !.cur = CurrentInput(t), !.latest = LatestInput(t)]
<1>1. Derived(t) \in RunStatus /\ CurrentInput(t) \in Nat /\ LatestInput(t) \in Nat
  BY DerivedTypes, InputTypes
<1>2. /\ w \in Task /\ w.run = Derived(t) /\ w.cur = CurrentInput(t) /\ w.latest = LatestInput(t)
      /\ w.rows = t.rows /\ w.rt = t.rt /\ w.rtInput = t.rtInput /\ w.question = t.question
  BY <1>1 DEF Task, RunStatus
<1>3. Refreshed(t) = Shown(w)
  BY DEF Refreshed
<1> HIDE DEF w
<1>4. Shown(w) \in Task /\ Showing(Shown(w)) /\ Shown(w).run = w.run
  BY <1>2, ShownFacts
<1>5. /\ Shown(w).linked = TRUE /\ Shown(w).cur = w.cur /\ Shown(w).latest = w.latest
      /\ Shown(w).rows = w.rows /\ Shown(w).rt = w.rt /\ Shown(w).rtInput = w.rtInput
      /\ Shown(w).question = w.question
  <2> DEFINE st == CASE w.run = "queued" -> "todo"
                     [] w.run = "running" -> "in_progress"
                     [] w.run \in {"waiting_on_user", "failed"} -> "blocked"
                     [] w.run = "completed" -> "done"
                     [] OTHER -> w.status
  <2>1. Shown(w) = [w EXCEPT !.linked = TRUE, !.active = (w.run = "running"), !.status = st]
    BY <1>2 DEF Shown, Task
  <2> HIDE DEF st
  <2> QED BY <1>2, <2>1 DEF Task
<1> QED BY <1>2, <1>3, <1>4, <1>5 DEF Showing

LEMMA AdvancesSelf == ASSUME NEW t \in Task PROVE Advances(t, t)
<1>1. Len(t.rows) >= Len(t.rows) /\ ~(Len(t.rows) > Len(t.rows))
  BY RowsTyped
<1> QED BY <1>1 DEF Advances

LEMMA AdvancesOn ==
  ASSUME NEW t \in Task, NEW u \in Task, NEW v \in Task, Advances(t, u), Advances(u, v)
  PROVE  Advances(t, v)
<1>1. Len(t.rows) \in Nat /\ Len(u.rows) \in Nat /\ Len(v.rows) \in Nat
  BY RowsTyped
<1>2. Len(v.rows) >= Len(t.rows)
  BY <1>1 DEF Advances
<1>3. ASSUME NEW gone \in BOOLEAN, Sound(t, gone)
      PROVE  /\ Sound(v, gone)
             /\ Len(v.rows) > Len(t.rows) => Sound(v, FALSE)
             /\ Firm(t) => Firm(v) \/ Len(v.rows) > Len(t.rows)
  <2>1. Sound(u, gone) /\ Sound(v, gone)
    BY <1>3 DEF Advances
  <2>2. Len(u.rows) > Len(t.rows) => Sound(u, FALSE)
    BY <1>3 DEF Advances
  <2>3. Len(v.rows) > Len(u.rows) => Sound(v, FALSE)
    BY <2>1 DEF Advances
  <2>4. Sound(u, FALSE) => Sound(v, FALSE)
    BY DEF Advances
  <2>5. Firm(t) => Firm(u) \/ Len(u.rows) > Len(t.rows)
    BY <1>3 DEF Advances
  <2>6. Firm(u) => Firm(v) \/ Len(v.rows) > Len(u.rows)
    BY <2>1 DEF Advances
  <2>7. Len(v.rows) >= Len(u.rows) /\ Len(u.rows) >= Len(t.rows)
    BY DEF Advances
  <2>8. Len(v.rows) > Len(t.rows) <=> Len(v.rows) > Len(u.rows) \/ Len(u.rows) > Len(t.rows)
    BY <1>1, <2>7
  <2> QED BY <2>1, <2>2, <2>3, <2>4, <2>5, <2>6, <2>8, Zenon
<1> QED BY <1>2, <1>3 DEF Advances

\* Reading a run.
LEMMA RefreshedAdvances == ASSUME NEW t \in Task PROVE Advances(t, Refreshed(t))
<1>1. CASE t.run = "none"
  BY <1>1, AdvancesSelf DEF Refreshed
<1>2. CASE t.run # "none"
  <2> DEFINE u == Refreshed(t)
  <2>1. /\ u \in Task /\ u.run = Derived(t) /\ u.linked = TRUE
        /\ u.cur = CurrentInput(t) /\ u.latest = LatestInput(t)
        /\ u.rows = t.rows /\ u.rt = t.rt /\ u.rtInput = t.rtInput /\ u.question = t.question
        /\ u.run = "completed" => u.status = "done"
    BY <1>2, RefreshedIs
  <2> HIDE DEF u
  <2>2. OpenInputs(u) = OpenInputs(t) /\ NewestTurn(u) = NewestTurn(t) /\ Len(t.rows) \in Nat
    BY <2>1, RowsTyped DEF OpenInputs, NewestTurn, TurnIn
  <2>3. ASSUME NEW gone \in BOOLEAN, Sound(t, gone) PROVE Sound(u, gone) /\ (Firm(t) => Firm(u))
    <3>1. /\ OpenInputs(t) # {} => Derived(t) \in {"queued", "running"}
          /\ Over(t, gone) => Over([t EXCEPT !.run = Derived(t)], gone)
          /\ t.run \in {"completed", "cancelled"} => Derived(t) = t.run
      BY <1>2, <2>3, DerivedIs
    <3>2. CurrentInput(t) = Len(t.rows) /\ LatestInput(t) = Len(t.rows)
      BY <2>3, NewestInput DEF Sound
    <3>3. Pointed(u)
      BY <2>1, <2>2, <2>3, <3>2 DEF Pointed, Sound
    <3>4. OpenInputs(u) # {} => Underway(u)
      BY <2>1, <2>2, <2>3, <3>1 DEF Sound, Underway
    <3>5. Over(t, gone) => Over(u, gone)
      <4> DEFINE w == [t EXCEPT !.run = Derived(t)]
      <4>1. w.run = Derived(t) /\ w.rows = t.rows /\ w.rt = t.rt /\ w.question = t.question
        BY DEF Task
      <4>2. NewestTurn(w) = NewestTurn(t)
        BY <4>1 DEF NewestTurn, TurnIn
      <4>3. Over(t, gone) => Over(w, gone)
        BY <3>1
      <4> HIDE DEF w
      <4> QED BY <2>1, <2>2, <4>1, <4>2, <4>3 DEF Over
    <3>6. Firm(t) => Firm(u)
      BY <2>1, <3>1 DEF Firm
    <3>7. Len(u.rows) = 0 => u.run \in {"none", "cancelled"}
      BY <1>2, <2>1, <2>3, <3>1 DEF Sound
    <3>8. Tied(u)
      BY <2>1 DEF Tied
    <3> QED BY <2>1, <2>2, <2>3, <3>3, <3>4, <3>5, <3>6, <3>7, <3>8 DEF Sound
  <2>4. Len(u.rows) >= Len(t.rows) /\ ~(Len(u.rows) > Len(t.rows))
    BY <2>1, <2>2
  <2> QED BY <2>2, <2>3, <2>4 DEF Advances, u
<1> QED BY <1>1, <1>2

\* The fields of an issue that is dispatched.
LEMMA DispatchedIs ==
  ASSUME NEW t \in Task
  PROVE  LET u == Dispatched(t)
             n == Len(t.rows) + 1 IN
         /\ u \in Task /\ u.run = "queued" /\ u.linked = TRUE /\ u.question = FALSE
         /\ u.cur = n /\ u.latest = n /\ u.rt = "QUEUED" /\ u.rtInput = n
         /\ u.rows = Append(t.rows, [status |-> "QUEUED", turn |-> "none"])
<1> DEFINE n == Len(t.rows) + 1
           s == Append(t.rows, [status |-> "QUEUED", turn |-> "none"])
<1>1. s \in Seq(Row)
  BY AppendedRows
<1>2. Enqueued(t) = [t EXCEPT !.run = "queued", !.question = FALSE, !.rows = s]
  BY DEF Enqueued
<1>3. Dispatched(t) = [SetRuntime(Enqueued(t), "QUEUED", n) EXCEPT
        !.cur = n, !.latest = n, !.status = "todo", !.active = FALSE, !.linked = TRUE]
  BY DEF Dispatched
<1>4. Dispatched(t) \in Task
  BY DispatchedFacts DEF Keeps
<1> DEFINE w == [t EXCEPT !.run = "queued", !.question = FALSE, !.rows = s]
           x == [w EXCEPT !.rt = "QUEUED", !.rtInput = n]
<1>5. Dispatched(t) = [x EXCEPT !.cur = n, !.latest = n, !.status = "todo", !.active = FALSE,
                                !.linked = TRUE]
  BY <1>2, <1>3 DEF SetRuntime
<1> HIDE DEF n, s
<1>6. w \in Task /\ w.run = "queued" /\ w.question = FALSE /\ w.rows = s
  BY <1>1 DEF Task
<1> HIDE DEF w
<1>7. /\ x.run = "queued" /\ x.question = FALSE /\ x.rows = s /\ x.rt = "QUEUED"
      /\ x.rtInput = n /\ DOMAIN x = DOMAIN t
  BY <1>6 DEF Task
<1>8. "cur" \in DOMAIN x /\ "latest" \in DOMAIN x /\ "linked" \in DOMAIN x
  BY <1>6 DEF Task
<1> HIDE DEF x
<1> DEFINE u == Dispatched(t)
<1>9. /\ u.run = "queued" /\ u.linked = TRUE /\ u.question = FALSE
      /\ u.cur = n /\ u.latest = n /\ u.rt = "QUEUED" /\ u.rtInput = n /\ u.rows = s
  BY <1>5, <1>7, <1>8
<1> QED BY <1>4, <1>9 DEF n, s

\* A dispatch of an issue that has no open input.
LEMMA DispatchedAdvances ==
  ASSUME NEW t \in Task, \A gone \in BOOLEAN : Sound(t, gone) => OpenInputs(t) = {}
  PROVE  Advances(t, Dispatched(t))
<1> DEFINE u == Dispatched(t)
           n == Len(t.rows) + 1
<1>1. /\ u \in Task /\ u.run = "queued" /\ u.linked = TRUE /\ u.question = FALSE
      /\ u.cur = n /\ u.latest = n /\ u.rt = "QUEUED" /\ u.rtInput = n
      /\ u.rows = Append(t.rows, [status |-> "QUEUED", turn |-> "none"])
  BY DispatchedIs
<1>2. /\ Len(t.rows) \in Nat /\ Len(u.rows) = n /\ DOMAIN u.rows = 1..n
      /\ DOMAIN t.rows = 1..Len(t.rows)
      /\ \A m \in DOMAIN t.rows : u.rows[m] = t.rows[m]
      /\ u.rows[n] = [status |-> "QUEUED", turn |-> "none"]
  BY <1>1, AppendedRows, RowsTyped
<1> HIDE DEF u
<1>3. ASSUME NEW gone \in BOOLEAN, Sound(t, gone) PROVE \A g \in BOOLEAN : Sound(u, g)
  <2>1. OpenInputs(t) = {}
    BY <1>3
  <2>2. OpenInputs(u) = {n}
    BY <1>2, <2>1 DEF OpenInputs
  <2>3. NewestTurn(u) = "none"
    BY <1>2 DEF NewestTurn, TurnIn
  <2>4. Pointed(u) /\ Underway(u)
    BY <1>1, <1>2, <2>2, <2>3 DEF Pointed, Underway
  <2>5. Len(u.rows) # 0 /\ OpenInputs(u) # {} /\ Tied(u)
    BY <1>1, <1>2, <2>2 DEF Tied
  <2> QED BY <1>1, <2>4, <2>5 DEF Sound
<1>4. Len(u.rows) >= Len(t.rows) /\ Len(u.rows) > Len(t.rows)
  BY <1>2
<1> QED BY <1>3, <1>4 DEF Advances, u

\* An issue that is dispatched has none.
LEMMA DispatchableIsOver ==
  ASSUME NEW T \in [Issue -> Task], NEW k \in Issue, Dispatchable(T, k), NEW gone, Sound(T[k], gone)
  PROVE  OpenInputs(T[k]) = {}
BY DEF Dispatchable, Sound, Tied, Underway, Live

\* The runtime state is set to idle.
LEMMA IdleIs ==
  ASSUME NEW t \in Task
  PROVE  LET u == SetRuntime(t, "IDLE", NoInput) IN
         /\ u \in Task /\ u.rt = "IDLE" /\ u.rtInput = NoInput
         /\ u.rows = t.rows /\ u.run = t.run /\ u.cur = t.cur /\ u.latest = t.latest
         /\ u.question = t.question /\ u.linked = t.linked /\ u.active = t.active
         /\ u.status = t.status /\ u.blockedBy = t.blockedBy
BY DEF SetRuntime, Task, NoInput

LEMMA IdleAdvances == ASSUME NEW t \in Task PROVE Advances(t, SetRuntime(t, "IDLE", NoInput))
<1> DEFINE u == SetRuntime(t, "IDLE", NoInput)
<1>1. /\ u \in Task /\ u.rt = "IDLE" /\ u.rtInput = NoInput
      /\ u.rows = t.rows /\ u.run = t.run /\ u.cur = t.cur /\ u.latest = t.latest
      /\ u.question = t.question /\ u.linked = t.linked /\ u.active = t.active
      /\ u.status = t.status
  BY IdleIs
<1> HIDE DEF u
<1>2. OpenInputs(u) = OpenInputs(t) /\ NewestTurn(u) = NewestTurn(t) /\ Len(t.rows) \in Nat
  BY <1>1, RowsTyped DEF OpenInputs, NewestTurn, TurnIn
<1>3. ASSUME NEW gone \in BOOLEAN, Sound(t, gone) PROVE Sound(u, gone)
  <2>1. Pointed(u)
    BY <1>1, <1>2, <1>3 DEF Pointed, Sound
  <2>2. Underway(t) => Underway(u)
    BY <1>1, <1>2 DEF Underway
  <2>3. Over(t, gone) => Over(u, gone)
    BY <1>1, <1>2 DEF Over
  <2>4. Tied(t) => Tied(u)
    BY <1>1 DEF Tied, Live
  <2> QED BY <1>1, <1>2, <1>3, <2>1, <2>2, <2>3, <2>4 DEF Sound
<1>4. Firm(t) => Firm(u)
  BY <1>1 DEF Firm
<1>5. Len(u.rows) >= Len(t.rows) /\ ~(Len(u.rows) > Len(t.rows))
  BY <1>1, <1>2
<1> QED BY <1>3, <1>4, <1>5 DEF Advances, u

\* Such an issue, whose run is live but has no open input, is not completed.
LEMMA IdleIsNotCompleted ==
  ASSUME NEW t \in Task, NEW gone \in BOOLEAN, Sound(t, gone), Live(t), OpenInputs(t) = {}
  PROVE  Refreshed(SetRuntime(t, "IDLE", NoInput)).run # "completed"
<1> DEFINE u == SetRuntime(t, "IDLE", NoInput)
<1>1. /\ u \in Task /\ u.rt = "IDLE" /\ u.rows = t.rows /\ u.run = t.run
      /\ u.question = t.question
  BY IdleIs
<1>2. Sound(u, gone)
  BY IdleAdvances DEF Advances
<1> HIDE DEF u
<1>3. LatestInput(u) = Len(u.rows) /\ u.run # "none"
  BY <1>1, <1>2, NewestInput DEF Sound, Live
<1>4. OpenInputs(u) = {}
  BY <1>1 DEF OpenInputs
<1>5. Over(u, gone)
  BY <1>1, <1>2, <1>4 DEF Sound, Live
<1>6. u.run \in {"queued", "running", "waiting_on_user"}
  BY <1>1 DEF Live
<1>7. Derived(u) # "completed"
  BY <1>1, <1>3, <1>5, <1>6 DEF Derived, Over, NewestTurn
<1> QED BY <1>1, <1>3, <1>7, RefreshedIs DEF u

\* A run is cancelled when it has no open input.
LEMMA CancelledIsSound ==
  ASSUME NEW t \in Task, NEW gone \in BOOLEAN, Sound(t, gone), OpenInputs(t) = {}
  PROVE  \A g \in BOOLEAN : Sound(Cancelled(t), g)
<1> DEFINE w == [t EXCEPT !.run = "cancelled"]
           r == Refreshed(w)
           u == [r EXCEPT !.status = "blocked", !.active = FALSE, !.linked = TRUE]
<1>1. /\ w \in Task /\ w.run = "cancelled" /\ w.rows = t.rows /\ w.rtInput = t.rtInput
      /\ w.cur = t.cur /\ w.latest = t.latest
  BY DEF Task
<1>2. Cancelled(t) = u
  BY DEF Cancelled
<1> HIDE DEF w
<1>3. OpenInputs(w) = {} /\ Pointed(w)
  BY <1>1 DEF OpenInputs, Pointed, Sound
<1>4. /\ r \in Task /\ r.run = "cancelled" /\ r.rows = w.rows /\ r.rtInput = w.rtInput
      /\ r.cur = Len(w.rows) /\ r.latest = Len(w.rows)
  <2>1. Derived(w) = "cancelled"
    BY <1>1 DEF Derived
  <2>2. CurrentInput(w) = Len(w.rows) /\ LatestInput(w) = Len(w.rows) /\ w.run # "none"
    BY <1>1, <1>3, NewestInput
  <2> QED BY <1>1, <2>1, <2>2, RefreshedIs
<1> HIDE DEF r
<1>5. /\ u.run = "cancelled" /\ u.rows = w.rows /\ u.rtInput = w.rtInput /\ u.linked = TRUE
      /\ u.cur = Len(w.rows) /\ u.latest = Len(w.rows)
  BY <1>4 DEF Task
<1> HIDE DEF u
<1>6. OpenInputs(u) = {} /\ Pointed(u)
  BY <1>3, <1>5 DEF OpenInputs, Pointed
<1> QED BY <1>2, <1>5, <1>6 DEF Sound, Tied, Over

--------------------------------------------------------------------------------
(* The newest input changes *)

\* The fields of an issue one row of which is set.
LEMMA SetRowIs ==
  ASSUME NEW t \in Task, NEW n, NEW st \in RowStatus
  PROVE  LET u == SetRow(t, n, st) IN
         /\ u \in Task /\ Len(u.rows) = Len(t.rows)
         /\ u.run = t.run /\ u.question = t.question
         /\ u.linked = t.linked /\ u.active = t.active
         /\ u.cur = t.cur /\ u.latest = t.latest /\ u.rt = t.rt /\ u.rtInput = t.rtInput
         /\ u.status = t.status
         /\ \A m : TurnIn(u, m) = TurnIn(t, m)
         /\ \A m \in DOMAIN t.rows : u.rows[m].status = IF m = n THEN st ELSE t.rows[m].status
<1> DEFINE r == [t.rows[n] EXCEPT !.status = st]
           u == SetRow(t, n, st)
<1>1. u \in Task /\ Len(u.rows) = Len(t.rows)
      /\ \A m \in DOMAIN t.rows : u.rows[m].status = IF m = n THEN st ELSE t.rows[m].status
  BY SetRowFacts DEF OneLike
<1>2. u = [t EXCEPT !.rows = [t.rows EXCEPT ![n] = r]]
  BY DEF SetRow, Task
<1>3. n \in DOMAIN t.rows => r \in Row /\ r.turn = t.rows[n].turn
  BY RowsTyped DEF Row, RowStatus
<1>4. t.rows \in Seq(Row)
  BY RowsTyped
<1> HIDE DEF r, u
<1>5. /\ u.run = t.run /\ u.question = t.question
      /\ u.linked = t.linked /\ u.active = t.active
      /\ u.cur = t.cur /\ u.latest = t.latest /\ u.rt = t.rt /\ u.rtInput = t.rtInput
      /\ u.rows = [t.rows EXCEPT ![n] = r] /\ u.status = t.status
  BY <1>2 DEF Task
<1>6. DOMAIN u.rows = DOMAIN t.rows
      /\ \A m \in DOMAIN t.rows : u.rows[m] = IF m = n THEN r ELSE t.rows[m]
  BY <1>3, <1>4, <1>5, RowReplaced
<1>7. ASSUME NEW m PROVE TurnIn(u, m) = TurnIn(t, m)
  BY <1>3, <1>6 DEF TurnIn
<1> QED BY <1>1, <1>5, <1>7 DEF u

\* The newest input is opened or closed.
LEMMA NewestSet ==
  ASSUME NEW t \in Task, Pointed(t), Len(t.rows) # 0, NEW st \in RowStatus
  PROVE  LET u == SetRow(t, Len(t.rows), st) IN
         /\ Pointed(u) /\ NewestTurn(u) = NewestTurn(t)
         /\ st \in {"QUEUED", "CLAIMED"} => OpenInputs(u) # {}
         /\ st \notin {"QUEUED", "CLAIMED"} => OpenInputs(u) = {}
<1> DEFINE n == Len(t.rows)
           u == SetRow(t, n, st)
<1>1. /\ u \in Task /\ Len(u.rows) = Len(t.rows)
      /\ u.cur = t.cur /\ u.latest = t.latest /\ u.rtInput = t.rtInput
      /\ \A m : TurnIn(u, m) = TurnIn(t, m)
      /\ \A m \in DOMAIN t.rows : u.rows[m].status = IF m = n THEN st ELSE t.rows[m].status
  BY SetRowIs
<1>2. DOMAIN t.rows = 1..n /\ DOMAIN u.rows = 1..n /\ n \in Nat /\ n \in 1..n
  BY <1>1, OpenAre
<1> HIDE DEF u, n
<1>3. n = Len(t.rows)
  BY DEF n
<1>4. \A m \in 1..n : m # n => t.rows[m].status \notin {"QUEUED", "CLAIMED"}
  BY <1>2, <1>3 DEF Pointed, OpenInputs
<1>5. OpenInputs(u) = IF st \in {"QUEUED", "CLAIMED"} THEN {n} ELSE {}
  BY <1>1, <1>2, <1>4 DEF OpenInputs
<1>6. Pointed(u) /\ NewestTurn(u) = NewestTurn(t)
  BY <1>1, <1>3, <1>5 DEF Pointed, NewestTurn
<1> QED BY <1>3, <1>5, <1>6 DEF u

\* What is left of an issue whose open input gets the status st.
Left(t, u, st, gone) ==
  /\ u \in Task /\ Len(u.rows) = Len(t.rows) /\ u.status = t.status
  /\ st \notin {"QUEUED", "CLAIMED"} => Sound(u, TRUE)
  /\ st \in {"QUEUED", "CLAIMED"} => Sound(u, gone)

\* The same, with what becomes of the runtime state.
LEMMA NewestReset ==
  ASSUME NEW t \in Task, NEW gone, Sound(t, gone), NEW n, n \in OpenInputs(t),
         NEW st \in RowStatus, NEW rt \in RuntimeStatus,
         st \in {"QUEUED", "CLAIMED"} => rt \in {"QUEUED", "BUSY", "IDLE"}
  PROVE  /\ n = Len(t.rows)
         /\ Left(t, SetRow(t, n, st), st, gone)
         /\ Left(t, SetRuntime(SetRow(t, n, st), rt, NoInput), st, gone)
<1> DEFINE w == SetRow(t, n, st)
<1>1. n = Len(t.rows) /\ n # 0 /\ Pointed(t) /\ Underway(t) /\ Tied(t)
  BY OpenAre DEF Sound, Pointed
<1>2. /\ w \in Task /\ Len(w.rows) = Len(t.rows)
      /\ w.run = t.run /\ w.question = t.question
      /\ w.linked = t.linked /\ w.active = t.active
      /\ w.rt = t.rt /\ w.status = t.status
  BY SetRowIs
<1>3. /\ Pointed(w) /\ NewestTurn(w) = NewestTurn(t)
      /\ st \in {"QUEUED", "CLAIMED"} => OpenInputs(w) # {}
      /\ st \notin {"QUEUED", "CLAIMED"} => OpenInputs(w) = {}
  BY <1>1, NewestSet
<1> HIDE DEF w
<1>4. ASSUME NEW u \in {w, SetRuntime(w, rt, NoInput)} PROVE Left(t, u, st, gone)
  <2>1. /\ u \in Task /\ u.rows = w.rows /\ u.run = w.run /\ u.question = w.question
        /\ u.linked = w.linked /\ u.active = w.active
        /\ u.cur = w.cur /\ u.latest = w.latest /\ u.status = w.status
        /\ u.rt \in {w.rt, rt} /\ u.rtInput \in {w.rtInput, NoInput}
    <3>1. CASE u = w
      BY <1>2, <3>1
    <3>2. CASE u = SetRuntime(w, rt, NoInput)
      BY <1>2, <3>2 DEF SetRuntime, Task, NoInput, RuntimeStatus
    <3> QED BY <3>1, <3>2
  <2>2. OpenInputs(u) = OpenInputs(w) /\ NewestTurn(u) = NewestTurn(w)
    BY <2>1 DEF OpenInputs, NewestTurn, TurnIn
  <2>3. Pointed(u) /\ Tied(u)
    BY <1>1, <1>2, <1>3, <2>1, <2>2 DEF Pointed, Tied, Live
  <2>4. st \notin {"QUEUED", "CLAIMED"} => Sound(u, TRUE)
    BY <1>1, <1>2, <1>3, <2>1, <2>2, <2>3 DEF Sound, Over, Underway
  <2>5. st \in {"QUEUED", "CLAIMED"} => Sound(u, gone)
    BY <1>1, <1>2, <1>3, <2>1, <2>2, <2>3 DEF Sound, Underway
  <2> QED BY <1>2, <2>1, <2>4, <2>5 DEF Left
<1> QED BY <1>1, <1>4 DEF w

LEMMA NewestDone ==
  ASSUME NEW t \in Task, NEW gone, Sound(t, gone), NEW n, n \in OpenInputs(t)
  PROVE  OpenInputs(SetRow(t, n, "DONE")) = {} /\ Sound(SetRow(t, n, "DONE"), TRUE)
<1>1. "DONE" \in RowStatus /\ "IDLE" \in RuntimeStatus
  BY DEF RowStatus, RuntimeStatus
<1>2. n = Len(t.rows) /\ Left(t, SetRow(t, n, "DONE"), "DONE", gone)
  BY <1>1, NewestReset
<1>3. Len(t.rows) # 0 /\ Pointed(t)
  BY <1>2, OpenAre DEF Sound
<1>4. OpenInputs(SetRow(t, Len(t.rows), "DONE")) = {}
  <2> DEFINE st == "DONE"
  <2>1. st \in RowStatus /\ st \notin {"QUEUED", "CLAIMED"}
    BY <1>1
  <2> HIDE DEF st
  <2>2. OpenInputs(SetRow(t, Len(t.rows), st)) = {}
    BY <1>3, <2>1, NewestSet
  <2> QED BY <2>2 DEF st
<1> QED BY <1>2, <1>4 DEF Left

\* The turn result of the newest input is written.
LEMMA SetTurnIs ==
  ASSUME NEW t \in Task, NEW v \in Turn, Len(t.rows) # 0,
         NEW u, u = [t EXCEPT !.rows[Len(t.rows)].turn = v]
  PROVE  /\ u \in Task /\ Len(u.rows) = Len(t.rows)
         /\ u.run = t.run /\ u.question = t.question
         /\ u.linked = t.linked /\ u.active = t.active
         /\ u.cur = t.cur /\ u.latest = t.latest /\ u.rt = t.rt /\ u.rtInput = t.rtInput
         /\ OpenInputs(u) = OpenInputs(t) /\ NewestTurn(u) = v
<1> DEFINE n == Len(t.rows)
           r == [t.rows[n] EXCEPT !.turn = v]
           s == [t.rows EXCEPT ![n] = r]
<1>1. n \in DOMAIN t.rows /\ t.rows \in Seq(Row) /\ n \in Nat
  BY RowsTyped
<1>2. r \in Row /\ r.turn = v /\ r.status = t.rows[n].status
  BY <1>1, RowsTyped DEF Row, Turn
<1>3. u = [t EXCEPT !.rows = s]
  BY DEF Task
<1> HIDE DEF r
<1>4. /\ s \in Seq(Row) /\ DOMAIN s = DOMAIN t.rows /\ Len(s) = n /\ s[n] = r
      /\ \A m \in DOMAIN s : s[m].status = t.rows[m].status
  BY <1>1, <1>2, RowReplaced
<1> HIDE DEF s, n
<1>5. /\ u \in Task /\ u.rows = s
      /\ u.run = t.run /\ u.question = t.question
      /\ u.linked = t.linked /\ u.active = t.active
      /\ u.cur = t.cur /\ u.latest = t.latest /\ u.rt = t.rt /\ u.rtInput = t.rtInput
  BY <1>3, <1>4 DEF Task
<1>6. OpenInputs(u) = OpenInputs(t) /\ NewestTurn(u) = v
  BY <1>1, <1>2, <1>4, <1>5 DEF OpenInputs, NewestTurn, TurnIn
<1> QED BY <1>4, <1>5, <1>6 DEF n

\* A queued input is paused.
LEMMA PausedIsSound ==
  ASSUME NEW t \in Task, NEW gone, Sound(t, gone), StatusIn(t, t.rtInput) = "QUEUED"
  PROVE  Sound(PausedInQueue(t), TRUE)
<1> DEFINE n == t.rtInput
           w == SetRow(t, n, "PAUSED")
           x == [w EXCEPT !.rows[n].turn = "paused"]
           u == SetRuntime(x, "PAUSED", NoInput)
<1>1. n \in OpenInputs(t) /\ "PAUSED" \in RowStatus /\ "IDLE" \in RuntimeStatus
  BY DEF StatusIn, OpenInputs, RowStatus, RuntimeStatus
<1>2. n = Len(t.rows) /\ w \in Task /\ Len(w.rows) = Len(t.rows) /\ Sound(w, TRUE)
  <2>1. n = Len(t.rows) /\ Left(t, w, "PAUSED", gone)
    BY <1>1, NewestReset
  <2> QED BY <2>1 DEF Left
<1>3. OpenInputs(w) = {} /\ n # 0 /\ w.run \in {"queued", "running"}
  <2>1. n # 0 /\ n \in Nat /\ Pointed(t) /\ t.run \in {"queued", "running"}
    BY <1>1, <1>2, OpenAre DEF Sound, Underway
  <2>2. w.run = t.run
    BY <1>1, SetRowIs
  <2>3. OpenInputs(SetRow(t, Len(t.rows), "PAUSED")) = {}
    BY <1>1, <1>2, <2>1, NewestSet
  <2> QED BY <1>2, <2>1, <2>2, <2>3
<1>4. PausedInQueue(t) = u
  BY DEF PausedInQueue
<1> HIDE DEF w
<1>5. /\ x \in Task /\ Len(x.rows) = Len(w.rows) /\ x.run = w.run
      /\ x.linked = w.linked /\ x.active = w.active
      /\ x.cur = w.cur /\ x.latest = w.latest
      /\ OpenInputs(x) = OpenInputs(w) /\ NewestTurn(x) = "paused"
  <2>1. x = [w EXCEPT !.rows[Len(w.rows)].turn = "paused"] /\ Len(w.rows) # 0
    BY <1>2, <1>3
  <2>2. "paused" \in Turn
    BY DEF Turn
  <2> HIDE DEF x
  <2> QED BY <1>2, <2>1, <2>2, SetTurnIs
<1> HIDE DEF x
<1>6. /\ u.rows = x.rows /\ u.run = x.run /\ u.linked = x.linked /\ u.active = x.active
      /\ u.cur = x.cur /\ u.latest = x.latest /\ u.rtInput = NoInput
  BY <1>5 DEF SetRuntime, Task
<1> HIDE DEF u
<1>7. OpenInputs(u) = {} /\ NewestTurn(u) = "paused"
  BY <1>3, <1>5, <1>6 DEF OpenInputs, NewestTurn, TurnIn
<1>8. Pointed(u) /\ Tied(u)
  BY <1>2, <1>5, <1>6, <1>7 DEF Sound, Pointed, Tied, Live
<1> QED BY <1>2, <1>3, <1>4, <1>5, <1>6, <1>7, <1>8 DEF Sound, Over

\* A turn ends and the run is told.
LEMMA EndedIsSound ==
  ASSUME NEW t \in Task, NEW gone, Sound(t, gone), NEW n, n \in OpenInputs(t), NEW v \in Turn
  PROVE  Sound(Ended(t, n, v, 4), gone) /\ ~Firm(t)
<1> DEFINE row == SetRow(t, n, RowStatusOf(v))
           runtime == SetRuntime(row, RuntimeStatusOf(v), NoInput)
           turn == [runtime EXCEPT !.rows[n].turn = v]
           run == Reported(turn, n, v)
<1>1. Ended(t, n, v, 4) = run
  BY DEF Ended
<1>2. RowStatusOf(v) \in RowStatus \ {"QUEUED", "CLAIMED"} /\ RuntimeStatusOf(v) \in RuntimeStatus
  BY VerdictTypes DEF Turn, RowStatusOf
<1>3. n = Len(t.rows) /\ Left(t, runtime, RowStatusOf(v), gone) /\ n # 0 /\ Underway(t) /\ n \in Nat
  <2> DEFINE st == RowStatusOf(v)
             rt == RuntimeStatusOf(v)
  <2>1. st \in RowStatus /\ st \notin {"QUEUED", "CLAIMED"} /\ rt \in RuntimeStatus
    BY <1>2
  <2> HIDE DEF st, rt
  <2>2. n = Len(t.rows) /\ Left(t, SetRuntime(SetRow(t, n, st), rt, NoInput), st, gone)
    BY <2>1, NewestReset
  <2>3. n # 0 /\ n \in Nat /\ OpenInputs(t) # {}
    BY OpenAre
  <2> QED BY <2>2, <2>3 DEF Sound, st, rt
<1>4. runtime \in Task /\ Sound(runtime, TRUE) /\ Len(runtime.rows) = n
  BY <1>2, <1>3 DEF Left
<1>5. /\ runtime.rt = RuntimeStatusOf(v) /\ runtime.run = t.run /\ runtime.rtInput = NoInput
      /\ OpenInputs(runtime) = {}
  <2>1. row \in Task /\ row.run = t.run
    BY <1>2, SetRowIs
  <2>2. OpenInputs(row) = {}
    BY <1>2, <1>3, NewestSet DEF Sound
  <2> HIDE DEF row
  <2> QED BY <2>1, <2>2 DEF SetRuntime, Task, OpenInputs
<1> HIDE DEF runtime
<1>6. /\ turn \in Task /\ Len(turn.rows) = n /\ turn.run = t.run /\ (turn.linked \/ turn.active)
      /\ turn.rt = RuntimeStatusOf(v) /\ turn.rtInput = NoInput
      /\ OpenInputs(turn) = {} /\ NewestTurn(turn) = v
  <2>1. turn = [runtime EXCEPT !.rows[Len(runtime.rows)].turn = v] /\ Len(runtime.rows) # 0
    BY <1>3, <1>4
  <2> HIDE DEF turn
  <2>2. runtime.linked \/ runtime.active
    BY <1>3, <1>4, <1>5 DEF Sound, Tied, Live, Underway
  <2> QED BY <1>3, <1>4, <1>5, <2>1, <2>2, SetTurnIs
<1> HIDE DEF turn
<1> DEFINE st == IF v = "paused" THEN "cancelled"
                 ELSE IF v \in {"asks", "waiting_user"} THEN "waiting_on_user" ELSE v
<1>7. run = [turn EXCEPT !.run = st, !.latest = n, !.question = (st = "waiting_on_user"),
                         !.cur = IF st = "waiting_on_user" THEN n ELSE NoInput]
  BY <1>3, <1>6 DEF Reported, Underway
<1> HIDE DEF run, st
<1>8. /\ run.run = st /\ run.latest = n /\ run.question = (st = "waiting_on_user")
      /\ run.cur \in {n, NoInput} /\ run.rows = turn.rows /\ (run.linked \/ run.active)
      /\ run.rt = RuntimeStatusOf(v) /\ run.rtInput = NoInput
  BY <1>6, <1>7 DEF Task
<1>9. OpenInputs(run) = {} /\ NewestTurn(run) = v /\ Len(run.rows) = n
  BY <1>6, <1>8 DEF OpenInputs, NewestTurn, TurnIn
<1>10. Pointed(run)
  BY <1>8, <1>9 DEF Pointed
<1>11. Over(run, gone)
  BY <1>8, <1>9 DEF Over, Turn, RuntimeStatusOf, st
<1>12. Sound(run, gone)
  BY <1>3, <1>8, <1>9, <1>10, <1>11 DEF Sound, Tied
<1> QED BY <1>1, <1>3, <1>12 DEF Firm, Underway

--------------------------------------------------------------------------------
(* What a read does to all issues *)

\* An issue that has been read and is completed is so when it is read again.
LEMMA RefreshedAgain ==
  ASSUME NEW t \in Task, t.run # "none", Refreshed(t).run = "completed"
  PROVE  /\ Refreshed(t).status = "done"
         /\ Refreshed(Refreshed(t)).run = "completed" /\ Refreshed(Refreshed(t)).status = "done"
<1> DEFINE u == Refreshed(t)
<1>1. /\ u \in Task /\ u.run = Derived(t)
      /\ u.cur = CurrentInput(t) /\ u.latest = LatestInput(t)
      /\ u.rows = t.rows /\ u.rt = t.rt /\ u.rtInput = t.rtInput /\ u.question = t.question
      /\ u.run = "completed" => u.status = "done"
  BY RefreshedIs
<1>2. u.run = "completed"
  OBVIOUS
<1> HIDE DEF u
<1>3. CurrentInput(u) = CurrentInput(t) /\ LatestInput(u) = LatestInput(t)
  BY <1>1 DEF CurrentInput, LatestInput, NoInput
<1>4. \A n : TurnIn(u, n) = TurnIn(t, n) /\ StatusIn(u, n) = StatusIn(t, n)
  BY <1>1 DEF TurnIn, StatusIn
<1>5. Derived(u) = "completed"
  <2>1. Derived(t) = "completed"
    BY <1>1, <1>2
  <2> QED BY <1>1, <1>2, <1>3, <1>4, <2>1 DEF Derived
<1>6. Refreshed(u).run = "completed" /\ Refreshed(u).status = "done"
  BY <1>1, <1>2, <1>5, RefreshedIs
<1> QED BY <1>1, <1>2, <1>6 DEF u

LEMMA SyncedAdvances ==
  ASSUME NEW T \in [Issue -> Task], NEW S, NEW j \in Issue
  PROVE  Synced(T, S)[j] \in Task /\ Advances(T[j], Synced(T, S)[j])
<1> DEFINE seen == [k \in Issue |-> IF k \in S THEN Refreshed(T[k]) ELSE T[k]]
           done == {k \in S : seen[k].run = "completed" /\ T[k].status # "done"}
           next == ReadyDownstream(seen, done)
           quoted == {b \in UNION {T[k].blockedBy : k \in next} : seen[b].linked}
<1>1. Synced(T, S)[j] = IF j \in next THEN Dispatched(seen[j])
                        ELSE IF j \in quoted THEN Refreshed(seen[j]) ELSE seen[j]
  BY DEF Synced
<1>2. \A k \in Issue : seen[k] \in {T[k], Refreshed(T[k])} /\ seen[k] \in Task
  BY RefreshedFacts DEF Keeps
<1>3. seen \in [Issue -> Task]
  BY <1>2
<1>4. j \in next => Dispatchable(seen, j)
  BY DEF ReadyDownstream
<1> HIDE DEF seen, done, next, quoted
<1>5. Advances(T[j], seen[j])
  BY <1>2, AdvancesSelf, RefreshedAdvances
<1>6. j \in next => Advances(seen[j], Dispatched(seen[j])) /\ Dispatched(seen[j]) \in Task
  <2> SUFFICES ASSUME j \in next
               PROVE  Advances(seen[j], Dispatched(seen[j])) /\ Dispatched(seen[j]) \in Task
    OBVIOUS
  <2>1. \A gone \in BOOLEAN : Sound(seen[j], gone) => OpenInputs(seen[j]) = {}
    BY <1>3, <1>4, DispatchableIsOver
  <2> QED BY <1>2, <2>1, DispatchedAdvances, DispatchedIs
<1>7. Refreshed(seen[j]) \in Task /\ Advances(seen[j], Refreshed(seen[j]))
  BY <1>2, RefreshedFacts, RefreshedAdvances DEF Keeps
<1>8. Synced(T, S)[j] \in Task /\ Advances(seen[j], Synced(T, S)[j])
  BY <1>1, <1>2, <1>6, <1>7, AdvancesSelf
<1> QED BY <1>2, <1>5, <1>8, AdvancesOn

\* An issue that is dispatched by a read has blockers that were done, or became
\* done by it.
LEMMA SyncedReady ==
  ASSUME NEW T \in [Issue -> Task], NEW S, NEW k \in Issue,
         Len(Synced(T, S)[k].rows) > Len(T[k].rows),
         NEW b \in T[k].blockedBy
  PROVE  T[b].status = "done" \/ (b \in S /\ Synced(T, S)[b].status = "done")
<1> DEFINE seen == [j \in Issue |-> IF j \in S THEN Refreshed(T[j]) ELSE T[j]]
           done == {j \in S : seen[j].run = "completed" /\ T[j].status # "done"}
           next == ReadyDownstream(seen, done)
           quoted == {c \in UNION {T[j].blockedBy : j \in next} : seen[c].linked}
           U == Synced(T, S)
<1>1. \A j \in Issue : U[j] = IF j \in next THEN Dispatched(seen[j])
                             ELSE IF j \in quoted THEN Refreshed(seen[j]) ELSE seen[j]
  BY DEF Synced
<1>2. \A j \in Issue : /\ seen[j] \in Task /\ seen[j].rows = T[j].rows
                       /\ seen[j].blockedBy = T[j].blockedBy
                       /\ seen[j] = T[j] \/ (j \in S /\ seen[j] = Refreshed(T[j]))
                       /\ T[j].status # "done" /\ seen[j].status = "done"
                            => seen[j].run = "completed"
                       /\ Refreshed(seen[j]).rows = T[j].rows
  BY RefreshedFacts DEF Keeps
<1>3. \A j \in next : seen[j].status = "todo" /\ BlockersDone(seen, j)
  BY DEF ReadyDownstream, Dispatchable
<1>4. Len(U[k].rows) > Len(T[k].rows) /\ Len(T[k].rows) \in Nat /\ b \in Issue
  BY RowsTyped DEF Task
<1> HIDE DEF seen, done, next, quoted, U
<1>5. k \in next
  BY <1>1, <1>2, <1>4
<1>6. seen[b].status = "done" /\ b \notin next
  BY <1>2, <1>3, <1>5 DEF BlockersDone
<1>7. CASE seen[b] = T[b]
  BY <1>6, <1>7
<1>8. CASE b \in S /\ seen[b] = Refreshed(T[b]) /\ T[b].status # "done"
  <2>1. Refreshed(T[b]).run = "completed" /\ T[b].run # "none"
    BY <1>2, <1>4, <1>6, <1>8, RefreshedFacts
  <2>2. U[b].status = "done"
    BY <1>1, <1>4, <1>6, <1>8, <2>1, RefreshedAgain
  <2> QED BY <1>8, <2>2 DEF U
<1> QED BY <1>2, <1>4, <1>7, <1>8

\* A read that finds no completed run dispatches nothing.
LEMMA SyncedQuiet ==
  ASSUME NEW T \in [Issue -> Task], NEW i \in Issue, Refreshed(T[i]).run # "completed",
         NEW j \in Issue
  PROVE  Synced(T, {i})[j] = IF j = i THEN Refreshed(T[i]) ELSE T[j]
<1> DEFINE seen == [k \in Issue |-> IF k \in {i} THEN Refreshed(T[k]) ELSE T[k]]
           done == {k \in {i} : seen[k].run = "completed" /\ T[k].status # "done"}
           next == ReadyDownstream(seen, done)
           quoted == {b \in UNION {T[k].blockedBy : k \in next} : seen[b].linked}
<1>1. Synced(T, {i})[j] = IF j \in next THEN Dispatched(seen[j])
                          ELSE IF j \in quoted THEN Refreshed(seen[j]) ELSE seen[j]
  BY DEF Synced
<1>2. done = {}
  OBVIOUS
<1>3. seen[j] = IF j = i THEN Refreshed(T[i]) ELSE T[j]
  OBVIOUS
<1> HIDE DEF seen, done
<1>4. next = {}
  BY <1>2 DEF ReadyDownstream
<1>5. UNION {T[k].blockedBy : k \in next} = {}
  BY <1>4
<1> HIDE DEF next
<1>6. quoted = {}
  BY <1>5
<1> QED BY <1>1, <1>3, <1>4, <1>6

\* A run that is live after it was read has not been completed by that.
LEMMA SyncedLive ==
  ASSUME NEW T \in [Issue -> Task], NEW i \in Issue, i \notin T[i].blockedBy,
         Live(Synced(T, {i})[i])
  PROVE  /\ Refreshed(T[i]).run # "completed" /\ T[i].run # "none"
         /\ Refreshed(T[i]).status # "done" /\ Live(Refreshed(T[i]))
<1> DEFINE seen == [k \in Issue |-> IF k \in {i} THEN Refreshed(T[k]) ELSE T[k]]
           done == {k \in {i} : seen[k].run = "completed" /\ T[k].status # "done"}
           next == ReadyDownstream(seen, done)
           quoted == {b \in UNION {T[k].blockedBy : k \in next} : seen[b].linked}
<1>1. Synced(T, {i})[i] = IF i \in next THEN Dispatched(seen[i])
                          ELSE IF i \in quoted THEN Refreshed(seen[i]) ELSE seen[i]
  BY DEF Synced
<1>2. seen[i] = Refreshed(T[i]) /\ T[i] \in Task
  OBVIOUS
<1>3. seen[i].blockedBy = T[i].blockedBy
  BY <1>2, RefreshedFacts DEF Keeps
<1>4. done \subseteq {i}
  OBVIOUS
<1> HIDE DEF seen, done
<1>5. i \notin next
  BY <1>3, <1>4 DEF ReadyDownstream
<1> HIDE DEF next, quoted
<1>6. Synced(T, {i})[i] \in {Refreshed(T[i]), Refreshed(Refreshed(T[i]))}
  BY <1>1, <1>2, <1>5
<1>7. T[i].run # "none"
  BY <1>2, <1>6, RefreshedFacts DEF Live
<1>8. Refreshed(T[i]).run # "completed"
  BY <1>2, <1>6, <1>7, RefreshedAgain DEF Live
<1>9. Synced(T, {i})[i] = Refreshed(T[i])
  BY <1>8, SyncedQuiet
<1>10. Live(Refreshed(T[i]))
  BY <1>9
<1>11. Showing(Refreshed(T[i]))
  BY <1>2, <1>7, RefreshedFacts
<1> QED BY <1>7, <1>8, <1>10, <1>11 DEF Live, Showing

\* An issue whose blockers are done is not dispatched by a read of some of these.
LEMMA SyncedUnblocked ==
  ASSUME NEW T \in [Issue -> Task], NEW i \in Issue, BlockersDone(T, i), i \notin T[i].blockedBy,
         NEW S, S \subseteq T[i].blockedBy
  PROVE  Synced(T, S)[i].rows = T[i].rows
<1> DEFINE seen == [k \in Issue |-> IF k \in S THEN Refreshed(T[k]) ELSE T[k]]
           done == {k \in S : seen[k].run = "completed" /\ T[k].status # "done"}
           next == ReadyDownstream(seen, done)
           quoted == {b \in UNION {T[k].blockedBy : k \in next} : seen[b].linked}
<1>1. Synced(T, S)[i] = IF i \in next THEN Dispatched(seen[i])
                        ELSE IF i \in quoted THEN Refreshed(seen[i]) ELSE seen[i]
  BY DEF Synced
<1>2. seen[i] = T[i] /\ T[i] \in Task
  OBVIOUS
<1>3. done = {}
  BY DEF BlockersDone
<1> HIDE DEF seen, done
<1>4. i \notin next
  BY <1>3 DEF ReadyDownstream
<1> HIDE DEF next, quoted
<1> QED BY <1>1, <1>2, <1>4, RefreshedFacts

--------------------------------------------------------------------------------
(* The steps *)

\* The step that CompletedWorkStaysDone allows, and NothingStartsBeforeItsBlockers.
DoneStep ==
  \A i \in Issue :
    task[i].status = "done" /\ task[i].run = "completed" /\ task'[i].status # "done" =>
      \/ byHand'[i] \/ torn[i]
      \/ NewWork(i)
      \/ task'[i].run = "cancelled" /\ cancelling[i]

ReadyStep ==
  \A i \in Issue : NewWork(i) /\ i \notin followed' \ followed =>
    \A b \in task'[i].blockedBy :
      \/ "done" \in {task[b].status, task'[b].status}
      \/ cancelling[b] /\ task'[b].run = "cancelled"
      \/ b \in followed' \ followed
      \/ torn[b]

\* The invariant of one issue after a step of all tasks.
LEMMA SoundNext ==
  ASSUME TypeInv, NEW T, NEW hand, SetTasks(T, hand), NEW j \in Issue,
         Sound(T[j], withdrawn[j]), Len(T[j].rows) > Len(task[j].rows) => Sound(T[j], FALSE)
  PROVE  Sound(task'[j], withdrawn'[j])
<1>1. task' = T /\ withdrawn'[j] = (withdrawn[j] /\ ~NewWork(j))
  BY DEF SetTasks
<1>2. CASE NewWork(j)
  <2>1. withdrawn'[j] = FALSE
    BY <1>1, <1>2
  <2> QED BY <1>1, <1>2, <2>1 DEF NewWork
<1>3. CASE ~NewWork(j)
  <2>1. withdrawn'[j] = withdrawn[j]
    BY <1>1, <1>3 DEF TypeInv, TypeOK
  <2> QED BY <1>1, <2>1
<1> QED BY <1>2, <1>3

\* An issue that goes on.
LEMMA AdvancedNext ==
  ASSUME TypeInv, SessionInv, NEW T, NEW hand, SetTasks(T, hand), NEW j \in Issue,
         Advances(task[j], T[j]), ~torn[j]
  PROVE  /\ Sound(task'[j], withdrawn'[j])
         /\ Firm(task[j]) => Firm(task'[j]) \/ NewWork(j)
<1>1. Sound(task[j], withdrawn[j]) /\ withdrawn[j] \in BOOLEAN
  BY DEF SessionInv, TypeInv, TypeOK
<1>2. /\ Sound(T[j], withdrawn[j])
      /\ Len(T[j].rows) > Len(task[j].rows) => Sound(T[j], FALSE)
      /\ Firm(task[j]) => Firm(T[j]) \/ Len(T[j].rows) > Len(task[j].rows)
  BY <1>1 DEF Advances
<1>3. task' = T
  BY DEF SetTasks
<1> QED BY <1>2, <1>3, SoundNext DEF NewWork

\* All issues but one go on.
LEMMA OthersAdvance ==
  ASSUME TypeInv, SessionInv, NEW T, NEW hand, SetTasks(T, hand), NEW i \in Issue,
         \A j \in Issue : torn[j] => torn'[j],
         \A j \in Issue : j # i => Advances(task[j], T[j]),
         torn'[i] \/ Sound(task'[i], withdrawn'[i]),
         Firm(task[i]) =>
           \/ task'[i].status = "done" \/ byHand'[i] \/ torn[i] \/ NewWork(i)
           \/ task'[i].run = "cancelled" /\ cancelling[i]
  PROVE  SessionInv' /\ DoneStep
<1>1. ASSUME NEW j \in Issue, j # i
      PROVE  /\ torn'[j] \/ Sound(task'[j], withdrawn'[j])
             /\ torn[j] \/ (Firm(task[j]) => task'[j].status = "done" \/ NewWork(j))
  BY <1>1, AdvancedNext DEF Firm
<1>2. \A j \in Issue : torn'[j] \/ Sound(task'[j], withdrawn'[j])
  BY <1>1
<1>3. DoneStep
  BY <1>1 DEF DoneStep, Firm
<1> QED BY <1>2, <1>3 DEF SessionInv

LEMMA AllAdvance ==
  ASSUME TypeInv, SessionInv, NEW T, NEW hand, SetTasks(T, hand), UNCHANGED torn,
         \A j \in Issue : Advances(task[j], T[j])
  PROVE  SessionInv' /\ DoneStep
<1>1. ASSUME NEW j \in Issue
      PROVE  /\ torn'[j] \/ Sound(task'[j], withdrawn'[j])
             /\ torn[j] \/ (Firm(task[j]) => task'[j].status = "done" \/ NewWork(j))
  BY <1>1, AdvancedNext DEF Firm
<1>2. \A j \in Issue : torn'[j] \/ Sound(task'[j], withdrawn'[j])
  BY <1>1
<1>3. DoneStep
  BY <1>1 DEF DoneStep, Firm
<1> QED BY <1>2, <1>3 DEF SessionInv

\* One issue changes, and gets no input.
LEMMA OneStep ==
  ASSUME TypeInv, SessionInv, NEW i \in Issue, NEW t \in Task, task' = With(i, t),
         Len(t.rows) = Len(task[i].rows), t.status = task[i].status,
         UNCHANGED torn,
         \A j \in Issue : j # i => withdrawn'[j] = withdrawn[j],
         ~torn[i] => Sound(t, withdrawn'[i])
  PROVE  SessionInv' /\ DoneStep /\ ReadyStep
<1>1. task' \in [Issue -> Task] /\ task'[i] = t /\ \A j \in Issue : j # i => task'[j] = task[j]
  BY DEF With, TypeInv, TypeOK
<1>2. \A j \in Issue : torn'[j] \/ Sound(task'[j], withdrawn'[j])
  BY <1>1 DEF SessionInv
<1>3. \A j \in Issue : ~NewWork(j)
  BY <1>1, TaskTyped, RowsTyped DEF NewWork
<1>4. DoneStep
  BY <1>1 DEF DoneStep
<1>5. ReadyStep
  BY <1>3 DEF ReadyStep
<1> QED BY <1>2, <1>4, <1>5 DEF SessionInv

\* An issue does not block itself.
LEMMA OwnBlockers == ASSUME GraphInv, NEW i \in Issue PROVE i \notin task[i].blockedBy
BY DEF GraphInv, NoIssueWaitsForItself, Upstream

\* Status and blockers are nothing to the session.
LEMMA BoardOnly ==
  ASSUME NEW t \in Task, NEW u \in Task, NEW gone,
         u.rows = t.rows, u.latest = t.latest, u.cur = t.cur, u.rt = t.rt, u.rtInput = t.rtInput,
         u.question = t.question, u.run = t.run, Tied(u)
  PROVE  Sound(t, gone) => Sound(u, gone)
<1>1. OpenInputs(u) = OpenInputs(t) /\ NewestTurn(u) = NewestTurn(t)
  BY DEF OpenInputs, NewestTurn, TurnIn
<1> QED BY <1>1 DEF Sound, Pointed, Underway, Over

LEMMA DispatchIfReadyAdvances ==
  ASSUME NEW T \in [Issue -> Task], NEW i \in Issue
  PROVE  /\ DispatchIfReady(T, i) \in [Issue -> Task]
         /\ \A j \in Issue : j # i => DispatchIfReady(T, i)[j] = T[j]
         /\ Advances(T[i], DispatchIfReady(T, i)[i])
         /\ Len(DispatchIfReady(T, i)[i].rows) > Len(T[i].rows) => BlockersDone(T, i)
         /\ DispatchIfReady(T, i)[i].blockedBy = T[i].blockedBy
<1> DEFINE u == Dispatched(T[i])
           U == DispatchIfReady(T, i)
<1>1. T[i] \in Task /\ u \in Task /\ u.blockedBy = T[i].blockedBy
  BY DispatchedFacts DEF Keeps
<1>2. CASE Dispatchable(T, i) /\ U = [T EXCEPT ![i] = u]
  <2>1. Advances(T[i], u)
    <3>1. \A gone \in BOOLEAN : Sound(T[i], gone) => OpenInputs(T[i]) = {}
      BY <1>2, DispatchableIsOver
    <3> QED BY <1>1, <3>1, DispatchedAdvances
  <2> HIDE DEF u, U
  <2>2. U \in [Issue -> Task] /\ U[i] = u /\ \A j \in Issue : j # i => U[j] = T[j]
    BY <1>1, <1>2
  <2> QED BY <1>1, <1>2, <2>1, <2>2 DEF Dispatchable, U
<1>3. CASE U = T
  <2>1. Advances(T[i], T[i]) /\ ~(Len(T[i].rows) > Len(T[i].rows))
    BY <1>1, AdvancesSelf, RowsTyped
  <2> QED BY <1>3, <2>1
<1> QED BY <1>2, <1>3 DEF DispatchIfReady

\* An issue that is made has no run.
LEMMA MadeAdvances ==
  ASSUME TypeInv, NEW i \in Issue, ~Exists(i), NEW st \in IssueStatus, NEW B \in SUBSET Issue
  PROVE  Advances(task[i], Made(st, B)) /\ Made(st, B).rows = NoTask.rows
<1> DEFINE new == Made(st, B)
<1>1. new \in Task /\ task[i] = NoTask
  BY MadeTypes, AbsentIdle
<1>2. /\ new.rows = NoTask.rows /\ new.latest = NoTask.latest /\ new.cur = NoTask.cur
      /\ new.rt = NoTask.rt /\ new.rtInput = NoTask.rtInput /\ new.run = NoTask.run
      /\ new.question = NoTask.question
  BY DEF NoTask, Made
<1> HIDE DEF new
<1>3. \A gone : Sound(NoTask, gone) => Sound(new, gone)
  <2>1. Tied(new)
    BY <1>2 DEF Tied, Live, NoTask
  <2> QED BY <1>1, <1>2, <2>1, NoTaskTyped, BoardOnly
<1>4. ~Firm(NoTask)
  BY DEF Firm, NoTask
<1>5. Len(new.rows) >= Len(NoTask.rows) /\ ~(Len(new.rows) > Len(NoTask.rows))
  BY <1>1, <1>2, RowsTyped
<1>6. Advances(task[i], new)
  BY <1>1, <1>2, <1>3, <1>4, <1>5 DEF Advances
<1> QED BY <1>2, <1>6 DEF new

LEMMA CreateSession ==
  ASSUME TypeInv, SessionInv, NEW i \in Issue, NEW st \in UserStatus, NEW B \in SUBSET Issue,
         Create(i, st, B)
  PROVE  SessionInv' /\ DoneStep /\ ReadyStep
<1> DEFINE new == Made(st, B)
           T == With(i, new)
           U == DispatchIfReady(T, i)
<1>1. st \in IssueStatus /\ MayBlock(i, B) /\ ~Exists(i) /\ SetTasks(U, {}) /\ UNCHANGED torn
  BY IssueWorkflowAssumption DEF IssueWorkflowAssumption, Create, NextIssue, Made
<1>2. new \in Task /\ new.blockedBy = B
  BY <1>1, MadeTypes
<1>3. i \notin B /\ task[i] = NoTask
  BY <1>1, BlockersAreOthers, AbsentIdle
<1>4. Advances(task[i], new) /\ Len(new.rows) = Len(task[i].rows)
  BY <1>1, <1>3, MadeAdvances
<1> HIDE DEF new
<1>5. T \in [Issue -> Task] /\ T[i] = new /\ \A j \in Issue : j # i => T[j] = task[j]
  BY <1>2 DEF With, TypeInv, TypeOK
<1> HIDE DEF T
<1>6. /\ U \in [Issue -> Task] /\ \A j \in Issue : j # i => U[j] = task[j]
      /\ Advances(new, U[i]) /\ U[i].blockedBy = B
      /\ Len(U[i].rows) > Len(new.rows) => BlockersDone(T, i)
  BY <1>2, <1>5, DispatchIfReadyAdvances
<1> HIDE DEF U
<1>7. \A j \in Issue : Advances(task[j], U[j])
  BY <1>2, <1>4, <1>6, TaskTyped, AdvancesSelf, AdvancesOn
<1>8. SessionInv' /\ DoneStep
  BY <1>1, <1>7, AllAdvance
<1>9. task' = U /\ \A j \in Issue : j # i => ~NewWork(j)
  BY <1>1, <1>6, TaskTyped, RowsTyped DEF SetTasks, NewWork
<1>10. ASSUME NewWork(i), NEW b \in task'[i].blockedBy PROVE task[b].status = "done"
  <2>1. b \in B /\ BlockersDone(T, i)
    BY <1>4, <1>6, <1>9, <1>10 DEF NewWork
  <2> QED BY <1>2, <1>3, <1>5, <2>1 DEF BlockersDone
<1>11. ReadyStep
  BY <1>9, <1>10 DEF ReadyStep
<1> QED BY <1>8, <1>11

LEMMA PatchSession ==
  ASSUME TypeInv, GraphInv, SessionInv, NEW i \in Issue,
         NEW st \in UserStatus \cup {task[i].status},
         NEW B \in SUBSET Issue, NEW named \in BOOLEAN,
         NEW active \in {task[i].active, FALSE}, NEW linked \in {task[i].linked, FALSE},
         Patch(i, st, B, named, active, linked)
  PROVE  SessionInv' /\ DoneStep /\ ReadyStep
<1> DEFINE new == [task[i] EXCEPT !.status = st, !.blockedBy = B,
                                  !.active = active, !.linked = linked]
           T == With(i, new)
           U == IF named \/ task[i].status # "todo" THEN DispatchIfReady(T, i) ELSE T
<1>1. /\ task[i] \in Task /\ st \in IssueStatus
      /\ active \in BOOLEAN /\ linked \in BOOLEAN
  BY IssueWorkflowAssumption, TaskTyped
     DEF IssueWorkflowAssumption, IssueStatus, Patch, Exists, Task
<1>2. /\ new \in Task /\ new.blockedBy = B
      /\ new.rows = task[i].rows /\ new.latest = task[i].latest /\ new.cur = task[i].cur
      /\ new.rt = task[i].rt /\ new.rtInput = task[i].rtInput /\ new.run = task[i].run
      /\ new.question = task[i].question /\ new.active = active /\ new.linked = linked
  <2> DEFINE t == task[i]
  <2> HIDE DEF t
  <2>1. /\ t \in Task
        /\ new = [t EXCEPT !.status = st, !.blockedBy = B, !.active = active, !.linked = linked]
    BY <1>1 DEF t
  <2> HIDE DEF new
  <2>2. new \in Task
    BY <1>1, <2>1 DEF Task
  <2>3. /\ new.blockedBy = B
        /\ new.rows = t.rows /\ new.latest = t.latest /\ new.cur = t.cur
        /\ new.rt = t.rt /\ new.rtInput = t.rtInput /\ new.run = t.run
        /\ new.question = t.question /\ new.active = active /\ new.linked = linked
    BY <2>1 DEF Task
  <2> QED BY <2>2, <2>3 DEF t
<1>3. /\ SetTasks(U, {i})
      /\ torn' = [torn EXCEPT ![i] = @ \/ (Live(task[i]) /\ ~active /\ ~linked)]
  BY DEF Patch
<1>12. /\ torn'[i] = (torn[i] \/ (Live(task[i]) /\ ~active /\ ~linked))
       /\ \A j \in Issue : j # i => torn'[j] = torn[j]
  BY <1>3 DEF TypeInv, TypeOK
<1>4. i \notin B
  <2>1. MayBlock(i, B) \/ B = task[i].blockedBy
    BY DEF Patch
  <2> QED BY <2>1, BlockersAreOthers, OwnBlockers
<1> HIDE DEF new
<1>5. T \in [Issue -> Task] /\ T[i] = new /\ \A j \in Issue : j # i => T[j] = task[j]
  BY <1>2 DEF With, TypeInv, TypeOK
<1> HIDE DEF T
<1>6. /\ U \in [Issue -> Task] /\ \A j \in Issue : j # i => U[j] = task[j]
      /\ Advances(new, U[i]) /\ U[i].blockedBy = B
      /\ Len(U[i].rows) > Len(new.rows) => BlockersDone(T, i)
  <2>1. Advances(new, new) /\ ~(Len(new.rows) > Len(new.rows))
    BY <1>2, AdvancesSelf, RowsTyped
  <2> QED BY <1>2, <1>5, <2>1, DispatchIfReadyAdvances
<1> HIDE DEF U
<1>7. task' = U /\ (byHand'[i] \/ NewWork(i)) /\ \A j \in Issue : j # i => ~NewWork(j)
  <2>1. task' = U /\ byHand' = [j \in Issue |-> (byHand[j] \/ j \in {i}) /\ ~NewWork(j)]
    BY <1>3 DEF SetTasks
  <2>2. byHand'[i] \/ NewWork(i)
    BY <2>1
  <2>3. ASSUME NEW j \in Issue, j # i PROVE ~NewWork(j)
    <3>1. task'[j] = task[j] /\ Len(task[j].rows) \in Nat
      BY <1>6, <2>1, <2>3, TaskTyped, RowsTyped
    <3> QED BY <3>1 DEF NewWork
  <2> QED BY <2>1, <2>2, <2>3
<1>8. torn'[i] \/ Sound(task'[i], withdrawn'[i])
  <2> SUFFICES ASSUME ~torn'[i] PROVE Sound(task'[i], withdrawn'[i])
    OBVIOUS
  <2>3. ~torn[i] /\ Tied(new)
    BY <1>2, <1>12 DEF Tied, Live
  <2>1. Sound(new, withdrawn[i]) /\ withdrawn[i] \in BOOLEAN
    BY <1>1, <1>2, <2>3, BoardOnly DEF SessionInv, TypeInv, TypeOK
  <2>2. Sound(U[i], withdrawn[i]) /\ (Len(U[i].rows) > Len(new.rows) => Sound(U[i], FALSE))
    BY <1>6, <2>1 DEF Advances
  <2> QED BY <1>2, <1>3, <2>2, SoundNext
<1>9. SessionInv' /\ DoneStep
  <2>1. \A j \in Issue : j # i => Advances(task[j], U[j])
    BY <1>6, TaskTyped, AdvancesSelf
  <2>2. \A j \in Issue : torn[j] => torn'[j]
    BY <1>12
  <2> QED BY <1>3, <1>7, <1>8, <2>1, <2>2, OthersAdvance
<1>10. ASSUME NewWork(i), NEW b \in task'[i].blockedBy PROVE task[b].status = "done"
  <2>1. b \in B /\ BlockersDone(T, i)
    BY <1>2, <1>6, <1>7, <1>10 DEF NewWork
  <2> QED BY <1>2, <1>4, <1>5, <2>1 DEF BlockersDone
<1>11. ReadyStep
  BY <1>7, <1>10 DEF ReadyStep
<1> QED BY <1>9, <1>11

LEMMA RedispatchSession ==
  ASSUME TypeInv, SessionInv, NEW i \in Issue, Redispatch(i)
  PROVE  SessionInv' /\ DoneStep /\ ReadyStep
<1> DEFINE u == Dispatched(task[i])
           T == [task EXCEPT ![i] = u]
<1>1. SetTasks(T, {}) /\ UNCHANGED torn /\ Dispatchable(task, i)
  BY DEF Redispatch
<1>2. task \in [Issue -> Task] /\ task[i] \in Task
  BY DEF TypeInv, TypeOK
<1>3. Advances(task[i], u) /\ u \in Task /\ u.blockedBy = task[i].blockedBy
  <2>1. \A gone \in BOOLEAN : Sound(task[i], gone) => OpenInputs(task[i]) = {}
    BY <1>1, <1>2, DispatchableIsOver
  <2> QED BY <1>2, <2>1, DispatchedAdvances, DispatchedFacts DEF Keeps
<1> HIDE DEF u
<1>4. T[i] = u /\ \A j \in Issue : j # i => T[j] = task[j]
  BY <1>2
<1> HIDE DEF T
<1>5. \A j \in Issue : Advances(task[j], T[j])
  BY <1>2, <1>3, <1>4, AdvancesSelf
<1>6. SessionInv' /\ DoneStep
  BY <1>1, <1>5, AllAdvance
<1>7. task' = T /\ \A j \in Issue : j # i => ~NewWork(j)
  BY <1>1, <1>4, TaskTyped, RowsTyped DEF SetTasks, NewWork
<1>8. ReadyStep
  BY <1>1, <1>3, <1>4, <1>7 DEF ReadyStep, Dispatchable, BlockersDone
<1> QED BY <1>6, <1>8

\* Somebody looks at an issue.
LEMMA ReadSession ==
  ASSUME TypeInv, SessionInv, NEW i \in Issue, SetTasks(Synced(task, {i}), {}), UNCHANGED torn
  PROVE  SessionInv' /\ DoneStep /\ ReadyStep
<1> DEFINE U == Synced(task, {i})
<1>1. task \in [Issue -> Task] /\ SetTasks(U, {})
  BY DEF TypeInv, TypeOK
<1>2. \A j \in Issue : Advances(task[j], U[j])
  BY <1>1, SyncedAdvances
<1>3. \A j \in Issue : U[j].blockedBy = task[j].blockedBy
  BY <1>1, SyncedMoved DEF Moved, Keeps
<1>4. ASSUME NEW k \in Issue, Len(U[k].rows) > Len(task[k].rows), NEW b \in task[k].blockedBy
      PROVE  task[b].status = "done" \/ U[b].status = "done"
  BY <1>1, <1>4, SyncedReady
<1> HIDE DEF U
<1>5. SessionInv' /\ DoneStep
  BY <1>1, <1>2, AllAdvance
<1>6. ReadyStep
  BY <1>1, <1>3, <1>4 DEF ReadyStep, SetTasks, NewWork
<1> QED BY <1>5, <1>6

\* A run is given an input directly, or is about to be: reads as FollowUp does, and
\* writes u to the issue, which gets an input more.
LEMMA FollowedSession ==
  ASSUME TypeInv, SessionInv, NEW i \in Issue, NEW seen, NEW u, NEW T,
         seen = Synced(task, {i}), T = [seen EXCEPT ![i] = u], SetTasks(T, {}),
         i \notin followed, followed' = followed \cup {i},
         \A j \in Issue : torn[j] => torn'[j],
         torn'[i] \/ Advances(seen[i], u), Len(u.rows) \in Nat, Len(u.rows) > Len(seen[i].rows)
  PROVE  SessionInv' /\ DoneStep /\ ReadyStep
<1>1. task \in [Issue -> Task]
  BY DEF TypeInv, TypeOK
<1>2. /\ seen \in [Issue -> Task]
      /\ \A j \in Issue : Advances(task[j], seen[j]) /\ seen[j].blockedBy = task[j].blockedBy
  BY <1>1, SyncedMoved, SyncedAdvances DEF Moved, Keeps
<1>3. ASSUME NEW k \in Issue, Len(seen[k].rows) > Len(task[k].rows), NEW b \in task[k].blockedBy
      PROVE  task[b].status = "done" \/ b = i
  BY <1>1, <1>3, SyncedReady
<1>4. T[i] = u /\ \A j \in Issue : j # i => T[j] = seen[j]
  BY <1>2
<1>5. task' = T
  BY DEF SetTasks
<1>6. NewWork(i)
  <2>1. Len(seen[i].rows) >= Len(task[i].rows) /\ Len(seen[i].rows) \in Nat
        /\ Len(task[i].rows) \in Nat
    BY <1>1, <1>2, RowsTyped DEF Advances
  <2>2. Len(u.rows) > Len(task[i].rows)
    BY <2>1
  <2> QED BY <1>4, <1>5, <2>2 DEF NewWork
<1>7. SessionInv' /\ DoneStep
  <2>1. \A j \in Issue : j # i => Advances(task[j], T[j])
    BY <1>2, <1>4
  <2>2. torn'[i] \/ Sound(task'[i], withdrawn'[i])
    <3> SUFFICES ASSUME ~torn'[i] PROVE Sound(task'[i], withdrawn'[i])
      OBVIOUS
    <3>1. Sound(task[i], withdrawn[i]) /\ withdrawn[i] \in BOOLEAN
      BY DEF SessionInv, TypeInv, TypeOK
    <3>2. Sound(seen[i], withdrawn[i])
      BY <1>2, <3>1 DEF Advances
    <3>3. Sound(u, withdrawn[i]) /\ Sound(u, FALSE)
      BY <3>1, <3>2 DEF Advances
    <3> QED BY <1>4, <3>3, SoundNext
  <2> QED BY <1>6, <2>1, <2>2, OthersAdvance
<1>8. ASSUME NEW k \in Issue, NewWork(k), k \notin followed' \ followed, NEW b \in task'[k].blockedBy
      PROVE  task[b].status = "done" \/ b \in followed' \ followed
  <2>1. k # i
    BY <1>8
  <2>2. Len(seen[k].rows) > Len(task[k].rows) /\ b \in task[k].blockedBy
    BY <1>2, <1>4, <1>5, <1>8, <2>1 DEF NewWork
  <2> QED BY <1>3, <2>2
<1> QED BY <1>7, <1>8 DEF ReadyStep

LEMMA FollowUpSession ==
  ASSUME TypeInv, SessionInv, NEW i \in Issue, FollowUp(i)
  PROVE  SessionInv' /\ DoneStep /\ ReadyStep
<1> DEFINE seen == Synced(task, {i})
           u == Dispatched(seen[i])
           T == [seen EXCEPT ![i] = u]
<1>1. /\ SetTasks(T, {}) /\ i \notin followed /\ followed' = followed \cup {i} /\ UNCHANGED torn
      /\ seen[i].run \notin {"none", "queued", "running"}
  BY DEF FollowUp
<1>2. seen[i] \in Task
  BY SyncedMoved DEF TypeInv, TypeOK
<1>3. Advances(seen[i], u)
  <2>1. \A gone \in BOOLEAN : Sound(seen[i], gone) => OpenInputs(seen[i]) = {}
    BY <1>1 DEF Sound, Underway
  <2> QED BY <1>2, <2>1, DispatchedAdvances
<1>4. Len(u.rows) \in Nat /\ Len(u.rows) > Len(seen[i].rows)
  BY <1>2, DispatchedFacts, RowsTyped
<1> HIDE DEF u
<1>5. seen = Synced(task, {i}) /\ T = [seen EXCEPT ![i] = u]
  OBVIOUS
<1> HIDE DEF seen, T
<1>6. \A j \in Issue : torn[j] => torn'[j]
  BY <1>1
<1> QED BY <1>1, <1>3, <1>4, <1>5, <1>6, FollowedSession

LEMMA FollowUpCutSession ==
  ASSUME TypeInv, SessionInv, NEW i \in Issue, NEW k \in 1..3, FollowUpCut(i, k)
  PROVE  SessionInv' /\ DoneStep /\ ReadyStep
<1> DEFINE seen == Synced(task, {i})
           u == Given(seen[i], k)
           T == [seen EXCEPT ![i] = u]
<1>1. SetTasks(T, {}) /\ i \notin followed /\ followed' = followed \cup {i} /\ Tear(i)
  BY DEF FollowUpCut
<1>2. seen[i] \in Task
  BY SyncedMoved DEF TypeInv, TypeOK
<1>3. Len(u.rows) \in Nat /\ Len(u.rows) > Len(seen[i].rows)
  BY <1>2, GivenFacts, RowsTyped
<1> HIDE DEF u
<1>4. seen = Synced(task, {i}) /\ T = [seen EXCEPT ![i] = u]
  OBVIOUS
<1> HIDE DEF seen, T
<1>5. torn'[i] /\ \A j \in Issue : torn[j] => torn'[j]
  BY <1>1 DEF Tear, TypeInv, TypeOK
<1> QED BY <1>1, <1>3, <1>4, <1>5, FollowedSession

\* An issue is made and dispatched at once, unless it has to wait.
LEMMA DelegateSession ==
  ASSUME TypeInv, SessionInv, NEW i \in Issue, NEW B \in SUBSET Issue, Delegate(i, B)
  PROVE  SessionInv' /\ DoneStep /\ ReadyStep
<1> DEFINE new == Made("todo", B)
           T == With(i, new)
           S == {b \in B : task[b].linked}
           seen == Synced(T, S)
           last == IF BlockersDone(T, i) THEN Dispatched(seen[i])
                   ELSE SetRuntime(seen[i], "IDLE", NoInput)
           U == [seen EXCEPT ![i] = last]
<1>1. MayBlock(i, B) /\ ~Exists(i) /\ SetTasks(U, {}) /\ UNCHANGED torn
  BY DEF Delegate, NextIssue, Made
<1>2. new \in Task /\ new.blockedBy = B /\ new.status = "todo"
  <2>1. "todo" \in IssueStatus
    BY DEF IssueStatus
  <2> QED BY <2>1, MadeTypes
<1>3. i \notin B /\ task[i] = NoTask
  BY <1>1, BlockersAreOthers, AbsentIdle
<1>4. Advances(task[i], new) /\ new.rows = NoTask.rows
  BY <1>1, <1>2, MadeAdvances DEF IssueStatus
<1> HIDE DEF new
<1>5. T \in [Issue -> Task] /\ T[i] = new /\ \A j \in Issue : j # i => T[j] = task[j]
  BY <1>2 DEF With, TypeInv, TypeOK
<1>18. S \subseteq B
  OBVIOUS
<1> HIDE DEF T, S
<1>6. /\ seen \in [Issue -> Task]
      /\ \A j \in Issue : Advances(T[j], seen[j]) /\ seen[j].blockedBy = T[j].blockedBy
  BY <1>5, SyncedMoved, SyncedAdvances DEF Moved, Keeps
<1>7. ASSUME NEW k \in Issue, Len(seen[k].rows) > Len(T[k].rows), NEW b \in T[k].blockedBy
      PROVE  T[b].status = "done" \/ (b \in B /\ seen[b].status = "done")
  BY <1>5, <1>7, <1>18, SyncedReady
<1>8. BlockersDone(T, i) => seen[i].rows = NoTask.rows
  BY <1>2, <1>3, <1>4, <1>5, <1>18, SyncedUnblocked
<1> HIDE DEF seen
<1>9. last \in Task /\ Advances(seen[i], last) /\ last.blockedBy = B
  <2>1. CASE BlockersDone(T, i)
    <3>1. OpenInputs(seen[i]) = {}
      BY <1>8, <2>1, NoTaskTyped DEF OpenInputs
    <3> QED BY <1>2, <1>5, <1>6, <2>1, <3>1, DispatchedAdvances, DispatchedFacts DEF Keeps
  <2>2. CASE ~BlockersDone(T, i)
    BY <1>2, <1>5, <1>6, <2>2, IdleIs, IdleAdvances
  <2> QED BY <2>1, <2>2
<1>10. Len(last.rows) > Len(NoTask.rows) => BlockersDone(T, i) \/ Len(seen[i].rows) > Len(T[i].rows)
  <2>1. ~BlockersDone(T, i) => last.rows = seen[i].rows
    BY <1>6, IdleIs
  <2> HIDE DEF last
  <2> QED BY <1>4, <1>5, <2>1
<1> HIDE DEF last
<1>11. U \in [Issue -> Task] /\ U[i] = last /\ \A j \in Issue : j # i => U[j] = seen[j]
  BY <1>6, <1>9
<1> HIDE DEF U
<1>12. \A j \in Issue : Advances(task[j], U[j])
  BY <1>2, <1>3, <1>4, <1>5, <1>6, <1>9, <1>11, NoTaskTyped, AdvancesOn
<1>13. SessionInv' /\ DoneStep
  BY <1>1, <1>12, AllAdvance
<1>14. task' = U
  BY <1>1 DEF SetTasks
<1>15. ASSUME NEW k \in Issue, k # i, NewWork(k), NEW b \in task'[k].blockedBy
       PROVE  "done" \in {task[b].status, task'[b].status}
  <2>1. /\ b \in T[k].blockedBy /\ b \in Issue
        /\ Len(seen[k].rows) > Len(T[k].rows)
    BY <1>5, <1>6, <1>11, <1>14, <1>15 DEF NewWork, Task
  <2>2. CASE b = i
    <3>1. T[b].status # "done" /\ b \notin B
        BY <1>2, <1>3, <1>5, <2>2
    <3> QED BY <1>7, <2>1, <3>1
  <2>3. CASE b # i
    BY <1>5, <1>7, <1>11, <1>14, <2>1, <2>3
  <2> QED BY <2>2, <2>3
<1>16. ASSUME NewWork(i), NEW b \in task'[i].blockedBy
       PROVE  "done" \in {task[b].status, task'[b].status}
  <2>1. b \in B /\ b # i /\ b \in Issue /\ Len(last.rows) > Len(NoTask.rows)
    BY <1>3, <1>9, <1>11, <1>14, <1>16 DEF NewWork
  <2>2. CASE BlockersDone(T, i)
    BY <1>2, <1>5, <2>1, <2>2 DEF BlockersDone
  <2>3. CASE Len(seen[i].rows) > Len(T[i].rows)
    BY <1>2, <1>5, <1>7, <1>11, <1>14, <2>1, <2>3
  <2> QED BY <1>10, <2>1, <2>2, <2>3
<1>17. ReadyStep
  BY <1>15, <1>16 DEF ReadyStep
<1> QED BY <1>13, <1>17

\* The executor's claim is the open input.
LEMMA ClaimIsOpen ==
  ASSUME TypeInv, NEW i \in Issue, exec[i] # "none"
  PROVE  Claimed(i) \in OpenInputs(task[i]) /\ task[i] \in Task
BY ClaimedFacts DEF OpenInputs

\* A row of the queue is set, and the runtime state with it or not.
LEMMA RowSession ==
  ASSUME TypeInv, SessionInv, NEW i \in Issue, NEW n \in OpenInputs(task[i]),
         NEW st \in RowStatus, NEW rt \in RuntimeStatus,
         st \in {"QUEUED", "CLAIMED"} => rt \in {"QUEUED", "BUSY", "IDLE"},
         NEW u, u \in {SetRow(task[i], n, st), SetRuntime(SetRow(task[i], n, st), rt, NoInput)},
         task' = With(i, u), UNCHANGED torn,
         IF st \in {"QUEUED", "CLAIMED"} THEN UNCHANGED withdrawn ELSE Withdraw(i)
  PROVE  SessionInv' /\ DoneStep /\ ReadyStep
<1>1. task[i] \in Task
  BY TaskTyped
<1>2. u \in Task /\ Len(u.rows) = Len(task[i].rows) /\ u.status = task[i].status
  <2>1. OneLike(task[i], SetRow(task[i], n, st))
        /\ OneLike(task[i], SetRuntime(SetRow(task[i], n, st), rt, NoInput))
    BY <1>1, SetRowFacts, SetBothFacts
  <2> QED BY <2>1 DEF OneLike, SameFace
<1>3. \A j \in Issue : j # i => withdrawn'[j] = withdrawn[j]
  BY DEF Withdraw, TypeInv, TypeOK
<1>4. IF st \in {"QUEUED", "CLAIMED"} THEN withdrawn'[i] = withdrawn[i] ELSE withdrawn'[i] = TRUE
  BY DEF Withdraw, TypeInv, TypeOK
<1>5. ~torn[i] => Sound(u, withdrawn'[i])
  <2> SUFFICES ASSUME ~torn[i] PROVE Sound(u, withdrawn'[i])
    OBVIOUS
  <2>1. Sound(task[i], withdrawn[i])
    BY DEF SessionInv
  <2>2. Left(task[i], u, st, withdrawn[i])
    BY <1>1, <2>1, NewestReset
  <2> QED BY <1>4, <2>2 DEF Left
<1> QED BY <1>2, <1>3, <1>5, OneStep

LEMMA ClaimSession ==
  ASSUME TypeInv, SessionInv, NEW i \in Issue, Claim(i)
  PROVE  SessionInv' /\ DoneStep /\ ReadyStep
<1>1. PICK n \in OpenInputs(task[i]) : task' = With(i, SetRow(task[i], n, "CLAIMED"))
  BY DEF Claim
<1>2. UNCHANGED <<torn, withdrawn>>
  BY DEF Claim, histVars
<1>3. "CLAIMED" \in RowStatus /\ "IDLE" \in RuntimeStatus
  BY DEF RowStatus, RuntimeStatus
<1> QED BY <1>1, <1>2, <1>3, RowSession

LEMMA DeleteQueuedSession ==
  ASSUME TypeInv, SessionInv, NEW i \in Issue, DeleteQueued(i)
  PROVE  SessionInv' /\ DoneStep /\ ReadyStep
<1>1. PICK n \in OpenInputs(task[i]) :
        task' = With(i, SetRow(task[i], n, "CANCELLED")) /\ Withdraw(i) /\ UNCHANGED torn
  BY DEF DeleteQueued
<1>2. "CANCELLED" \in RowStatus /\ "IDLE" \in RuntimeStatus
  BY DEF RowStatus, RuntimeStatus
<1> QED BY <1>1, <1>2, RowSession

LEMMA SetupThrowSession ==
  ASSUME TypeInv, SessionInv, NEW i \in Issue, SetupThrow(i)
  PROVE  SessionInv' /\ DoneStep /\ ReadyStep
<1>1. Claimed(i) \in OpenInputs(task[i])
  BY ClaimIsOpen DEF SetupThrow
<1>2. /\ task' = With(i, SetRuntime(SetRow(task[i], Claimed(i), "FAILED"), "ERROR", NoInput))
      /\ Withdraw(i) /\ UNCHANGED torn
  BY DEF SetupThrow
<1>3. "FAILED" \in RowStatus /\ "ERROR" \in RuntimeStatus
  BY DEF RowStatus, RuntimeStatus
<1> QED BY <1>1, <1>2, <1>3, RowSession

LEMMA RecoverClaimSession ==
  ASSUME TypeInv, SessionInv, NEW i \in Issue, RecoverClaim(i)
  PROVE  SessionInv' /\ DoneStep /\ ReadyStep
<1>1. Claimed(i) \in OpenInputs(task[i])
  BY ClaimIsOpen DEF RecoverClaim
<1> DEFINE n == Claimed(i)
<1>2. /\ {"QUEUED", "FAILED"} \subseteq RowStatus /\ {"IDLE", "ERROR"} \subseteq RuntimeStatus
      /\ UNCHANGED torn
  BY DEF RowStatus, RuntimeStatus, RecoverClaim
<1>3. \A t, rt : ResetRuntime(t, n, rt) \in {t, SetRuntime(t, rt, NoInput)}
  BY DEF ResetRuntime
<1>4. CASE /\ task' = With(i, ResetRuntime(SetRow(task[i], n, "QUEUED"), n, "IDLE"))
           /\ UNCHANGED withdrawn
  <2> DEFINE u == ResetRuntime(SetRow(task[i], n, "QUEUED"), n, "IDLE")
  <2>1. task' = With(i, u)
        /\ u \in {SetRow(task[i], n, "QUEUED"),
                  SetRuntime(SetRow(task[i], n, "QUEUED"), "IDLE", NoInput)}
    BY <1>3, <1>4
  <2> HIDE DEF u, n
  <2> QED BY <1>1, <1>2, <1>4, <2>1, RowSession DEF n
<1>5. CASE /\ task' = With(i, ResetRuntime(SetRow(task[i], n, "FAILED"), n, "ERROR"))
           /\ Withdraw(i)
  <2> DEFINE u == ResetRuntime(SetRow(task[i], n, "FAILED"), n, "ERROR")
  <2>1. task' = With(i, u)
        /\ u \in {SetRow(task[i], n, "FAILED"),
                  SetRuntime(SetRow(task[i], n, "FAILED"), "ERROR", NoInput)}
    BY <1>3, <1>5
  <2> HIDE DEF u, n
  <2> QED BY <1>1, <1>2, <1>5, <2>1, RowSession DEF n
<1> QED BY <1>4, <1>5 DEF RecoverClaim

LEMMA PauseQueuedSession ==
  ASSUME TypeInv, SessionInv, NEW i \in Issue, PauseQueued(i)
  PROVE  SessionInv' /\ DoneStep /\ ReadyStep
<1> DEFINE u == PausedInQueue(task[i])
<1>1. StatusIn(task[i], task[i].rtInput) = "QUEUED" /\ task[i] \in Task
  BY TaskTyped DEF PauseQueued
<1>2. u \in Task /\ Len(u.rows) = Len(task[i].rows) /\ u.status = task[i].status
  BY <1>1, PausedInQueueFacts DEF Keeps, SameFace
<1>3. ~torn[i] => Sound(u, TRUE)
  BY <1>1, PausedIsSound DEF SessionInv
<1>4. task' = With(i, u) /\ UNCHANGED torn
  BY DEF PauseQueued
<1>5. withdrawn'[i] = TRUE /\ \A j \in Issue : j # i => withdrawn'[j] = withdrawn[j]
  BY DEF PauseQueued, Withdraw, TypeInv, TypeOK
<1> HIDE DEF u
<1> QED BY <1>2, <1>3, <1>4, <1>5, OneStep

LEMMA GatePassSession ==
  ASSUME TypeInv, SessionInv, NEW i \in Issue, GatePass(i)
  PROVE  SessionInv' /\ DoneStep /\ ReadyStep
<1> DEFINE n == Claimed(i)
           t == task[i]
           u == SetRuntime(t, "BUSY", n)
<1>1. n \in OpenInputs(t) /\ t \in Task
  BY ClaimIsOpen DEF GatePass
<1>2. task' = With(i, u) /\ UNCHANGED <<torn, withdrawn>>
  BY DEF GatePass, histVars
<1>3. ~torn[i] => Sound(t, withdrawn[i])
  BY DEF SessionInv
<1> HIDE DEF n, t
<1>4. n \in Nat
  BY <1>1, OpenAre
<1>5. /\ u \in Task /\ u.rt = "BUSY" /\ u.rtInput = n /\ u.rows = t.rows /\ u.run = t.run
      /\ u.cur = t.cur /\ u.latest = t.latest /\ u.question = t.question
      /\ u.linked = t.linked /\ u.active = t.active /\ u.status = t.status
  BY <1>1, <1>4 DEF SetRuntime, Task
<1> HIDE DEF u
<1>6. OpenInputs(u) = OpenInputs(t) /\ NewestTurn(u) = NewestTurn(t)
  BY <1>5 DEF OpenInputs, NewestTurn, TurnIn
<1>7. ASSUME Sound(t, withdrawn[i]) PROVE Sound(u, withdrawn[i])
  <2>1. Pointed(t) /\ Underway(t) /\ n = Len(t.rows)
    BY <1>1, <1>7 DEF Sound, Pointed
  <2>2. Pointed(u) /\ Underway(u)
    BY <1>5, <1>6, <2>1 DEF Pointed, Underway
  <2>3. Tied(u)
    BY <1>5, <1>7 DEF Sound, Tied, Live
  <2> QED BY <1>1, <1>5, <1>6, <1>7, <2>2, <2>3 DEF Sound
<1>8. u.rows = task[i].rows /\ u.status = task[i].status
  BY <1>5 DEF t
<1> QED BY <1>2, <1>3, <1>5, <1>7, <1>8, OneStep

\* A turn ends.
LEMMA RunnerExitSession ==
  ASSUME TypeInv, SessionInv, NEW i \in Issue, NEW v \in Verdict, RunnerExit(i, v)
  PROVE  SessionInv' /\ DoneStep /\ ReadyStep
<1> DEFINE u == Ended(task[i], Claimed(i), v, 4)
           T == With(i, u)
           U == Synced(T, {i})
<1>1. SetTasks(U, {}) /\ UNCHANGED torn /\ exec[i] # "none"
  BY DEF RunnerExit
<1>2. /\ u \in Task /\ u.status = task[i].status /\ u.blockedBy = task[i].blockedBy
      /\ Len(u.rows) = Len(task[i].rows)
  <2>1. task[i] \in Task /\ Claimed(i) \in Nat /\ v \in Turn /\ 4 \in 1..4
    BY <1>1, ClaimedFacts, IssueWorkflowAssumption DEF IssueWorkflowAssumption
  <2> QED BY <2>1, EndedFacts
<1>3. ASSUME Sound(task[i], withdrawn[i]) PROVE Sound(u, withdrawn[i]) /\ ~Firm(task[i])
  <2>1. Claimed(i) \in OpenInputs(task[i]) /\ task[i] \in Task /\ v \in Turn
    BY <1>1, ClaimIsOpen, IssueWorkflowAssumption DEF IssueWorkflowAssumption
  <2> QED BY <1>3, <2>1, EndedIsSound
<1> HIDE DEF u
<1>4. T \in [Issue -> Task] /\ T[i] = u /\ \A j \in Issue : j # i => T[j] = task[j]
  BY <1>2 DEF With, TypeInv, TypeOK
<1> HIDE DEF T
<1>5. \A j \in Issue : Advances(T[j], U[j]) /\ U[j].blockedBy = T[j].blockedBy
  BY <1>4, SyncedMoved, SyncedAdvances DEF Moved, Keeps
<1>6. ASSUME NEW k \in Issue, Len(U[k].rows) > Len(T[k].rows), NEW b \in T[k].blockedBy
      PROVE  T[b].status = "done" \/ U[b].status = "done"
  BY <1>4, <1>6, SyncedReady
<1> HIDE DEF U
<1>7. torn'[i] \/ Sound(task'[i], withdrawn'[i])
  <2> SUFFICES ASSUME ~torn[i] PROVE Sound(task'[i], withdrawn'[i])
    BY <1>1
  <2>1. Sound(u, withdrawn[i]) /\ withdrawn[i] \in BOOLEAN
    BY <1>3 DEF SessionInv, TypeInv, TypeOK
  <2>2. Sound(U[i], withdrawn[i]) /\ (Len(U[i].rows) > Len(u.rows) => Sound(U[i], FALSE))
    BY <1>4, <1>5, <2>1 DEF Advances
  <2> QED BY <1>1, <1>2, <2>2, SoundNext
<1>8. SessionInv' /\ DoneStep
  <2>1. \A j \in Issue : j # i => Advances(task[j], U[j])
    BY <1>4, <1>5
  <2>2. Firm(task[i]) => torn[i]
    BY <1>3 DEF SessionInv
  <2> QED BY <1>1, <1>7, <2>1, <2>2, OthersAdvance
<1>9. ReadyStep
  <2>1. task' = U
    BY <1>1 DEF SetTasks
  <2>2. \A j \in Issue : /\ Len(T[j].rows) = Len(task[j].rows) /\ T[j].status = task[j].status
                         /\ T[j].blockedBy = task[j].blockedBy /\ task[j].blockedBy \subseteq Issue
    BY <1>2, <1>4, TaskTyped DEF Task
  <2>3. ASSUME NEW k \in Issue, NewWork(k), NEW b \in task'[k].blockedBy
        PROVE  "done" \in {task[b].status, task'[b].status}
    <3>1. b \in T[k].blockedBy /\ b \in Issue /\ Len(U[k].rows) > Len(T[k].rows)
      BY <1>5, <2>1, <2>2, <2>3 DEF NewWork
    <3>2. T[b].status = "done" \/ U[b].status = "done"
      BY <1>6, <3>1
    <3> QED BY <2>1, <2>2, <3>1, <3>2
  <2> QED BY <2>3 DEF ReadyStep
<1> QED BY <1>8, <1>9

\* A turn whose end is cut; nothing is dispatched.
LEMMA RunnerExitCutSession ==
  ASSUME TypeInv, SessionInv, NEW i \in Issue, NEW v \in Verdict, NEW k \in 1..5,
         RunnerExitCut(i, v, k)
  PROVE  SessionInv' /\ DoneStep /\ ReadyStep
<1> DEFINE u == Ended(task[i], Claimed(i), v, k)
<1>1. task' = With(i, u) /\ exec[i] # "none" /\ Tear(i) /\ withdrawn' = withdrawn
  BY DEF RunnerExitCut
<1>2. u \in Task /\ Len(u.rows) = Len(task[i].rows)
  BY <1>1, EndedTask
<1> HIDE DEF u
<1>3. task'[i] = u /\ \A j \in Issue : j # i => task'[j] = task[j]
  BY <1>1 DEF With, TypeInv, TypeOK
<1>4. torn'[i] /\ \A j \in Issue : j # i => torn'[j] = torn[j]
  BY <1>1 DEF Tear, TypeInv, TypeOK
<1>5. ~torn[i] => ~Firm(task[i])
  BY <1>1, ClaimIsOpen DEF SessionInv, Sound, Underway, Firm
<1>6. SessionInv'
  BY <1>1, <1>3, <1>4 DEF SessionInv
<1>7. DoneStep
  BY <1>3, <1>5 DEF DoneStep, Firm
<1>8. \A j \in Issue : ~NewWork(j)
  BY <1>2, <1>3, TaskTyped, RowsTyped DEF NewWork
<1> QED BY <1>6, <1>7, <1>8 DEF ReadyStep

\* A dispatch that is cut.
LEMMA DispatchCutSession ==
  ASSUME TypeInv, SessionInv, NEW i \in Issue, NEW k \in 0..4, DispatchCut(i, k)
  PROVE  SessionInv' /\ DoneStep /\ ReadyStep
<1> DEFINE u == Begun(task[i], k)
           T == [task EXCEPT ![i] = u]
<1>1. SetTasks(T, {}) /\ Tear(i) /\ BlockersDone(task, i)
  BY DEF DispatchCut, Dispatchable
<1>2. u.status = task[i].status /\ u.blockedBy = task[i].blockedBy
  BY TaskTyped, CutFacts DEF Keeps
<1> HIDE DEF u
<1>3. T[i] = u /\ \A j \in Issue : j # i => T[j] = task[j]
  BY DEF TypeInv, TypeOK
<1> HIDE DEF T
<1>4. torn'[i] /\ \A j \in Issue : torn[j] => torn'[j]
  BY <1>1 DEF Tear, TypeInv, TypeOK
<1>5. task' = T
  BY <1>1 DEF SetTasks
<1>6. \A j \in Issue : j # i => ~NewWork(j)
  BY <1>3, <1>5, TaskTyped, RowsTyped DEF NewWork
<1>7. SessionInv' /\ DoneStep
  <2>1. \A j \in Issue : j # i => Advances(task[j], T[j])
    BY <1>3, TaskTyped, AdvancesSelf
  <2>2. Firm(task[i]) => task'[i].status = "done"
    BY <1>2, <1>3, <1>5 DEF Firm
  <2> QED BY <1>1, <1>4, <2>1, <2>2, OthersAdvance
<1>8. ReadyStep
  BY <1>1, <1>2, <1>3, <1>5, <1>6 DEF ReadyStep, BlockersDone
<1> QED BY <1>7, <1>8

LEMMA CancelledIs ==
  ASSUME NEW t \in Task
  PROVE  /\ Cancelled(t) \in Task /\ Cancelled(t).run = "cancelled" /\ Cancelled(t).rows = t.rows
         /\ Cancelled(t).blockedBy = t.blockedBy
<1> DEFINE w == [t EXCEPT !.run = "cancelled"]
<1>1. w \in Task /\ w.run = "cancelled"
  BY DEF Task
<1>2. Cancelled(t) = [Refreshed(w) EXCEPT !.status = "blocked", !.active = FALSE, !.linked = TRUE]
  BY DEF Cancelled
<1> HIDE DEF w
<1>3. Derived(w) = "cancelled" /\ w.run # "none"
  BY <1>1 DEF Derived
<1>4. Refreshed(w) \in Task /\ Refreshed(w).run = "cancelled"
  BY <1>1, <1>3, RefreshedIs
<1>5. Cancelled(t).run = "cancelled"
  BY <1>2, <1>4 DEF Task
<1> QED BY <1>5, CancelledFacts DEF Keeps

\* A run is cancelled.
LEMMA CancelledNext ==
  ASSUME TypeInv, SessionInv, NEW i \in Issue, NEW T \in [Issue -> Task], NEW t \in Task,
         SetTasks([T EXCEPT ![i] = Cancelled(t)], {}), UNCHANGED torn,
         \A j \in Issue : j # i => Advances(task[j], T[j]),
         torn[i] \/ (OpenInputs(t) = {} /\ \E gone \in BOOLEAN : Sound(t, gone)),
         Firm(task[i]) => torn[i] \/ cancelling[i]
  PROVE  /\ SessionInv' /\ DoneStep
         /\ task'[i].run = "cancelled" /\ task'[i].rows = t.rows
         /\ task'[i].blockedBy = t.blockedBy
         /\ \A j \in Issue : j # i => task'[j] = T[j]
<1> DEFINE u == Cancelled(t)
           U == [T EXCEPT ![i] = u]
<1>1. u \in Task /\ u.run = "cancelled" /\ u.rows = t.rows /\ u.blockedBy = t.blockedBy
  BY CancelledIs
<1>2. torn[i] \/ \A g \in BOOLEAN : Sound(u, g)
  BY CancelledIsSound
<1> HIDE DEF u
<1>3. U[i] = u /\ \A j \in Issue : j # i => U[j] = T[j]
  BY <1>1
<1>4. SetTasks(U, {})
  BY DEF u
<1> HIDE DEF U
<1>5. task' = U /\ withdrawn'[i] \in BOOLEAN
  BY <1>4, SetTasksTypes
<1>6. SessionInv' /\ DoneStep
  <2>1. torn'[i] \/ Sound(task'[i], withdrawn'[i])
    BY <1>2, <1>3, <1>5
  <2>2. \A j \in Issue : j # i => Advances(task[j], U[j])
    BY <1>3
  <2>3. Firm(task[i]) =>
          \/ task'[i].status = "done" \/ byHand'[i] \/ torn[i] \/ NewWork(i)
          \/ task'[i].run = "cancelled" /\ cancelling[i]
    BY <1>1, <1>3, <1>5
  <2> QED BY <1>4, <2>1, <2>2, <2>3, OthersAdvance
<1> QED BY <1>1, <1>3, <1>5, <1>6

\* The current input of a sound issue is its newest one.
LEMMA ClosedIs ==
  ASSUME NEW t \in Task, NEW gone, Sound(t, gone)
  PROVE  /\ CurrentInput(t) = Len(t.rows)
         /\ OpenInputs(t) = {} <=> StatusIn(t, CurrentInput(t)) \notin {"QUEUED", "CLAIMED"}
BY NewestInput, OpenIsNewest DEF Sound

LEMMA CancelSettlesSession ==
  ASSUME TypeInv, SessionInv, NEW i \in Issue, CancelSettles(i)
  PROVE  SessionInv' /\ DoneStep /\ ReadyStep
<1> DEFINE seen == Synced(task, {i})
<1>1. /\ SetTasks([seen EXCEPT ![i] = Cancelled(seen[i])], {}) /\ UNCHANGED torn
      /\ cancelling[i] /\ StatusIn(seen[i], CurrentInput(seen[i])) \notin {"CLAIMED", "QUEUED"}
  BY DEF CancelSettles, Settled
<1>2. task \in [Issue -> Task]
  BY DEF TypeInv, TypeOK
<1>3. /\ seen \in [Issue -> Task]
      /\ \A j \in Issue : Advances(task[j], seen[j]) /\ seen[j].blockedBy = task[j].blockedBy
  BY <1>2, SyncedMoved, SyncedAdvances DEF Moved, Keeps
<1>4. ASSUME NEW k \in Issue, Len(seen[k].rows) > Len(task[k].rows), NEW b \in task[k].blockedBy
      PROVE  task[b].status = "done" \/ (b = i /\ seen[b].status = "done")
        \/ (b # i /\ seen[b].status = "done")
  BY <1>2, <1>4, SyncedReady
<1> HIDE DEF seen
<1>5. torn[i] \/ (OpenInputs(seen[i]) = {} /\ \E gone \in BOOLEAN : Sound(seen[i], gone))
  <2> SUFFICES ASSUME ~torn[i]
               PROVE  OpenInputs(seen[i]) = {} /\ \E gone \in BOOLEAN : Sound(seen[i], gone)
    OBVIOUS
  <2>1. Sound(task[i], withdrawn[i]) /\ withdrawn[i] \in BOOLEAN
    BY DEF SessionInv, TypeInv, TypeOK
  <2>2. Sound(seen[i], withdrawn[i])
    BY <1>3, <2>1 DEF Advances
  <2> QED BY <1>1, <1>3, <2>1, <2>2, ClosedIs
<1>6. /\ SessionInv' /\ DoneStep
      /\ task'[i].run = "cancelled" /\ task'[i].rows = seen[i].rows
      /\ task'[i].blockedBy = seen[i].blockedBy
      /\ \A j \in Issue : j # i => task'[j] = seen[j]
  BY <1>1, <1>3, <1>5, CancelledNext
<1>7. ASSUME NEW k \in Issue, NewWork(k), NEW b \in task'[k].blockedBy
      PROVE  \/ "done" \in {task[b].status, task'[b].status}
             \/ cancelling[b] /\ task'[b].run = "cancelled"
  <2>1. b \in task[k].blockedBy /\ b \in Issue /\ Len(seen[k].rows) > Len(task[k].rows)
    <3>1. task'[k].rows = seen[k].rows /\ task'[k].blockedBy = task[k].blockedBy
      BY <1>3, <1>6
    <3>2. task[k].blockedBy \subseteq Issue
      BY TaskTyped DEF Task
    <3> QED BY <1>7, <3>1, <3>2 DEF NewWork
  <2> QED BY <1>1, <1>4, <1>6, <2>1
<1> QED BY <1>6, <1>7 DEF ReadyStep

LEMMA CancelSession ==
  ASSUME TypeInv, GraphInv, SessionInv, NEW i \in Issue, Cancel(i)
  PROVE  SessionInv' /\ DoneStep /\ ReadyStep
<1> DEFINE seen == Synced(task, {i})
           t == seen[i]
           n == CurrentInput(t)
           idle == SetRuntime(t, "IDLE", NoInput)
<1>1. task \in [Issue -> Task] /\ UNCHANGED torn /\ Live(t)
  BY DEF Cancel, TypeInv, TypeOK
<1>2. /\ Refreshed(task[i]).run # "completed"
      /\ \A j \in Issue : seen[j] = IF j = i THEN Refreshed(task[i]) ELSE task[j]
  <2>1. i \notin task[i].blockedBy
    BY OwnBlockers
  <2>2. Refreshed(task[i]).run # "completed"
    BY <1>1, <2>1, SyncedLive
  <2> QED BY <1>1, <2>2, SyncedQuiet
<1>3. /\ t \in Task /\ t.rows = task[i].rows /\ t.blockedBy = task[i].blockedBy
      /\ Advances(task[i], t) /\ t.run # "completed"
  <2>1. t = Refreshed(task[i]) /\ task[i] \in Task
    BY <1>1, <1>2
  <2> HIDE DEF t
  <2>2. Refreshed(task[i]).rows = task[i].rows /\ Keeps(task[i], Refreshed(task[i]))
    BY <2>1, RefreshedFacts
  <2>3. Advances(task[i], Refreshed(task[i]))
    BY <2>1, RefreshedAdvances
  <2> QED BY <1>2, <2>1, <2>2, <2>3 DEF Keeps
<1>4. seen \in [Issue -> Task] /\ \A j \in Issue : j # i => seen[j] = task[j]
  BY <1>1, <1>2, SyncedMoved
<1>5. CASE SetTasks(seen, {})
  BY <1>1, <1>5, ReadSession
<1>6. \/ /\ StatusIn(t, n) = "QUEUED"
         /\ SetTasks([seen EXCEPT ![i] = Cancelled(SetRow(idle, n, "DONE"))], {})
      \/ SetTasks(seen, {})
      \/ /\ StatusIn(t, n) \notin {"QUEUED", "CLAIMED"}
         /\ SetTasks([Synced([seen EXCEPT ![i] = idle], {i}) EXCEPT ![i] = Cancelled(@)], {})
  BY DEF Cancel
<1> HIDE DEF seen
<1>7. idle \in Task /\ idle.rows = t.rows /\ Advances(t, idle) /\ idle.blockedBy = t.blockedBy
  BY <1>3, IdleIs, IdleAdvances
<1>8. torn[i] \/ (/\ withdrawn[i] \in BOOLEAN
                  /\ Sound(t, withdrawn[i]) /\ Sound(idle, withdrawn[i]) /\ ~Firm(task[i]))
  <2> SUFFICES ASSUME ~torn[i]
               PROVE  /\ withdrawn[i] \in BOOLEAN
                      /\ Sound(t, withdrawn[i]) /\ Sound(idle, withdrawn[i]) /\ ~Firm(task[i])
    OBVIOUS
  <2>1. Sound(task[i], withdrawn[i]) /\ withdrawn[i] \in BOOLEAN
    BY DEF SessionInv, TypeInv, TypeOK
  <2>2. ~(Len(t.rows) > Len(task[i].rows))
    BY <1>1, <1>3, RowsTyped
  <2>3. Sound(t, withdrawn[i]) /\ (Firm(task[i]) => Firm(t))
    BY <1>3, <2>1, <2>2 DEF Advances
  <2>4. Sound(idle, withdrawn[i])
    BY <1>7, <2>1, <2>3 DEF Advances
  <2> QED BY <1>3, <2>1, <2>3, <2>4 DEF Firm
<1>9. CASE /\ StatusIn(t, n) = "QUEUED"
           /\ SetTasks([seen EXCEPT ![i] = Cancelled(SetRow(idle, n, "DONE"))], {})
  <2> DEFINE u == SetRow(idle, n, "DONE")
  <2>1. u \in Task /\ Len(u.rows) = Len(task[i].rows)
    BY <1>3, <1>7, SetRowFacts DEF OneLike, RowStatus
  <2>2. torn[i] \/ (OpenInputs(u) = {} /\ Sound(u, TRUE))
    <3> SUFFICES ASSUME ~torn[i] PROVE OpenInputs(u) = {} /\ Sound(u, TRUE)
      OBVIOUS
    <3>1. Sound(idle, withdrawn[i]) /\ n = Len(idle.rows)
      BY <1>3, <1>7, <1>8, ClosedIs
    <3>2. n \in OpenInputs(idle)
      BY <1>7, <1>9 DEF OpenInputs, StatusIn
    <3> HIDE DEF idle, n
    <3> QED BY <1>7, <3>1, <3>2, NewestDone
  <2>3. \A j \in Issue : j # i => Advances(task[j], seen[j])
    BY <1>1, <1>4, AdvancesSelf
  <2> HIDE DEF u
  <2>4. SetTasks([seen EXCEPT ![i] = Cancelled(u)], {})
    BY <1>9 DEF u
  <2>5. /\ SessionInv' /\ DoneStep /\ task'[i].rows = u.rows
        /\ \A j \in Issue : j # i => task'[j] = seen[j]
    BY <1>1, <1>4, <1>8, <2>1, <2>2, <2>3, <2>4, CancelledNext
  <2>6. ASSUME NEW j \in Issue PROVE ~NewWork(j)
    BY <1>1, <1>4, <2>1, <2>5, RowsTyped DEF NewWork
  <2> QED BY <2>5, <2>6 DEF ReadyStep
<1>10. CASE /\ StatusIn(t, n) \notin {"QUEUED", "CLAIMED"}
            /\ SetTasks([Synced([seen EXCEPT ![i] = idle], {i}) EXCEPT ![i] = Cancelled(@)], {})
  <2> DEFINE M == [seen EXCEPT ![i] = idle]
             again == Synced(M, {i})
  <2>1. M \in [Issue -> Task] /\ M[i] = idle /\ \A j \in Issue : j # i => M[j] = task[j]
    BY <1>4, <1>7
  <2>2. SetTasks([again EXCEPT ![i] = Cancelled(again[i])], {})
    BY <1>10
  <2> HIDE DEF M
  <2>3. /\ again \in [Issue -> Task]
        /\ \A j \in Issue : Advances(M[j], again[j]) /\ again[j].blockedBy = M[j].blockedBy
    BY <2>1, SyncedMoved, SyncedAdvances DEF Moved, Keeps
  <2>4. torn[i] \/ (OpenInputs(t) = {} /\ \A j \in Issue : again[j].rows = M[j].rows)
    <3> SUFFICES ASSUME ~torn[i]
                 PROVE  OpenInputs(t) = {} /\ \A j \in Issue : again[j].rows = M[j].rows
      OBVIOUS
    <3>1. OpenInputs(t) = {}
      BY <1>3, <1>8, <1>10, ClosedIs
    <3>2. Refreshed(idle).run # "completed"
      BY <1>1, <1>3, <1>8, <3>1, IdleIsNotCompleted
    <3>3. \A j \in Issue : again[j] = IF j = i THEN Refreshed(M[i]) ELSE M[j]
      BY <2>1, <3>2, SyncedQuiet
    <3>4. Refreshed(M[i]).rows = M[i].rows
      BY <2>1, RefreshedFacts
    <3> QED BY <3>1, <3>3, <3>4
  <2>5. ASSUME NEW k \in Issue, Len(again[k].rows) > Len(M[k].rows), NEW b \in M[k].blockedBy
        PROVE  M[b].status = "done" \/ b = i
    BY <2>1, <2>5, SyncedReady
  <2> HIDE DEF again
  <2>6. torn[i] \/ (OpenInputs(again[i]) = {} /\ \E gone \in BOOLEAN : Sound(again[i], gone))
    <3> SUFFICES ASSUME ~torn[i]
                 PROVE  OpenInputs(again[i]) = {} /\ \E gone \in BOOLEAN : Sound(again[i], gone)
      OBVIOUS
    <3>1. again[i].rows = t.rows
      BY <1>7, <2>1, <2>4
    <3>2. OpenInputs(again[i]) = {}
      BY <2>4, <3>1 DEF OpenInputs
    <3>3. Sound(again[i], withdrawn[i])
      BY <1>8, <2>1, <2>3 DEF Advances
    <3> QED BY <1>8, <3>2, <3>3
  <2>7. \A j \in Issue : j # i => Advances(task[j], again[j])
    BY <2>1, <2>3
  <2>8. /\ SessionInv' /\ DoneStep /\ task'[i].rows = again[i].rows
        /\ task'[i].blockedBy = again[i].blockedBy
        /\ \A j \in Issue : j # i => task'[j] = again[j]
    <3>1. again[i] \in Task /\ (Firm(task[i]) => torn[i] \/ cancelling[i])
      BY <1>8, <2>3
    <3>2. again \in [Issue -> Task]
      BY <2>3
    <3> DEFINE x == again[i]
    <3>3. /\ x \in Task /\ SetTasks([again EXCEPT ![i] = Cancelled(x)], {})
          /\ torn[i] \/ (OpenInputs(x) = {} /\ \E gone \in BOOLEAN : Sound(x, gone))
      BY <2>2, <2>6, <3>1
    <3> HIDE DEF x
    <3>4. /\ SessionInv' /\ DoneStep /\ task'[i].rows = x.rows
          /\ task'[i].blockedBy = x.blockedBy
          /\ \A j \in Issue : j # i => task'[j] = again[j]
      <4>1. UNCHANGED torn
        BY <1>1
      <4>2. Firm(task[i]) => torn[i] \/ cancelling[i]
        BY <3>1
      <4> QED BY <2>7, <3>2, <3>3, <4>1, <4>2, CancelledNext
    <3> QED BY <3>4 DEF x
  <2>9. \A j \in Issue : /\ task'[j].rows = again[j].rows /\ M[j].rows = task[j].rows
                         /\ task'[j].blockedBy = M[j].blockedBy
                         /\ Len(task[j].rows) \in Nat /\ M[j].blockedBy \subseteq Issue
    <3>1. \A j \in Issue : M[j].rows = task[j].rows /\ task[j] \in Task /\ M[j] \in Task
      BY <1>1, <1>3, <1>7, <2>1
    <3>2. \A j \in Issue : task'[j].rows = again[j].rows /\ task'[j].blockedBy = M[j].blockedBy
      BY <2>3, <2>8
    <3>3. \A j \in Issue : Len(task[j].rows) \in Nat /\ M[j].blockedBy \subseteq Issue
      BY <3>1, RowsTyped DEF Task
    <3> QED BY <3>1, <3>2, <3>3
  <2>10. ASSUME NEW k \in Issue, NewWork(k), NEW b \in task'[k].blockedBy
         PROVE  torn[b] \/ task[b].status = "done"
    <3>1. Len(again[k].rows) > Len(M[k].rows) /\ b \in M[k].blockedBy /\ b \in Issue
      BY <2>9, <2>10 DEF NewWork
    <3>2. torn[i]
      BY <2>4, <2>9, <3>1
    <3> QED BY <2>1, <2>5, <3>1, <3>2
  <2> QED BY <2>8, <2>10 DEF ReadyStep
<1> HIDE DEF n, idle
<1> QED BY <1>5, <1>6, <1>9, <1>10

--------------------------------------------------------------------------------
(* The theorems *)

LEMMA SessionInit == Init => SessionInv
<1> SUFFICES ASSUME Init PROVE SessionInv
  OBVIOUS
<1>1. \A i \in Issue : task[i] = NoTask
  BY DEF Init
<1>2. OpenInputs(NoTask) = {} /\ Len(NoTask.rows) = 0
  BY NoTaskTyped DEF OpenInputs, NoTask
<1>3. NoTask.latest = 0 /\ NoTask.rtInput = NoInput /\ NoTask.cur = NoInput /\ NoTask.run = "none"
  BY DEF NoTask, NoInput
<1>4. \A gone : Sound(NoTask, gone)
  BY <1>2, <1>3 DEF Sound, Pointed, Tied, Live
<1> QED BY <1>1, <1>4 DEF SessionInv

\* A step that leaves the issues alone.
LEMMA SameSession ==
  ASSUME TypeInv, SessionInv, UNCHANGED <<task, withdrawn, torn>>
  PROVE  SessionInv' /\ DoneStep /\ ReadyStep
<1>1. SessionInv'
  BY DEF SessionInv
<1>2. DoneStep
  BY DEF DoneStep
<1>3. \A i \in Issue : ~NewWork(i)
  BY TaskTyped, RowsTyped DEF NewWork
<1> QED BY <1>1, <1>2, <1>3 DEF ReadyStep

LEMMA SessionNext == BoardInv /\ SessionInv /\ [Next]_vars => SessionInv' /\ DoneStep /\ ReadyStep
<1> SUFFICES ASSUME TypeInv, GraphInv, SessionInv, [Next]_vars
             PROVE  SessionInv' /\ DoneStep /\ ReadyStep
  BY DEF BoardInv
<1>1. ASSUME NEW i \in Issue, UserStep(i) PROVE SessionInv' /\ DoneStep /\ ReadyStep
  <2>1. ASSUME Read(i) PROVE SessionInv' /\ DoneStep /\ ReadyStep
    BY <2>1, ReadSession DEF Read
  <2>2. ASSUME NEW st \in UserStatus \cup {task[i].status},
               NEW B \in SUBSET Issue, NEW named \in BOOLEAN,
               NEW active \in {task[i].active, FALSE}, NEW linked \in {task[i].linked, FALSE},
               Patch(i, st, B, named, active, linked)
        PROVE  SessionInv' /\ DoneStep /\ ReadyStep
    BY <2>2, PatchSession
  <2> QED
    BY <1>1, <2>1, <2>2, CreateSession, DelegateSession, RedispatchSession,
       FollowUpSession, PauseQueuedSession, DeleteQueuedSession, CancelSession DEF UserStep
<1>2. ASSUME NEW i \in Issue, CancelSettles(i) PROVE SessionInv' /\ DoneStep /\ ReadyStep
  BY <1>2, CancelSettlesSession
<1>3. ASSUME NEW i \in Issue, CancelTimeout(i) PROVE SessionInv' /\ DoneStep /\ ReadyStep
  BY <1>3, ReadSession DEF CancelTimeout
<1>4. ASSUME NEW i \in Issue, ExecutorStep(i) PROVE SessionInv' /\ DoneStep /\ ReadyStep
  BY <1>4, ClaimSession, GatePassSession, SetupThrowSession, RunnerExitSession,
     RecoverClaimSession DEF ExecutorStep
<1>5. ASSUME NEW i \in Issue, Outage(i) PROVE SessionInv' /\ DoneStep /\ ReadyStep
  BY <1>5, DispatchCutSession, FollowUpCutSession, RunnerExitCutSession DEF Outage
<1>6. ASSUME UNCHANGED <<task, withdrawn, torn>> PROVE SessionInv' /\ DoneStep /\ ReadyStep
  BY <1>6, SameSession
<1> QED BY <1>1, <1>2, <1>3, <1>4, <1>5, <1>6 DEF Next, Crash, vars, histVars

LEMMA SessionAlways == Spec => [](BoardInv /\ SessionInv)
BY BoardInit, BoardNext, SessionInit, SessionNext, PTL DEF Spec

\* A session has one open input at most, whatever edits, replies, reruns, follow-ups,
\* cancels, pauses and recoveries there are, unless a block that gave it an input or
\* ended its turn was cut, or a user took the ids of its run off the issue while alive.
THEOREM OneInput == Spec => []OneInputAtATime
<1>1. ASSUME BoardInv, SessionInv PROVE OneInputAtATime
  <2> SUFFICES ASSUME NEW i \in Issue, ~torn[i] PROVE ~(Cardinality(OpenInputs(task[i])) > 1)
    BY DEF OneInputAtATime
  <2> DEFINE n == Len(task[i].rows)
  <2>1. OpenInputs(task[i]) \subseteq {n}
    BY <1>1 DEF SessionInv, Sound, Pointed
  <2>2. IsFiniteSet({n}) /\ Cardinality({n}) = 1
    BY FS_Singleton
  <2>3. /\ IsFiniteSet(OpenInputs(task[i]))
        /\ Cardinality(OpenInputs(task[i])) <= Cardinality({n})
    BY <2>1, <2>2, FS_Subset
  <2>4. Cardinality(OpenInputs(task[i])) \in Nat
    BY <2>3, FS_CardinalityType
  <2> QED BY <2>2, <2>3, <2>4
<1> QED BY <1>1, SessionAlways, PTL

\* What a run reports as over, or as waiting for the user, has no input that will be
\* executed, with the same two exceptions.
THEOREM SettledRunNothing == Spec => []SettledRunsRunNothing
<1>1. BoardInv /\ SessionInv => SettledRunsRunNothing
  BY DEF SessionInv, Sound, Underway, SettledRunsRunNothing
<1> QED BY <1>1, SessionAlways, PTL

\* A run that refuses a rerun because it is queued or running has an input to execute.
THEOREM LiveHaveWork == Spec => []LiveRunsHaveWork
<1>1. ASSUME BoardInv, SessionInv PROVE LiveRunsHaveWork
  <2> SUFFICES ASSUME NEW i \in Issue, task[i].run \in {"queued", "running"}, ~torn[i],
                      OpenInputs(task[i]) = {}
               PROVE  withdrawn[i]
    BY DEF LiveRunsHaveWork
  <2>1. Sound(task[i], withdrawn[i])
    BY <1>1 DEF SessionInv
  <2>2. Over(task[i], withdrawn[i])
    BY <2>1 DEF Sound
  <2> QED BY <2>2 DEF Over
<1> QED BY <1>1, SessionAlways, PTL

\* Work that a run has completed is reopened on purpose only.
THEOREM CompletedStaysDone == Spec => CompletedWorkStaysDone
<1>1. BoardInv /\ SessionInv /\ [Next]_vars =>
        [\A i \in Issue :
           task[i].status = "done" /\ task[i].run = "completed" /\ task'[i].status # "done" =>
             \/ byHand'[i] \/ torn[i]
             \/ NewWork(i)
             \/ task'[i].run = "cancelled" /\ cancelling[i]]_vars
  BY SessionNext DEF DoneStep
<1> QED BY <1>1, SessionAlways, PTL DEF Spec, CompletedWorkStaysDone

\* No edit, read, cancel or end of a turn dispatches an issue ahead of what blocks it;
\* only a follow-up, which resumes or continues the run of its issue, looks at no blocker.
THEOREM BlockersFirst == Spec => NothingStartsBeforeItsBlockers
<1>1. BoardInv /\ SessionInv /\ [Next]_vars =>
        [\A i \in Issue : NewWork(i) /\ i \notin followed' \ followed =>
           \A b \in task'[i].blockedBy :
             \/ "done" \in {task[b].status, task'[b].status}
             \/ cancelling[b] /\ task'[b].run = "cancelled"
             \/ b \in followed' \ followed
             \/ torn[b]]_vars
  BY SessionNext DEF ReadyStep
<1> QED BY <1>1, SessionAlways, PTL DEF Spec, NothingStartsBeforeItsBlockers

--------------------------------------------------------------------------------
(* The life of an input *)

SameInput(t, u, n) == PhaseIn(u, n) = PhaseIn(t, n) /\ TurnIn(u, n) = TurnIn(t, n)

\* One step in the life of input n.
Goes(t, u, n) ==
  \/ /\ TurnIn(u, n) = TurnIn(t, n)
     /\ <<PhaseIn(t, n), PhaseIn(u, n)>> \in
          {<<"absent", "waiting">>, <<"waiting", "taken">>, <<"waiting", "settled">>,
           <<"taken", "settled">>}
  \/ /\ TurnIn(u, n) = "none" /\ TurnIn(t, n) = "none"
     /\ PhaseIn(t, n) = "taken" /\ PhaseIn(u, n) = "waiting"
  \/ /\ TurnIn(t, n) = "none" /\ TurnIn(u, n) \in Turn
     /\ PhaseIn(t, n) \in {"waiting", "taken"} /\ PhaseIn(u, n) = "settled"

\* What a step may do to the inputs of a session.
Lives(t, u) ==
  \/ \A n \in Inputs : SameInput(t, u, n)
  \/ \E n \in Inputs : Goes(t, u, n) /\ \A m \in Inputs \ {n} : SameInput(t, u, m)

LifeStep == \A j \in Issue : Lives(task[j], task'[j])

\* What is still to be executed has no turn result, also behind a block that was cut.
Blank(t) == \A n \in OpenInputs(t) : TurnIn(t, n) = "none"

BlankInv == \A j \in Issue : Blank(task[j])

Fresh == [status |-> "QUEUED", turn |-> "none"]

\* No input, or a new one.
Grows(t, u) == u.rows = t.rows \/ u.rows = Append(t.rows, Fresh)

LEMMA InputsAre ==
  ASSUME NEW t \in Task
  PROVE  /\ DOMAIN t.rows \subseteq Inputs /\ OpenInputs(t) \subseteq Inputs
         /\ \A n \in OpenInputs(t) : n \in DOMAIN t.rows /\ PhaseIn(t, n) \in {"waiting", "taken"}
<1>1. DOMAIN t.rows = 1..Len(t.rows) /\ Len(t.rows) \in Nat
  BY RowsTyped
<1>2. DOMAIN t.rows \subseteq Inputs
  BY <1>1 DEF Inputs, NoInput
<1> QED BY <1>2 DEF OpenInputs, PhaseIn, StatusIn

LEMMA LivesSame == ASSUME NEW t, NEW u, u.rows = t.rows PROVE Lives(t, u)
BY DEF Lives, SameInput, PhaseIn, StatusIn, TurnIn

\* Nothing but the rows counts.
LEMMA LivesByRows ==
  ASSUME NEW t, NEW u, NEW x, NEW y, x.rows = t.rows, y.rows = u.rows, Lives(t, u)
  PROVE  Lives(x, y)
<1>1. \A n : PhaseIn(x, n) = PhaseIn(t, n) /\ TurnIn(x, n) = TurnIn(t, n)
  BY DEF PhaseIn, StatusIn, TurnIn
<1>2. \A n : PhaseIn(y, n) = PhaseIn(u, n) /\ TurnIn(y, n) = TurnIn(u, n)
  BY DEF PhaseIn, StatusIn, TurnIn
<1>3. \A n : (Goes(t, u, n) => Goes(x, y, n)) /\ (SameInput(t, u, n) => SameInput(x, y, n))
  BY <1>1, <1>2 DEF Goes, SameInput
<1> QED BY <1>3 DEF Lives

LEMMA GrowsLives == ASSUME NEW t \in Task, NEW u, Grows(t, u) PROVE Lives(t, u)
<1>1. CASE u.rows = t.rows
  BY <1>1, LivesSame
<1>2. CASE u.rows = Append(t.rows, Fresh)
  <2> DEFINE n == Len(t.rows) + 1
  <2>1. /\ t.rows \in Seq(Row) /\ Len(t.rows) \in Nat /\ DOMAIN t.rows = 1..Len(t.rows)
        /\ DOMAIN u.rows = 1..n /\ \A m \in DOMAIN t.rows : u.rows[m] = t.rows[m]
    BY <1>2, RowsTyped, AppendedRows DEF Fresh
  <2>2. u.rows[n] = Fresh
    BY <1>2, <2>1
  <2>3. n \in Inputs /\ n \notin DOMAIN t.rows /\ n \in DOMAIN u.rows
    BY <2>1 DEF Inputs, NoInput
  <2>4. \A m \in Inputs \ {n} : m \in DOMAIN u.rows <=> m \in DOMAIN t.rows
    BY <2>1 DEF Inputs
  <2> HIDE DEF n
  <2>5. Goes(t, u, n)
    BY <2>2, <2>3 DEF Goes, PhaseIn, StatusIn, TurnIn, Fresh
  <2>6. \A m \in Inputs \ {n} : SameInput(t, u, m)
    BY <2>1, <2>4 DEF SameInput, PhaseIn, StatusIn, TurnIn
  <2> QED BY <2>3, <2>5, <2>6 DEF Lives
<1> QED BY <1>1, <1>2 DEF Grows

\* One row is written: its status, and maybe its turn result.
LEMMA RowLives ==
  ASSUME NEW t \in Task, Blank(t), NEW u, NEW n \in OpenInputs(t),
         DOMAIN u.rows = DOMAIN t.rows,
         \A m \in DOMAIN t.rows \ {n} : u.rows[m] = t.rows[m],
         u.rows[n].status # "NONE",
         \/ u.rows[n].turn = t.rows[n].turn
         \/ u.rows[n].turn \in Turn /\ u.rows[n].status \notin {"QUEUED", "CLAIMED"}
  PROVE  Lives(t, u)
<1>1. n \in Inputs /\ n \in DOMAIN t.rows /\ PhaseIn(t, n) \in {"waiting", "taken"}
  BY InputsAre
<1>2. TurnIn(t, n) = "none"
  BY DEF Blank
<1>3. \A m \in Inputs \ {n} : SameInput(t, u, m)
  BY DEF SameInput, PhaseIn, StatusIn, TurnIn
<1>4. TurnIn(u, n) = u.rows[n].turn /\ StatusIn(u, n) = u.rows[n].status /\ TurnIn(t, n) = t.rows[n].turn
  BY <1>1 DEF TurnIn, StatusIn
<1>5. PhaseIn(u, n) \in {"waiting", "taken", "settled"}
      /\ (u.rows[n].status \notin {"QUEUED", "CLAIMED"} => PhaseIn(u, n) = "settled")
  BY <1>4 DEF PhaseIn
<1>6. Goes(t, u, n) \/ SameInput(t, u, n)
  BY <1>1, <1>2, <1>4, <1>5 DEF Goes, SameInput
<1>7. CASE Goes(t, u, n)
  BY <1>1, <1>3, <1>7 DEF Lives
<1>8. CASE SameInput(t, u, n)
  BY <1>3, <1>8 DEF Lives
<1> QED BY <1>6, <1>7, <1>8

LEMMA SetRowLives ==
  ASSUME NEW t \in Task, Blank(t), NEW n \in OpenInputs(t), NEW st \in RowStatus,
         NEW u, u.rows = SetRow(t, n, st).rows
  PROVE  Lives(t, u)
<1> DEFINE r == [t.rows[n] EXCEPT !.status = st]
<1>1. n \in DOMAIN t.rows /\ t.rows \in Seq(Row)
  BY InputsAre, RowsTyped
<1>2. r \in Row /\ r.status = st /\ r.turn = t.rows[n].turn
  BY <1>1, RowsTyped DEF Row, RowStatus
<1>3. SetRow(t, n, st).rows = [t.rows EXCEPT ![n] = r]
  BY DEF SetRow, Task
<1> HIDE DEF r
<1>4. DOMAIN u.rows = DOMAIN t.rows
      /\ \A m \in DOMAIN t.rows : u.rows[m] = IF m = n THEN r ELSE t.rows[m]
  BY <1>1, <1>2, <1>3, RowReplaced
<1>5. u.rows[n].status # "NONE" /\ u.rows[n].turn = t.rows[n].turn
  BY <1>1, <1>2, <1>4 DEF RowStatus
<1> QED BY <1>4, <1>5, RowLives

\* The row and the turn result are written.
LEMMA AnswerLives ==
  ASSUME NEW t \in Task, Blank(t), NEW n \in OpenInputs(t),
         NEW st \in RowStatus \ {"QUEUED", "CLAIMED"}, NEW v \in Turn,
         NEW w \in Task, w.rows = SetRow(t, n, st).rows,
         NEW u, u.rows = [w EXCEPT !.rows[n].turn = v].rows
  PROVE  Lives(t, u)
<1> DEFINE r == [t.rows[n] EXCEPT !.status = st]
           q == [w.rows[n] EXCEPT !.turn = v]
<1>1. n \in DOMAIN t.rows /\ t.rows \in Seq(Row) /\ w.rows \in Seq(Row)
  BY InputsAre, RowsTyped
<1>2. r \in Row /\ r.status = st
  BY <1>1, RowsTyped DEF Row, RowStatus
<1>3. w.rows = [t.rows EXCEPT ![n] = r]
  BY DEF SetRow, Task
<1> HIDE DEF r
<1>4. DOMAIN w.rows = DOMAIN t.rows
      /\ \A m \in DOMAIN t.rows : w.rows[m] = IF m = n THEN r ELSE t.rows[m]
  BY <1>1, <1>2, <1>3, RowReplaced
<1>5. q \in Row /\ q.status = st /\ q.turn = v
  BY <1>1, <1>2, <1>4 DEF Row
<1>6. u.rows = [w.rows EXCEPT ![n] = q]
  BY DEF Task
<1> HIDE DEF q
<1>7. DOMAIN u.rows = DOMAIN w.rows
      /\ \A m \in DOMAIN w.rows : u.rows[m] = IF m = n THEN q ELSE w.rows[m]
  BY <1>1, <1>5, <1>6, RowReplaced
<1>8. /\ DOMAIN u.rows = DOMAIN t.rows /\ \A m \in DOMAIN t.rows \ {n} : u.rows[m] = t.rows[m]
      /\ u.rows[n].status = st /\ u.rows[n].turn = v
  BY <1>1, <1>4, <1>5, <1>7
<1> QED BY <1>8, RowLives DEF RowStatus

\* An open input that goes on is still without a turn result.
LEMMA BlankKept ==
  ASSUME NEW t \in Task, NEW u \in Task, Blank(t), Lives(t, u) PROVE Blank(u)
<1> SUFFICES ASSUME NEW n \in OpenInputs(u) PROVE TurnIn(u, n) = "none"
  BY DEF Blank
<1>1. n \in Inputs /\ PhaseIn(u, n) \in {"waiting", "taken"}
  BY InputsAre
<1>2. PhaseIn(t, n) \in {"waiting", "taken"} => n \in OpenInputs(t)
  BY DEF PhaseIn, StatusIn, OpenInputs
<1>3. PhaseIn(t, n) = "absent" => TurnIn(t, n) = "none"
  <2>1. n \in DOMAIN t.rows => t.rows[n].status # "NONE"
    BY RowsTyped DEF RowStatus
  <2> QED BY <2>1 DEF PhaseIn, StatusIn, TurnIn
<1>4. PhaseIn(t, n) \in {"absent", "waiting", "taken"} => TurnIn(t, n) = "none"
  BY <1>2, <1>3 DEF Blank
<1>5. Goes(t, u, n) \/ SameInput(t, u, n)
  BY <1>1 DEF Lives
<1> QED BY <1>1, <1>4, <1>5 DEF Goes, SameInput

\* A read gives an issue one input at most, and none to the one that is read.
LEMMA SyncedGrows ==
  ASSUME NEW T \in [Issue -> Task], NEW S, NEW j \in Issue
  PROVE  Synced(T, S)[j] \in Task /\ Grows(T[j], Synced(T, S)[j])
<1>1. PICK t \in {T[j], Refreshed(T[j])} : Synced(T, S)[j] \in {t, Refreshed(t), Dispatched(t)}
  BY SyncedIs
<1>2. t \in Task /\ t.rows = T[j].rows
  BY <1>1, RefreshedFacts DEF Keeps
<1>3. /\ Refreshed(t).rows = t.rows /\ Dispatched(t).rows = Append(t.rows, Fresh)
  BY <1>2, RefreshedFacts, DispatchedIs DEF Fresh
<1>4. Synced(T, S)[j] \in Task
  BY SyncedIs
<1> QED BY <1>1, <1>2, <1>3, <1>4 DEF Grows

LEMMA SyncedOwn ==
  ASSUME NEW T \in [Issue -> Task], NEW i \in Issue, i \notin T[i].blockedBy
  PROVE  Synced(T, {i})[i].rows = T[i].rows
<1> DEFINE seen == [k \in Issue |-> IF k \in {i} THEN Refreshed(T[k]) ELSE T[k]]
           done == {k \in {i} : seen[k].run = "completed" /\ T[k].status # "done"}
           next == ReadyDownstream(seen, done)
           quoted == {b \in UNION {T[k].blockedBy : k \in next} : seen[b].linked}
<1>1. Synced(T, {i})[i] = IF i \in next THEN Dispatched(seen[i])
                          ELSE IF i \in quoted THEN Refreshed(seen[i]) ELSE seen[i]
  BY DEF Synced
<1>2. /\ seen[i] \in Task /\ seen[i].rows = T[i].rows /\ seen[i].blockedBy = T[i].blockedBy
      /\ Refreshed(seen[i]).rows = T[i].rows
  BY RefreshedFacts DEF Keeps
<1>3. done \subseteq {i}
  OBVIOUS
<1> HIDE DEF seen, done
<1>4. i \notin next
  BY <1>2, <1>3 DEF ReadyDownstream
<1> HIDE DEF next, quoted
<1> QED BY <1>1, <1>2, <1>4

LEMMA DispatchIfReadyGrows ==
  ASSUME NEW T \in [Issue -> Task], NEW i \in Issue, NEW j \in Issue
  PROVE  Grows(T[j], DispatchIfReady(T, i)[j])
<1>1. T[i] \in Task /\ Dispatched(T[i]).rows = Append(T[i].rows, Fresh)
  BY DispatchedIs DEF Fresh
<1> QED BY <1>1 DEF DispatchIfReady, Grows

\* The end of a turn.
LEMMA EndedLives ==
  ASSUME NEW t \in Task, Blank(t), NEW n \in OpenInputs(t), NEW v \in Turn, NEW k \in 1..5
  PROVE  Ended(t, n, v, k) \in Task /\ Lives(t, Ended(t, n, v, k))
<1> DEFINE st == RowStatusOf(v)
           row == SetRow(t, n, st)
           runtime == IF k >= 2 THEN SetRuntime(row, RuntimeStatusOf(v), NoInput) ELSE row
           turn == IF k >= 3 THEN [runtime EXCEPT !.rows[n].turn = v] ELSE runtime
           run == IF k >= 4 THEN Reported(turn, n, v) ELSE turn
<1>1. st \in RowStatus \ {"QUEUED", "CLAIMED"} /\ RuntimeStatusOf(v) \in RuntimeStatus
  BY VerdictTypes DEF Turn, RowStatusOf
<1>2. n \in Nat
  BY InputsAre DEF Inputs
<1>3. Ended(t, n, v, k) = IF k >= 5 THEN Refreshed(run) ELSE run
  BY DEF Ended
<1> HIDE DEF st
<1>4. row \in Task
  BY <1>1, SetRowIs
<1>5. runtime \in Task /\ runtime.rows = row.rows
  <2> HIDE DEF row
  <2> QED BY <1>1, <1>4, SetRuntimeFacts DEF Keeps, NoInput
<1>6. turn \in Task /\ Lives(t, turn)
  <2> HIDE DEF runtime
  <2>1. CASE k >= 3
    <3>1. [runtime EXCEPT !.rows[n].turn = v] \in Task
      BY <1>5, SetTurnFacts DEF OneLike
    <3>2. Lives(t, [runtime EXCEPT !.rows[n].turn = v])
      BY <1>1, <1>5, AnswerLives
    <3> QED BY <2>1, <3>1, <3>2
  <2>2. CASE ~(k >= 3)
    BY <1>1, <1>5, <2>2, SetRowLives
  <2> QED BY <2>1, <2>2
<1> HIDE DEF turn
<1>7. run \in Task /\ run.rows = turn.rows
  <2>1. Reported(turn, n, v) \in Task
    BY <1>2, <1>6, ReportedFacts DEF Keeps
  <2>2. Reported(turn, n, v).rows = turn.rows
    BY <1>6 DEF Reported, Task
  <2> QED BY <1>6, <2>1, <2>2
<1> HIDE DEF run
<1>8. Refreshed(run) \in Task /\ Refreshed(run).rows = turn.rows
  BY <1>7, RefreshedFacts DEF Keeps
<1>9. ASSUME NEW u, u.rows = turn.rows PROVE Lives(t, u)
  BY <1>6, <1>9, LivesByRows
<1> QED BY <1>3, <1>7, <1>8, <1>9

LEMMA OneLives ==
  ASSUME TypeInv, NEW i \in Issue, NEW u, task' = With(i, u), Lives(task[i], u)
  PROVE  LifeStep
<1>1. task'[i] = u /\ \A j \in Issue : j # i => task'[j] = task[j]
  BY DEF With, TypeInv, TypeOK
<1>2. \A j \in Issue : j # i => Lives(task[j], task'[j])
  BY <1>1, LivesSame
<1> QED BY <1>1, <1>2 DEF LifeStep

LEMMA AllLive ==
  ASSUME NEW T, NEW hand, SetTasks(T, hand), \A j \in Issue : Lives(task[j], T[j])
  PROVE  LifeStep
BY DEF SetTasks, LifeStep

LEMMA AllGrow ==
  ASSUME TypeInv, NEW T, NEW hand, SetTasks(T, hand), \A j \in Issue : Grows(task[j], T[j])
  PROVE  LifeStep
BY TaskTyped, GrowsLives, AllLive

LEMMA BlankTask == ASSUME TypeInv, BlankInv, NEW i \in Issue PROVE task[i] \in Task /\ Blank(task[i])
BY TaskTyped DEF BlankInv

\* An issue is written that has its inputs already, and dispatched or not.
LEMMA WrittenGrows ==
  ASSUME TypeInv, NEW i \in Issue, NEW new \in Task, new.rows = task[i].rows, NEW j \in Issue
  PROVE  /\ Grows(task[j], With(i, new)[j])
         /\ Grows(task[j], DispatchIfReady(With(i, new), i)[j])
<1> DEFINE T == With(i, new)
<1>1. T \in [Issue -> Task] /\ \A k \in Issue : T[k].rows = task[k].rows
  BY DEF With, TypeInv, TypeOK
<1> HIDE DEF T
<1>2. Grows(T[j], DispatchIfReady(T, i)[j])
  BY <1>1, DispatchIfReadyGrows
<1>3. Grows(task[j], T[j]) /\ Grows(task[j], DispatchIfReady(T, i)[j])
  BY <1>1, <1>2 DEF Grows
<1> QED BY <1>3 DEF T

LEMMA CreateLives ==
  ASSUME TypeInv, NEW i \in Issue, NEW st \in UserStatus, NEW B \in SUBSET Issue, Create(i, st, B)
  PROVE  LifeStep
<1> DEFINE new == Made(st, B)
           U == DispatchIfReady(With(i, new), i)
<1>1. st \in IssueStatus /\ ~Exists(i) /\ SetTasks(U, {})
  BY IssueWorkflowAssumption DEF IssueWorkflowAssumption, Create, NextIssue, Made
<1>2. new \in Task /\ new.rows = task[i].rows
  BY <1>1, MadeTypes, MadeAdvances, AbsentIdle
<1> HIDE DEF new
<1>3. \A j \in Issue : Grows(task[j], U[j])
  BY <1>2, WrittenGrows
<1> HIDE DEF U
<1> QED BY <1>1, <1>3, AllGrow

LEMMA PatchLives ==
  ASSUME TypeInv, NEW i \in Issue, NEW st \in UserStatus \cup {task[i].status},
         NEW B \in SUBSET Issue, NEW named \in BOOLEAN,
         NEW active \in {task[i].active, FALSE}, NEW linked \in {task[i].linked, FALSE},
         Patch(i, st, B, named, active, linked)
  PROVE  LifeStep
<1> DEFINE new == [task[i] EXCEPT !.status = st, !.blockedBy = B,
                                  !.active = active, !.linked = linked]
<1>1. /\ task[i] \in Task /\ st \in IssueStatus
      /\ active \in BOOLEAN /\ linked \in BOOLEAN
  BY IssueWorkflowAssumption, TaskTyped
     DEF IssueWorkflowAssumption, IssueStatus, Patch, Exists, Task
<1>2. new \in Task /\ new.rows = task[i].rows
  BY <1>1 DEF Task
<1>3. \/ SetTasks(DispatchIfReady(With(i, new), i), {i})
      \/ SetTasks(With(i, new), {i})
  BY DEF Patch
<1> HIDE DEF new
<1> QED BY <1>2, <1>3, WrittenGrows, AllGrow

LEMMA GivenGrows ==
  ASSUME NEW t \in Task, NEW k \in 0..3
  PROVE  Grows(t, Given(t, k))
<1>1. ASSUME NEW w \in Task PROVE Grows(w, Given(w, k))
  <2> DEFINE n == Len(w.rows) + 1
             row == [w EXCEPT !.rows = Append(w.rows, Fresh)]
             runtime == SetRuntime(row, "QUEUED", n)
             all == [Opened(runtime) EXCEPT !.cur = n, !.latest = n]
  <2>1. Given(w, k) \in {w, row, runtime, all}
    <3>1. CASE k = 0
      BY <3>1 DEF Given
    <3>2. CASE k = 1
      BY <3>2 DEF Given, Fresh
    <3>3. CASE k = 2
      BY <3>3 DEF Given, Fresh
    <3>4. CASE k = 3
      BY <3>4 DEF Given, Fresh
    <3> QED BY <3>1, <3>2, <3>3, <3>4
  <2>2. DOMAIN row = DOMAIN w /\ row.rows = Append(w.rows, Fresh)
    BY DEF Task
  <2>3. runtime.rows = row.rows /\ all.rows = row.rows
    <3> HIDE DEF row, n
    <3> QED BY <2>2 DEF SetRuntime, Opened, Task
  <2> HIDE DEF row, runtime, all
  <2> QED BY <2>1, <2>2, <2>3 DEF Grows
<1> QED BY <1>1

LEMMA BegunGrows ==
  ASSUME NEW t \in Task, NEW k \in 0..4
  PROVE  Grows(t, Begun(t, k))
<1> DEFINE w == SetRuntime(Opened(t), "QUEUED", NoInput)
<1>1. Opened(t) \in Task /\ Opened(t).rows = t.rows
  BY OpenedFacts DEF Keeps
<1>2. w \in Task /\ w.rows = t.rows
  <2>1. "QUEUED" \in RuntimeStatus /\ NoInput \in Nat
    BY DEF RuntimeStatus, NoInput
  <2>2. Keeps(Opened(t), w) /\ w.rows = Opened(t).rows
    BY <1>1, <2>1, SetRuntimeFacts
  <2> QED BY <1>1, <2>2 DEF Keeps
<1>3. CASE k = 0
  BY <1>1, <1>3 DEF Begun, Grows
<1>4. CASE k # 0
  <2>1. Begun(t, k) = Given(w, k - 1) /\ k - 1 \in 0..3
    BY <1>4 DEF Begun
  <2> HIDE DEF w
  <2>2. Grows(w, Given(w, k - 1))
    BY <1>2, <2>1, GivenGrows
  <2> QED BY <1>2, <2>1, <2>2 DEF Grows
<1> QED BY <1>3, <1>4

\* A reply, a rerun or a dispatch that is cut.
LEMMA DispatchLives ==
  ASSUME TypeInv, NEW i \in Issue, Redispatch(i) \/ \E k \in 0..4 : DispatchCut(i, k)
  PROVE  LifeStep
<1>1. task \in [Issue -> Task] /\ task[i] \in Task
  BY DEF TypeInv, TypeOK
<1>2. Grows(task[i], Dispatched(task[i]))
  BY <1>1, DispatchedIs DEF Fresh, Grows
<1>3. PICK u : Grows(task[i], u) /\ SetTasks([task EXCEPT ![i] = u], {})
  BY <1>1, <1>2, BegunGrows DEF Redispatch, DispatchCut
<1> DEFINE T == [task EXCEPT ![i] = u]
<1>4. \A j \in Issue : Grows(task[j], T[j])
  BY <1>1, <1>3 DEF Grows
<1>5. SetTasks(T, {})
  BY <1>3
<1> HIDE DEF T
<1> QED BY <1>4, <1>5, AllGrow

\* A run that is given an input directly.
LEMMA FollowLives ==
  ASSUME TypeInv, GraphInv, NEW i \in Issue, FollowUp(i) \/ \E k \in 1..3 : FollowUpCut(i, k)
  PROVE  LifeStep
<1> DEFINE seen == Synced(task, {i})
<1>1. task \in [Issue -> Task]
  BY DEF TypeInv, TypeOK
<1>2. seen \in [Issue -> Task] /\ \A j \in Issue : Grows(task[j], seen[j])
  BY <1>1, SyncedGrows, SyncedIs
<1>3. seen[i].rows = task[i].rows
  BY <1>1, OwnBlockers, SyncedOwn
<1>4. Grows(seen[i], Dispatched(seen[i])) /\ \A k \in 0..3 : Grows(seen[i], Given(seen[i], k))
  BY <1>2, DispatchedIs, GivenGrows DEF Fresh, Grows
<1>5. \/ SetTasks([seen EXCEPT ![i] = Dispatched(seen[i])], {})
      \/ \E k \in 1..3 : SetTasks([seen EXCEPT ![i] = Given(seen[i], k)], {})
  BY DEF FollowUp, FollowUpCut
<1> HIDE DEF seen
<1>6. PICK u : Grows(seen[i], u) /\ SetTasks([seen EXCEPT ![i] = u], {})
  <2>1. CASE SetTasks([seen EXCEPT ![i] = Dispatched(seen[i])], {})
    BY <1>4, <2>1
  <2>2. CASE \E k \in 1..3 : SetTasks([seen EXCEPT ![i] = Given(seen[i], k)], {})
    <3>1. PICK k \in 1..3 : SetTasks([seen EXCEPT ![i] = Given(seen[i], k)], {})
      BY <2>2
    <3>2. Grows(seen[i], Given(seen[i], k))
      BY <1>4
    <3> QED BY <3>1, <3>2
  <2> QED BY <1>5, <2>1, <2>2
<1> DEFINE T == [seen EXCEPT ![i] = u]
<1>7. \A j \in Issue : Grows(task[j], T[j])
  BY <1>2, <1>3, <1>6 DEF Grows
<1>8. SetTasks(T, {})
  BY <1>6
<1> HIDE DEF T
<1> QED BY <1>7, <1>8, AllGrow

LEMMA ReadLives ==
  ASSUME TypeInv, NEW i \in Issue, SetTasks(Synced(task, {i}), {}) PROVE LifeStep
<1>1. task \in [Issue -> Task]
  BY DEF TypeInv, TypeOK
<1> QED BY <1>1, SyncedGrows, AllGrow

LEMMA DelegateLives ==
  ASSUME TypeInv, NEW i \in Issue, NEW B \in SUBSET Issue, Delegate(i, B)
  PROVE  LifeStep
<1> DEFINE new == Made("todo", B)
           T == With(i, new)
           S == {b \in B : task[b].linked}
           seen == Synced(T, S)
           last == IF BlockersDone(T, i) THEN Dispatched(seen[i])
                   ELSE SetRuntime(seen[i], "IDLE", NoInput)
           U == [seen EXCEPT ![i] = last]
<1>1. MayBlock(i, B) /\ ~Exists(i) /\ SetTasks(U, {})
  BY DEF Delegate, NextIssue, Made
<1>2. new \in Task /\ new.blockedBy = B /\ new.rows = NoTask.rows
  <2>1. new \in Task /\ new.blockedBy = B
    <3>1. "todo" \in IssueStatus
      BY DEF IssueStatus
    <3> QED BY <3>1, MadeTypes
  <2>2. new.rows = NoTask.rows
    BY DEF Made, NoTask
  <2> QED BY <2>1, <2>2
<1>3. i \notin B /\ task[i] = NoTask
  BY <1>1, BlockersAreOthers, AbsentIdle
<1> HIDE DEF new
<1>4. /\ T \in [Issue -> Task] /\ T[i] = new
      /\ \A j \in Issue : T[j].rows = task[j].rows
  BY <1>2, <1>3 DEF With, TypeInv, TypeOK
<1>9. S \subseteq B
  OBVIOUS
<1> HIDE DEF T, S
<1>5. seen \in [Issue -> Task] /\ \A j \in Issue : Grows(task[j], seen[j])
  BY <1>4, SyncedGrows, SyncedIs DEF Grows
<1>6. BlockersDone(T, i) => seen[i].rows = task[i].rows
  BY <1>2, <1>3, <1>4, <1>9, SyncedUnblocked
<1> HIDE DEF seen
<1>7. Grows(task[i], last)
  <2>1. seen[i] \in Task
    BY <1>5
  <2>2. Dispatched(seen[i]).rows = Append(seen[i].rows, Fresh)
        /\ SetRuntime(seen[i], "IDLE", NoInput).rows = seen[i].rows
    BY <2>1, DispatchedIs, IdleIs DEF Fresh
  <2> QED BY <1>5, <1>6, <2>2 DEF Grows
<1> HIDE DEF last
<1>8. \A j \in Issue : Grows(task[j], U[j])
  BY <1>5, <1>7
<1> HIDE DEF U
<1> QED BY <1>1, <1>8, AllGrow

LEMMA QueueLives ==
  ASSUME TypeInv, BlankInv, NEW i \in Issue, DeleteQueued(i) \/ Claim(i) \/ PauseQueued(i)
  PROVE  LifeStep
<1>1. task[i] \in Task /\ Blank(task[i])
  BY BlankTask
<1>2. CASE DeleteQueued(i)
  <2>1. PICK n \in OpenInputs(task[i]) : task' = With(i, SetRow(task[i], n, "CANCELLED"))
    BY <1>2 DEF DeleteQueued
  <2>2. Lives(task[i], SetRow(task[i], n, "CANCELLED"))
    BY <1>1, SetRowLives DEF RowStatus
  <2> QED BY <2>1, <2>2, OneLives
<1>3. CASE Claim(i)
  <2>1. PICK n \in OpenInputs(task[i]) : task' = With(i, SetRow(task[i], n, "CLAIMED"))
    BY <1>3 DEF Claim
  <2>2. Lives(task[i], SetRow(task[i], n, "CLAIMED"))
    BY <1>1, SetRowLives DEF RowStatus
  <2> QED BY <2>1, <2>2, OneLives
<1>4. CASE PauseQueued(i)
  <2> DEFINE t == task[i]
             n == t.rtInput
             w == SetRow(t, n, "PAUSED")
             x == [w EXCEPT !.rows[n].turn = "paused"]
             u == SetRuntime(x, "PAUSED", NoInput)
  <2>1. n \in OpenInputs(t) /\ task' = With(i, u)
    BY <1>4 DEF PauseQueued, PausedInQueue, OpenInputs, StatusIn
  <2>2. w \in Task /\ "PAUSED" \in RowStatus \ {"QUEUED", "CLAIMED"} /\ "paused" \in Turn
    BY <1>1, SetRowIs DEF RowStatus, Turn
  <2>3. x \in Task /\ Lives(t, x)
    <3>1. x \in Task
      <4> HIDE DEF w, n, t
      <4> QED BY <2>2, SetTurnFacts DEF OneLike
    <3>2. Lives(t, x)
      <4> DEFINE st == "PAUSED"
                 v == "paused"
                 y == SetRow(t, n, st)
      <4>1. y \in Task /\ st \in RowStatus \ {"QUEUED", "CLAIMED"} /\ v \in Turn
        BY <2>2
      <4> HIDE DEF st, v, n, t
      <4>2. Lives(t, [y EXCEPT !.rows[n].turn = v])
        <5> HIDE DEF y
        <5> QED BY <1>1, <2>1, <4>1, AnswerLives DEF t, y
      <4> QED BY <4>2 DEF st, v
    <3> QED BY <3>1, <3>2
  <2> HIDE DEF x
  <2>4. u.rows = x.rows
    BY <2>3, SetRuntimeFacts DEF RuntimeStatus, NoInput
  <2>5. Lives(t, u)
    BY <2>3, <2>4, LivesByRows
  <2> HIDE DEF u, n
  <2> QED BY <2>1, <2>5, OneLives
<1> QED BY <1>2, <1>3, <1>4

LEMMA ExecutorLives ==
  ASSUME TypeInv, BlankInv, NEW i \in Issue, GatePass(i) \/ SetupThrow(i) \/ RecoverClaim(i)
  PROVE  LifeStep
<1> DEFINE n == Claimed(i)
<1>1. task[i] \in Task /\ Blank(task[i]) /\ n \in OpenInputs(task[i]) /\ n \in Nat
  BY BlankTask, ClaimIsOpen, ClaimedFacts DEF GatePass, SetupThrow, RecoverClaim
<1> HIDE DEF n
<1>2. ASSUME NEW st \in {"QUEUED", "FAILED"}, NEW rt \in RuntimeStatus,
             NEW u \in {SetRow(task[i], n, st), SetRuntime(SetRow(task[i], n, st), rt, NoInput)},
             task' = With(i, u)
      PROVE  LifeStep
  <2>1. st \in RowStatus
    BY DEF RowStatus
  <2>2. SetRow(task[i], n, st) \in Task
    BY <1>1, <2>1, SetRowIs
  <2>3. u.rows = SetRow(task[i], n, st).rows
    BY <2>2, SetRuntimeFacts DEF NoInput
  <2>4. Lives(task[i], u)
    BY <1>1, <2>1, <2>3, SetRowLives
  <2> QED BY <1>2, <2>4, OneLives
<1>3. CASE GatePass(i)
  <2> DEFINE u == SetRuntime(task[i], "BUSY", n)
  <2>1. u.rows = task[i].rows
    BY <1>1, SetRuntimeFacts DEF RuntimeStatus
  <2>2. task' = With(i, u)
    BY <1>3 DEF GatePass, n
  <2> HIDE DEF u
  <2> QED BY <2>1, <2>2, LivesSame, OneLives
<1>4. CASE SetupThrow(i)
  <2>1. task' = With(i, SetRuntime(SetRow(task[i], n, "FAILED"), "ERROR", NoInput))
    BY <1>4 DEF SetupThrow, n
  <2> QED BY <1>2, <2>1 DEF RuntimeStatus
<1>5. CASE RecoverClaim(i)
  <2>1. \/ task' = With(i, ResetRuntime(SetRow(task[i], n, "QUEUED"), n, "IDLE"))
        \/ task' = With(i, ResetRuntime(SetRow(task[i], n, "FAILED"), n, "ERROR"))
    BY <1>5 DEF RecoverClaim, n
  <2>2. \A t, rt : ResetRuntime(t, n, rt) \in {t, SetRuntime(t, rt, NoInput)}
    BY DEF ResetRuntime
  <2>3. "IDLE" \in RuntimeStatus /\ "ERROR" \in RuntimeStatus
    BY DEF RuntimeStatus
  <2> QED BY <1>2, <2>1, <2>2, <2>3
<1> QED BY <1>3, <1>4, <1>5

\* The turn ends, is told, and dispatches what waited for it.
LEMMA ExitLives ==
  ASSUME TypeInv, GraphInv, BlankInv, NEW i \in Issue, NEW v \in Verdict,
         RunnerExit(i, v) \/ \E k \in 1..5 : RunnerExitCut(i, v, k)
  PROVE  LifeStep
<1> DEFINE n == Claimed(i)
           T == With(i, Ended(task[i], n, v, 4))
<1>1. task[i] \in Task /\ Blank(task[i]) /\ n \in OpenInputs(task[i]) /\ n \in Nat /\ v \in Turn
  BY BlankTask, ClaimIsOpen, ClaimedFacts, IssueWorkflowAssumption
     DEF RunnerExit, RunnerExitCut, IssueWorkflowAssumption
<1> HIDE DEF n
<1>2. \A k \in 1..5 : Ended(task[i], n, v, k) \in Task /\ Lives(task[i], Ended(task[i], n, v, k))
  BY <1>1, EndedLives
<1>3. CASE \E k \in 1..5 : RunnerExitCut(i, v, k)
  <2>1. PICK k \in 1..5 : task' = With(i, Ended(task[i], n, v, k))
    BY <1>3 DEF RunnerExitCut, n
  <2> QED BY <1>2, <2>1, OneLives
<1>4. CASE RunnerExit(i, v)
  <2>1. SetTasks(Synced(T, {i}), {})
    BY <1>4 DEF RunnerExit, n
  <2> DEFINE u == Ended(task[i], n, v, 4)
  <2>2. u \in Task /\ Lives(task[i], u) /\ u.blockedBy = task[i].blockedBy
    <3>1. 4 \in 1..5 /\ 4 \in 1..4
      OBVIOUS
    <3> QED BY <1>1, <1>2, <3>1, EndedFacts
  <2> HIDE DEF u
  <2>3. T \in [Issue -> Task] /\ T[i] = u /\ \A j \in Issue : j # i => T[j] = task[j]
    BY <2>2 DEF With, TypeInv, TypeOK, u
  <2> HIDE DEF T
  <2>4. Synced(T, {i})[i].rows = u.rows
    BY <2>2, <2>3, OwnBlockers, SyncedOwn
  <2>5. Lives(task[i], Synced(T, {i})[i])
    BY <2>2, <2>4, LivesByRows
  <2>6. \A j \in Issue : j # i => Lives(task[j], Synced(T, {i})[j])
    BY <2>3, TaskTyped, SyncedGrows, GrowsLives
  <2> QED BY <2>1, <2>5, <2>6, AllLive
<1> QED BY <1>3, <1>4

LEMMA CancelEndsLives ==
  ASSUME TypeInv, NEW i \in Issue, CancelSettles(i) \/ CancelTimeout(i) PROVE LifeStep
<1> DEFINE seen == Synced(task, {i})
           T == [seen EXCEPT ![i] = Cancelled(seen[i])]
<1>1. \A j \in Issue : seen[j] \in Task /\ Grows(task[j], seen[j])
  BY SyncedGrows DEF TypeInv, TypeOK
<1>2. SetTasks(T, {}) \/ SetTasks(seen, {})
  BY DEF CancelSettles, CancelTimeout
<1>3. Cancelled(seen[i]).rows = seen[i].rows
  BY <1>1, CancelledFacts
<1>4. seen \in [Issue -> Task]
  BY SyncedIs DEF TypeInv, TypeOK
<1> HIDE DEF seen
<1>5. \A j \in Issue : Grows(task[j], T[j])
  BY <1>1, <1>3, <1>4 DEF Grows
<1> HIDE DEF T
<1> QED BY <1>1, <1>2, <1>5, AllGrow

LEMMA CancelLives ==
  ASSUME TypeInv, GraphInv, BlankInv, NEW i \in Issue, Cancel(i) PROVE LifeStep
<1> DEFINE seen == Synced(task, {i})
           t == seen[i]
           n == CurrentInput(t)
           idle == SetRuntime(t, "IDLE", NoInput)
<1>1. task \in [Issue -> Task] /\ Live(t)
  BY DEF Cancel, TypeInv, TypeOK
<1>2. \A j \in Issue : seen[j] = IF j = i THEN Refreshed(task[i]) ELSE task[j]
  <2>1. i \notin task[i].blockedBy
    BY OwnBlockers
  <2>2. Refreshed(task[i]).run # "completed"
    BY <1>1, <2>1, SyncedLive
  <2> QED BY <1>1, <2>2, SyncedQuiet
<1>3. t \in Task /\ t.rows = task[i].rows /\ t.blockedBy = task[i].blockedBy
  BY <1>1, <1>2, RefreshedFacts DEF Keeps
<1>4. seen \in [Issue -> Task] /\ \A j \in Issue : j # i => seen[j] = task[j]
  BY <1>1, <1>2, SyncedIs
<1>5. \/ /\ StatusIn(t, n) = "QUEUED"
         /\ SetTasks([seen EXCEPT ![i] = Cancelled(SetRow(idle, n, "DONE"))], {})
      \/ SetTasks(seen, {})
      \/ SetTasks([Synced([seen EXCEPT ![i] = idle], {i}) EXCEPT ![i] = Cancelled(@)], {})
  BY DEF Cancel
<1>6. SetTasks(seen, {}) => LifeStep
  BY ReadLives
<1> HIDE DEF seen
<1>7. idle \in Task /\ idle.rows = task[i].rows /\ idle.blockedBy = task[i].blockedBy
  BY <1>3, IdleIs
<1>8. CASE /\ StatusIn(t, n) = "QUEUED"
           /\ SetTasks([seen EXCEPT ![i] = Cancelled(SetRow(idle, n, "DONE"))], {})
  <2>1. n \in OpenInputs(task[i]) /\ n \in OpenInputs(idle)
    BY <1>3, <1>7, <1>8 DEF StatusIn, OpenInputs
  <2> HIDE DEF idle, n
  <2>2. Blank(idle)
    BY <1>7, BlankTask DEF Blank, OpenInputs, TurnIn
  <2> DEFINE u == SetRow(idle, n, "DONE")
             T == [seen EXCEPT ![i] = Cancelled(u)]
  <2>3. u \in Task /\ Lives(idle, u)
    BY <1>7, <2>1, <2>2, SetRowLives, SetRowIs DEF RowStatus
  <2> HIDE DEF u
  <2>4. Lives(task[i], Cancelled(u))
    BY <1>7, <2>3, CancelledFacts, LivesByRows
  <2>5. \A j \in Issue : Lives(task[j], T[j])
    BY <1>4, <2>4, LivesSame
  <2>6. SetTasks(T, {})
    BY <1>8 DEF u
  <2> HIDE DEF T
  <2> QED BY <2>5, <2>6, AllLive
<1>9. CASE SetTasks([Synced([seen EXCEPT ![i] = idle], {i}) EXCEPT ![i] = Cancelled(@)], {})
  <2> DEFINE M == [seen EXCEPT ![i] = idle]
             again == Synced(M, {i})
             T == [again EXCEPT ![i] = Cancelled(again[i])]
  <2>1. M \in [Issue -> Task] /\ M[i] = idle /\ \A j \in Issue : j # i => M[j] = task[j]
    BY <1>4, <1>7
  <2>2. SetTasks(T, {})
    BY <1>9
  <2> HIDE DEF M
  <2>3. again \in [Issue -> Task] /\ \A j \in Issue : Grows(M[j], again[j])
    BY <2>1, SyncedGrows, SyncedIs
  <2>4. \A j \in Issue : M[j].rows = task[j].rows
    BY <1>7, <2>1
  <2> HIDE DEF again
  <2>5. Cancelled(again[i]).rows = again[i].rows
    BY <2>3, CancelledFacts
  <2>6. \A j \in Issue : Grows(task[j], T[j])
    BY <2>3, <2>4, <2>5 DEF Grows
  <2> HIDE DEF T
  <2> QED BY <2>2, <2>6, AllGrow
<1> QED BY <1>5, <1>6, <1>8, <1>9

LEMMA BlankInit == Init => BlankInv
BY DEF Init, BlankInv, Blank, OpenInputs, NoTask

LEMMA LifeNext == BoardInv /\ BlankInv /\ [Next]_vars => BlankInv' /\ LifeStep
<1> SUFFICES ASSUME TypeInv, TypeInv', GraphInv, BlankInv, [Next]_vars
             PROVE  BlankInv' /\ LifeStep
  BY BoardNext DEF BoardInv
<1>1. ASSUME NEW i \in Issue, UserStep(i) PROVE LifeStep
  <2>1. ASSUME Read(i) PROVE LifeStep
    BY <2>1, ReadLives DEF Read
  <2> QED
    BY <1>1, <2>1, CreateLives, DelegateLives, PatchLives, DispatchLives, FollowLives,
       QueueLives, CancelLives DEF UserStep
<1>2. ASSUME NEW i \in Issue, CancelSettles(i) \/ CancelTimeout(i) PROVE LifeStep
  BY <1>2, CancelEndsLives
<1>3. ASSUME NEW i \in Issue, ExecutorStep(i) PROVE LifeStep
  BY <1>3, QueueLives, ExecutorLives, ExitLives DEF ExecutorStep
<1>4. ASSUME NEW i \in Issue, Outage(i) PROVE LifeStep
  BY <1>4, DispatchLives, FollowLives, ExitLives DEF Outage
<1>5. ASSUME UNCHANGED task PROVE LifeStep
  BY <1>5, LivesSame DEF LifeStep
<1>6. LifeStep
  BY <1>1, <1>2, <1>3, <1>4, <1>5 DEF Next, Crash, vars
<1>7. BlankInv'
  BY <1>6, BlankKept DEF BlankInv, LifeStep, TypeInv, TypeOK
<1> QED BY <1>6, <1>7

LEMMA BlankAlways == Spec => [](BoardInv /\ BlankInv)
BY BoardInit, BoardNext, BlankInit, LifeNext, PTL DEF Spec

\* A step of one input is an action of InputLifecycle.
LEMMA LifeMaps ==
  ASSUME NEW i \in Issue, Lives(task[i], task'[i])
  PROVE  [Session(i)!Next]_(Session(i)!vars)
<1> DEFINE P == [n \in Inputs |-> PhaseIn(task[i], n)]
           Q == [n \in Inputs |-> PhaseIn(task'[i], n)]
           A == [n \in Inputs |-> TurnIn(task[i], n)]
           B == [n \in Inputs |-> TurnIn(task'[i], n)]
<1>1. CASE \A n \in Inputs : SameInput(task[i], task'[i], n)
  <2>1. Q = P /\ B = A
    BY <1>1 DEF SameInput
  <2> QED BY <2>1 DEF Session!vars
<1>2. CASE \E n \in Inputs : /\ Goes(task[i], task'[i], n)
                             /\ \A m \in Inputs \ {n} : SameInput(task[i], task'[i], m)
  <2>1. PICK n \in Inputs : /\ Goes(task[i], task'[i], n)
                            /\ \A m \in Inputs \ {n} : SameInput(task[i], task'[i], m)
    BY <1>2
  <2> DEFINE v == TurnIn(task'[i], n)
  <2>2. /\ P[n] = PhaseIn(task[i], n) /\ A[n] = TurnIn(task[i], n)
        /\ Q = [P EXCEPT ![n] = PhaseIn(task'[i], n)]
        /\ B = [A EXCEPT ![n] = v]
    BY <2>1 DEF SameInput
  <2>3. v = TurnIn(task[i], n) => B = A
    BY <2>2
  <2> HIDE DEF v
  <2>4. \/ Session(i)!Submit(n) \/ Session(i)!Take(n) \/ Session(i)!Return(n)
        \/ Session(i)!Withdraw(n) \/ Session(i)!Abandon(n)
        \/ v \in Turn /\ Session(i)!Answer(n, v)
    <3>1. /\ \/ /\ v = A[n] /\ B = A
                /\ <<P[n], Q[n]>> \in
                     {<<"absent", "waiting">>, <<"waiting", "taken">>, <<"waiting", "settled">>,
                      <<"taken", "settled">>}
             \/ v = A[n] /\ B = A /\ A[n] = "none" /\ P[n] = "taken" /\ Q[n] = "waiting"
             \/ A[n] = "none" /\ v \in Turn /\ P[n] \in {"waiting", "taken"} /\ Q[n] = "settled"
          /\ Q = [P EXCEPT ![n] = Q[n]] /\ B = [A EXCEPT ![n] = v]
      <4>1. Q[n] = PhaseIn(task'[i], n)
        OBVIOUS
      <4> QED BY <2>1, <2>2, <2>3, <4>1 DEF Goes, v
    <3> QED BY <3>1 DEF Session!Submit, Session!Take, Session!Return, Session!Withdraw,
                        Session!Abandon, Session!Answer
  <2> QED BY <2>1, <2>4 DEF Session!Next
<1> QED BY <1>1, <1>2 DEF Lives

\* Also behind the blocks that a crash cut, and with edits by hand, the inputs of
\* an issue's session live the life of InputLifecycle: settled once, not executed
\* again, and answered once.
THEOREM InputsLiveTheirLife == Spec => SessionsImplementLifecycle
<1> SUFFICES ASSUME NEW i \in Issue PROVE Spec => Session(i)!Spec
  BY DEF SessionsImplementLifecycle
<1>1. Init => Session(i)!Init
  BY DEF Init, Session!Init, NoTask, PhaseIn, StatusIn, TurnIn
<1>2. BoardInv /\ BlankInv /\ [Next]_vars => [Session(i)!Next]_(Session(i)!vars)
  BY LifeNext, LifeMaps DEF LifeStep
<1> QED BY <1>1, <1>2, BlankAlways, PTL DEF Spec, Session!Spec

================================================================================

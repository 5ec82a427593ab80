--------------------------- MODULE SessionQueueProofs ---------------------------
(***************************************************************************)
(* Theorems about SessionQueue that hold for every set of workers, every   *)
(* number of inputs and sessions, and every lease and heartbeat length.    *)
(***************************************************************************)
EXTENDS SessionQueueRefinement, TLAPS

--------------------------------------------------------------------------------
(* Type correctness *)

LEMMA Numbers == Lease \in Nat /\ Stale \in Nat /\ RecoveryAttempts \in Nat
BY SessionQueueAssumption DEF SessionQueueAssumption

LEMMA SpecialWorker == NoWorker \notin Worker
BY SessionQueueAssumption DEF SessionQueueAssumption

LEMMA RunnerSays == RunnerVerdict \subseteq Verdict \cup {"terminated"}
BY SessionQueueAssumption DEF SessionQueueAssumption

LEMMA StatusOfType ==
  \A v \in Verdict : StatusOf(v) \in Settled /\ RuntimeStatusOf(v) \in RuntimeStatus
BY DEF Verdict, StatusOf, RuntimeStatusOf, Settled, RuntimeStatus

LEMMA OutcomeType ==
  ASSUME TypeOK, NEW w \in Worker, NEW i \in Input
  PROVE  Final(Outcome(w, i)) \in Verdict
<1>1. CASE terminals[i] # <<>>
  <2>1. terminals[i] \in Seq(Verdict)
    BY DEF TypeOK, LogType
  <2>2. terminals[i][Len(terminals[i])] \in Verdict
    BY <1>1, <2>1
  <2> QED
    BY <1>1, <2>2 DEF Outcome, Final, Verdict
<1>2. CASE terminals[i] = <<>>
  <2>1. seen[w][i] \in Verdict \cup {"terminated", "none"}
    BY RunnerSays DEF TypeOK, RunType
  <2> QED
    BY <1>2, <2>1 DEF Outcome, Final, Verdict
<1> QED
  BY <1>1, <1>2

LEMMA TypeInit == Init => TypeOK
<1> SUFFICES ASSUME Init PROVE TypeOK
  OBVIOUS
<1> USE SessionQueueAssumption DEF SessionQueueAssumption, Init
<1>1. ProcessType /\ RowType
  BY DEF ProcessType, RowType, InputStatus
<1>2. LogType
  BY DEF LogType
<1>3. RuntimeType
  BY DEF RuntimeType, RuntimeStatus, NoInput, NoBeat
<1>4. RunType
  BY DEF RunType, RunPc, AbortReason
<1> QED
  BY <1>1, <1>2, <1>3, <1>4 DEF TypeOK

\* What the helpers that write several columns at once do to the types.
LEMMA SetRuntimeType ==
  ASSUME RuntimeType, NEW s \in Session, NEW st \in RuntimeStatus,
         NEW i \in Input \cup {NoInput}, NEW w \in Worker \cup {NoWorker},
         SetRuntime(s, st, i, w)
  PROVE  RuntimeType'
BY Numbers DEF RuntimeType, SetRuntime, NoBeat

LEMMA ReleaseType ==
  ASSUME RowType, NEW i \in Input, NEW st \in InputStatus, Release(i, st),
         attempt' \in [Input -> 0..RecoveryAttempts]
  PROVE  RowType'
<1>1. status' \in [Input -> InputStatus]
  BY DEF RowType, Release
<1>2. owner' \in [Input -> Worker \cup {NoWorker}]
  BY DEF RowType, Release
<1>3. lease' \in [Input -> 0..Lease]
  BY Numbers DEF RowType, Release
<1> QED
  BY <1>1, <1>2, <1>3 DEF RowType

LEMMA EndRunType ==
  ASSUME RunType, NEW w \in Worker, NEW i \in Input, EndRun(w, i)
  PROVE  RunType'
BY DEF RunType, EndRun, RunIs, RunPc, AbortReason

LEMMA AbortedType ==
  ASSUME RunType, NEW w \in Worker, NEW i \in Input, NEW reason \in AbortReason,
         Aborted(w, i, reason), UNCHANGED <<pc, lost, seen, try>>
  PROVE  RunType'
BY DEF RunType, Aborted

LEMMA DieType ==
  ASSUME ProcessType, RunType, NEW w \in Worker, Die(w)
  PROVE  ProcessType' /\ RunType'
BY DEF ProcessType, RunType, Die, RunPc, AbortReason

\* Groups of variables that a step leaves alone keep their types.
LEMMA UnchangedTypes ==
  ASSUME TypeOK
  PROVE  /\ UNCHANGED process => ProcessType'
         /\ UNCHANGED rowVars => RowType'
         /\ UNCHANGED logVars => LogType'
         /\ UNCHANGED rtVars => RuntimeType'
         /\ UNCHANGED runVars => RunType'
<1>1. UNCHANGED process => ProcessType'
  BY DEF TypeOK, ProcessType
<1>2. UNCHANGED rowVars => RowType'
  BY DEF TypeOK, RowType, rowVars
<1>3. UNCHANGED logVars => LogType'
  BY DEF TypeOK, LogType, logVars
<1>4. UNCHANGED rtVars => RuntimeType'
  BY DEF TypeOK, RuntimeType, rtVars
<1>5. UNCHANGED runVars => RunType'
  BY DEF TypeOK, RunType, runVars
<1> QED
  BY <1>1, <1>2, <1>3, <1>4, <1>5

LEMMA SessionOfType == \A i \in Input : SessionOf[i] \in Session
BY SessionQueueAssumption DEF SessionQueueAssumption

LEMMA AppendType ==
  ASSUME LogType, NEW i \in Input, NEW v \in Verdict
  PROVE  [terminals EXCEPT ![i] = Append(@, v)] \in [Input -> Seq(Verdict)]
BY DEF LogType

LEMMA RouteTypes ==
  ASSUME TypeOK, RouteStep
  PROVE  TypeOK'
<1> USE UnchangedTypes, SessionOfType DEF TypeOK
<1>a. ASSUME NEW i \in Input, RuntimeAfterQueue(i)
      PROVE  RuntimeType'
  <2> DEFINE s == SessionOf[i]
  <2>1. CASE rtInput[s] # NoInput /\ status[rtInput[s]] = "CLAIMED"
    BY <1>a, <2>1, Numbers DEF RuntimeAfterQueue, RuntimeType, NoBeat
  <2>2. CASE ~(rtInput[s] # NoInput /\ status[rtInput[s]] = "CLAIMED")
    <3>1. SetRuntime(s, "QUEUED", i, NoWorker)
      BY <1>a, <2>2 DEF RuntimeAfterQueue
    <3> QED
      BY <3>1, SetRuntimeType DEF RuntimeStatus
  <2> QED
    BY <2>1, <2>2
<1>b. ASSUME NEW i \in Input, Enqueue(i)
      PROVE  RowType' /\ LogType'
  BY <1>b DEF Enqueue, RowType, InputStatus, logVars
<1>1. ASSUME NEW i \in Input, QueueRoute(i)
      PROVE  TypeOK'
  BY <1>1, <1>a, <1>b DEF QueueRoute
<1>2. ASSUME NEW i \in Input, QueueRouteAgain(i)
      PROVE  TypeOK'
  BY <1>2, <1>a DEF QueueRouteAgain
<1>3. ASSUME NEW i \in Input, FireMessage(i)
      PROVE  TypeOK'
  <2>1. RuntimeType'
    BY <1>3 DEF FireMessage, RuntimeType, RuntimeStatus, NoInput
  <2> QED
    BY <1>3, <1>b, <2>1 DEF FireMessage
<1>4. ASSUME NEW i \in Input, CancelRoute(i)
      PROVE  TypeOK'
  <2>1. RowType'
    BY <1>4 DEF CancelRoute, RowType, InputStatus, Settled
  <2> QED
    BY <1>4, <2>1 DEF CancelRoute
<1>5. ASSUME NEW s \in Session, PauseQueued(s)
      PROVE  TypeOK'
  <2> DEFINE i == rtInput[s]
  <2>1. i \in Input
    BY <1>5 DEF PauseQueued, RuntimeType
  <2>2. RowType'
    BY <1>5, <2>1, ReleaseType DEF PauseQueued, InputStatus, Settled, RowType
  <2>3. LogType'
    BY <1>5, <2>1 DEF PauseQueued, LogType, Verdict
  <2>4. RuntimeType'
    BY <1>5, SetRuntimeType DEF PauseQueued, RuntimeStatus
  <2> QED
    BY <1>5, <2>2, <2>3, <2>4 DEF PauseQueued
<1>6. ASSUME NEW w \in Worker, NEW s \in Session, PauseRunning(w, s)
      PROVE  TypeOK'
  <2>1. rtInput[s] \in Input
    BY <1>6 DEF PauseRunning, RuntimeType
  <2>2. RunType'
    BY <1>6, <2>1, AbortedType DEF PauseRunning, AbortReason
  <2> QED
    BY <1>6, <2>2 DEF PauseRunning
<1> QED
  BY <1>1, <1>2, <1>3, <1>4, <1>5, <1>6 DEF RouteStep

LEMMA RecoveryTypes ==
  ASSUME TypeOK, NEW w \in Worker, NEW i \in Input, Recover(w, i)
  PROVE  TypeOK'
<1> USE UnchangedTypes, SessionOfType DEF TypeOK
<1>a. ASSUME NEW st \in RuntimeStatus, ResetRuntime(i, st)
      PROVE  RuntimeType'
  BY <1>a, SetRuntimeType DEF ResetRuntime
<1>1. CASE RenewOwnRun(w, i)
  <2>1. RowType'
    BY <1>1, Numbers DEF RenewOwnRun, RowType
  <2>2. RuntimeType'
    BY <1>1, SetRuntimeType DEF RenewOwnRun, RuntimeStatus
  <2> QED
    BY <1>1, <2>1, <2>2 DEF RenewOwnRun
<1>2. CASE RequeueClaim(w, i)
  <2>1. attempt' \in [Input -> 0..RecoveryAttempts]
    BY <1>2, Numbers DEF RequeueClaim, NextAttempt, RowType
  <2>2. RowType'
    BY <1>2, <2>1, ReleaseType DEF RequeueClaim, InputStatus
  <2>3. LogType'
    BY <1>2 DEF RequeueClaim, LogType
  <2> QED
    BY <1>2, <1>a, <2>2, <2>3 DEF RequeueClaim, RuntimeStatus
<1>3. CASE FailClaim(w, i)
  <2>1. RowType'
    BY <1>3, ReleaseType DEF FailClaim, InputStatus, Settled, RowType
  <2>2. LogType'
    <3>1. <<"failed">> \in Seq(Verdict)
      BY DEF Verdict
    <3> QED
      BY <1>3, <3>1 DEF FailClaim, LogType
  <2>3. RunType'
    <3>1. CASE Active(w, i)
      BY <1>3, <3>1, AbortedType DEF FailClaim, AbortReason
    <3>2. CASE ~Active(w, i)
      BY <1>3, <3>2 DEF FailClaim, RunType
    <3> QED
      BY <3>1, <3>2
  <2> QED
    BY <1>3, <1>a, <2>1, <2>2, <2>3 DEF FailClaim, RuntimeStatus
<1> QED
  BY <1>1, <1>2, <1>3 DEF Recover

LEMMA FinalizeTypes ==
  ASSUME TypeOK, NEW w \in Worker, NEW i \in Input, NEW v \in Verdict,
         NEW append \in BOOLEAN, NEW n \in 1..4, Finalize(w, i, v, append, n)
  PROVE  TypeOK'
<1> USE UnchangedTypes, SessionOfType DEF TypeOK
<1>1. RowType'
  <2>1. StatusOf(v) \in InputStatus
    BY StatusOfType DEF InputStatus
  <2>2. CASE n >= 2
    BY <2>1, <2>2, ReleaseType DEF Finalize, RowType
  <2>3. CASE ~(n >= 2)
    BY <2>3 DEF Finalize, RowType
  <2> QED
    BY <2>2, <2>3
<1>2. LogType'
  <2>1. terminals' \in [Input -> Seq(Verdict)]
    BY AppendType DEF Finalize, LogType
  <2>2. turn' \in [Input -> Verdict \cup {"none"}]
    BY DEF Finalize, LogType
  <2> QED
    BY <2>1, <2>2 DEF Finalize, LogType
<1>3. RuntimeType'
  BY SetRuntimeType, StatusOfType DEF Finalize
<1>4. ProcessType' /\ RunType'
  BY EndRunType, DieType DEF Finalize
<1> QED
  BY <1>1, <1>2, <1>3, <1>4

LEMMA GateTypes ==
  ASSUME TypeOK, NEW w \in Worker, NEW i \in Input, Gate(w, i)
  PROVE  TypeOK'
<1> USE UnchangedTypes, SessionOfType DEF TypeOK
<1>1. CASE GatePass(w, i)
  <2>1. RuntimeType'
    BY <1>1, SetRuntimeType DEF GatePass, RuntimeStatus
  <2>2. RunType'
    <3>1. abort[w][i] \in AbortReason
      BY DEF RunType
    <3>2. CASE Owned(w, i)
      <4> DEFINE p == IF abort[w][i] = "none" THEN "runner" ELSE "unspawned"
      <4>1. RunIs(w, i, p, abort[w][i], FALSE, "none", 1)
        BY <1>1, <3>2 DEF GatePass
      <4>2. p \in RunPc
        BY DEF RunPc
      <4> HIDE DEF p
      <4> QED
        BY <3>1, <4>1, <4>2 DEF RunIs, RunType
    <3> QED
      BY <1>1, <3>2, EndRunType DEF GatePass
  <2> QED
    BY <1>1, <2>1, <2>2 DEF GatePass
<1>2. ASSUME FailRaised(w, i), progress' \in [Input -> {"none", "held", "run"}]
      PROVE  TypeOK'
  <2>1. RowType'
    BY <1>2, ReleaseType DEF FailRaised, InputStatus, Settled, RowType
  <2>2. LogType'
    BY <1>2 DEF FailRaised, LogType
  <2>3. RuntimeType'
    BY <1>2, SetRuntimeType DEF FailRaised, RuntimeStatus
  <2> QED
    BY <1>2, <2>1, <2>2, <2>3, EndRunType DEF FailRaised
<1>3. CASE GateBlock(w, i)
  BY <1>2, <1>3 DEF GateBlock, LogType
<1>4. CASE SetupThrow(w, i)
  BY <1>2, <1>4 DEF SetupThrow, LogType
<1> QED
  BY <1>1, <1>3, <1>4 DEF Gate

LEMMA ClaimTypes ==
  ASSUME TypeOK, NEW w \in Worker, NEW i \in Input,
         ClaimInput(w, i) \/ Keepalive(w, i)
  PROVE  TypeOK'
<1> USE UnchangedTypes, SessionOfType DEF TypeOK
<1>1. CASE ClaimInput(w, i)
  <2>1. RowType'
    BY <1>1, Numbers DEF ClaimInput, RowType, InputStatus
  <2>2. RunType'
    BY <1>1 DEF ClaimInput, RunPc, AbortReason, RunIs, RunType
  <2> QED
    BY <1>1, <2>1, <2>2 DEF ClaimInput
<1>2. CASE Keepalive(w, i)
  <2>1. RowType'
    BY <1>2, Numbers DEF Keepalive, RowType
  <2>2. RuntimeType'
    BY <1>2, Numbers DEF Keepalive, RuntimeType, NoBeat
  <2> QED
    BY <1>2, <2>1, <2>2 DEF Keepalive
<1> QED
  BY <1>1, <1>2

LEMMA RunnerTypes ==
  ASSUME TypeOK, NEW w \in Worker, NEW i \in Input,
         \/ LoseClaim(w, i)
         \/ RunnerHeartbeat(w, i)
         \/ RunnerEvent(w, i)
         \/ \E v \in RunnerVerdict : RunnerTerminal(w, i, v)
  PROVE  TypeOK'
<1> USE UnchangedTypes, SessionOfType DEF TypeOK
<1>1. CASE LoseClaim(w, i)
  <2>1. RunType'
    BY <1>1 DEF LoseClaim, Aborted, RunType, AbortReason
  <2> QED
    BY <1>1, <2>1 DEF LoseClaim
<1>2. CASE RunnerHeartbeat(w, i)
  <2>1. RowType'
    BY <1>2, Numbers DEF RunnerHeartbeat, RowType
  <2>2. RuntimeType'
    BY <1>2, SetRuntimeType DEF RunnerHeartbeat, RuntimeStatus
  <2> QED
    BY <1>2, <2>1, <2>2 DEF RunnerHeartbeat
<1>3. CASE RunnerEvent(w, i)
  <2>1. LogType'
    BY <1>3 DEF RunnerEvent, LogType
  <2> QED
    BY <1>3, <2>1 DEF RunnerEvent
<1>4. ASSUME NEW v \in RunnerVerdict, RunnerTerminal(w, i, v)
      PROVE  TypeOK'
  <2>1. RunType'
    BY <1>4 DEF RunnerTerminal, RunType
  <2> QED
    BY <1>4, <2>1 DEF RunnerTerminal
<1> QED
  BY <1>1, <1>2, <1>3, <1>4

LEMMA ExitTypes ==
  ASSUME TypeOK, NEW w \in Worker, NEW i \in Input,
         \/ RunnerExitLost(w, i)
         \/ \E n \in 1..4 : RunnerExit(w, i, n)
         \/ RunnerExitCompact(w, i)
         \/ CompactRetry(w, i)
         \/ \E n \in 1..4 : CompactGiveUp(w, i, n)
  PROVE  TypeOK'
<1> USE UnchangedTypes, SessionOfType DEF TypeOK
<1>1. CASE RunnerExitLost(w, i)
  BY <1>1, EndRunType DEF RunnerExitLost
<1>2. ASSUME NEW n \in 1..4, RunnerExit(w, i, n)
      PROVE  TypeOK'
  <2>1. (terminals[i] = <<>>) \in BOOLEAN
    OBVIOUS
  <2>2. Finalize(w, i, Final(Outcome(w, i)), terminals[i] = <<>>, n)
    BY <1>2 DEF RunnerExit
  <2> QED
    BY <2>1, <2>2, OutcomeType, FinalizeTypes
<1>3. CASE RunnerExitCompact(w, i)
  <2>1. RunType'
    BY <1>3 DEF RunnerExitCompact, RunType, RunPc
  <2> QED
    BY <1>3, <2>1 DEF RunnerExitCompact
<1>4. CASE CompactRetry(w, i)
  <2>1. abort[w][i] \in AbortReason /\ lost[w][i] \in BOOLEAN
    BY DEF RunType
  <2>2. RunType'
    BY <1>4, <2>1 DEF CompactRetry, RunPc, RunIs, RunType
  <2> QED
    BY <1>4, <2>2 DEF CompactRetry
<1>5. ASSUME NEW n \in 1..4, CompactGiveUp(w, i, n)
      PROVE  TypeOK'
  BY <1>5, FinalizeTypes DEF CompactGiveUp, Verdict
<1> QED
  BY <1>1, <1>2, <1>3, <1>4, <1>5

LEMMA ThrowTypes ==
  ASSUME TypeOK, NEW w \in Worker, NEW i \in Input,
         RunThrow(w, i) \/ \E n \in 1..3 : StoreThrow(w, i, n)
  PROVE  TypeOK'
<1> USE UnchangedTypes, SessionOfType DEF TypeOK
<1>1. CASE RunThrow(w, i)
  <2>1. CASE Finalize(w, i, "failed", TRUE, 4)
    <3>1. "failed" \in Verdict /\ TRUE \in BOOLEAN /\ 4 \in 1..4
      BY DEF Verdict
    <3> QED
      BY <2>1, <3>1, FinalizeTypes
  <2>2. CASE EndRun(w, i) /\ UNCHANGED <<process, rowVars, logVars, rtVars>>
    BY <2>2, EndRunType
  <2> QED
    BY <1>1, <2>1, <2>2 DEF RunThrow
<1>2. ASSUME NEW n \in 1..3, StoreThrow(w, i, n)
      PROVE  TypeOK'
  <2>1. PICK v \in Verdict, caught \in BOOLEAN, e \in Seq(Verdict) :
          /\ terminals' = [terminals EXCEPT ![i] = e]
          /\ turn' = [turn EXCEPT ![i] = IF caught THEN "failed" ELSE @]
          /\ IF caught \/ n > 1 THEN Release(i, IF caught THEN "FAILED" ELSE StatusOf(v))
                                ELSE UNCHANGED <<status, owner, lease>>
          /\ IF caught \/ n = 3
             THEN SetRuntime(SessionOf[i], IF caught THEN "ERROR" ELSE RuntimeStatusOf(v),
                             NoInput, NoWorker)
             ELSE UNCHANGED rtVars
          /\ EndRun(w, i)
          /\ UNCHANGED <<process, attempt, progress>>
    <3> DEFINE late == pc[w][i] = "compact"
               v == IF late THEN "failed" ELSE Final(Outcome(w, i))
               events == IF late \/ terminals[i] = <<>> THEN Append(terminals[i], v)
                                                       ELSE terminals[i]
               caught == n = 1 /\ Owned(w, i)
    <3>1. v \in Verdict /\ "failed" \in Verdict
      BY OutcomeType DEF Verdict
    <3>2. events \in Seq(Verdict) /\ Append(events, "failed") \in Seq(Verdict)
      BY <3>1 DEF LogType
    <3>3. (IF caught THEN Append(events, "failed") ELSE events) \in Seq(Verdict)
      BY <3>2
    <3> QED
      BY <1>2, <3>1, <3>3 DEF StoreThrow
  <2>2. StatusOf(v) \in InputStatus /\ RuntimeStatusOf(v) \in RuntimeStatus
        /\ "FAILED" \in InputStatus /\ "ERROR" \in RuntimeStatus
    BY StatusOfType DEF InputStatus, Settled, RuntimeStatus
  <2>3. RowType'
    BY <2>1, <2>2, ReleaseType DEF RowType
  <2>4. LogType'
    BY <2>1 DEF LogType, Verdict
  <2>5. RuntimeType'
    BY <2>1, <2>2, SetRuntimeType
  <2> QED
    BY <2>1, <2>3, <2>4, <2>5, EndRunType
<1> QED
  BY <1>1, <1>2

LEMMA TickTypes ==
  ASSUME TypeOK, Tick
  PROVE  TypeOK'
<1> USE UnchangedTypes DEF TypeOK
<1>1. RowType'
  <2>1. lease' \in [Input -> 0..Lease]
    BY Numbers DEF Tick, RowType
  <2> QED
    BY <2>1 DEF Tick, RowType
<1>2. RuntimeType'
  <2>1. beat' \in [Session -> NoBeat..(Stale + 1)]
    BY Numbers DEF Tick, RuntimeType, NoBeat
  <2> QED
    BY <2>1 DEF Tick, RuntimeType
<1> QED
  BY <1>1, <1>2 DEF Tick, runVars, RunType

\* Every step of the queue keeps every column and every local in its type.
LEMMA TypeStep == TypeOK /\ [Next]_vars => TypeOK'
<1> SUFFICES ASSUME TypeOK, [Next]_vars PROVE TypeOK'
  OBVIOUS
<1>1. CASE RouteStep
  BY <1>1, RouteTypes
<1>2. CASE Tick
  BY <1>2, TickTypes
<1>3. ASSUME NEW w \in Worker, WorkerStep(w)
      PROVE  TypeOK'
  <2>1. CASE Start(w)
    <3>1. ProcessType'
      BY <2>1 DEF Start, TypeOK, ProcessType
    <3> QED
      BY <2>1, <3>1, UnchangedTypes DEF Start, TypeOK
  <2>2. CASE Crash(w)
    BY <2>2, DieType, UnchangedTypes DEF Crash, TypeOK
  <2>3. ASSUME NEW i \in Input, RunStep(w, i)
        PROVE  TypeOK'
    <3>1. 4 \in 1..4
      OBVIOUS
    <3> QED
      BY <2>3, <3>1, GateTypes, RunnerTypes, ExitTypes, ThrowTypes
         DEF RunStep, RunnerDone, CompactDone
  <2>4. ASSUME NEW i \in Input, CrashFinalizing(w, i)
        PROVE  TypeOK'
    <3>1. 1..3 \subseteq 1..4
      OBVIOUS
    <3> QED
      BY <2>4, <3>1, ExitTypes DEF CrashFinalizing
  <2> QED
    BY <1>3, <2>1, <2>2, <2>3, <2>4, RecoveryTypes, ClaimTypes DEF WorkerStep
<1>4. CASE UNCHANGED vars
  BY <1>4, UnchangedTypes DEF vars, TypeOK
<1> QED
  BY <1>1, <1>2, <1>3, <1>4 DEF Next

\* The tables, the run locals and the clocks keep their types: in particular
\* no write of the model leaves a status outside the sets that the CHECK
\* constraints of the state store name.
THEOREM TypeCorrect == Spec => []TypeOK
<1>1. Init => TypeOK
  BY TypeInit
<1>2. TypeOK /\ [Next]_vars => TypeOK'
  BY TypeStep
<1> QED
  BY <1>1, <1>2, PTL DEF Spec

--------------------------------------------------------------------------------
(* Row, event stream and turn result agree, whatever the clocks do          *)

(* TLC refutes the agreement when the gate blocks, when preparing a run     *)
(* raises, or when a compaction is given up after the claim was lost: those *)
(* paths write the row without looking at the claim.  So does a store that  *)
(* refuses a write between the terminal event and the row.  Without them it *)
(* holds even if runners raise, event loops stall for any time and leases   *)
(* expire under live runs.                                                  *)
Undisturbed ==
  ~GateMayBlock /\ MayThrow \subseteq {"run"} /\ "terminated" \notin RunnerVerdict

\* A waiting input is untouched; a claimed one has no turn result, and has a
\* terminal event only if the process that held the claim died after writing
\* it; a settled one has at most one terminal event, with which a DONE or
\* PAUSED row and the turn result agree.
Coherent(i) ==
  /\ status[i] \in {"NONE", "QUEUED"} =>
       progress[i] = "none" /\ terminals[i] = <<>> /\ turn[i] = "none"
  /\ status[i] = "CLAIMED" =>
       /\ turn[i] = "none"
       /\ \/ terminals[i] = <<>>
          \/ /\ \E v \in Verdict : terminals[i] = <<v>>
             /\ owner[i] \in Worker /\ process[owner[i]] = "dead"
  /\ status[i] \in Settled =>
       \/ terminals[i] = <<>> /\ turn[i] = "none" /\ status[i] \notin {"DONE", "PAUSED"}
       \/ \E v \in Verdict :
            /\ terminals[i] = <<v>>
            /\ turn[i] = "none" \/ (turn[i] = v /\ status[i] = StatusOf(v))
            /\ status[i] \in {"DONE", "PAUSED"} => status[i] = StatusOf(v)

\* No run compacts, or remembers a verdict that has to be retried.
NoCompaction ==
  \A w \in Worker, i \in Input : pc[w][i] # "compact" /\ seen[w][i] # "terminated"

CoherentInv == TypeOK /\ NoCompaction /\ \A i \in Input : Coherent(i)

\* Dead processes stay dead, in every step.
LEMMA DeadStayDead ==
  ASSUME TypeOK, [Next]_vars, NEW w \in Worker, process[w] = "dead"
  PROVE  process'[w] = "dead"
<1> USE DEF TypeOK, ProcessType
<1>1. ASSUME NEW v \in Worker, Die(v)
      PROVE  process'[w] = "dead"
  BY <1>1 DEF Die
<1>2. CASE RouteStep
  BY <1>2 DEF RouteStep, QueueRoute, QueueRouteAgain, FireMessage, CancelRoute,
              PauseQueued, PauseRunning
<1>3. CASE Tick
  BY <1>3 DEF Tick
<1>4. ASSUME NEW v \in Worker, WorkerStep(v)
      PROVE  process'[w] = "dead"
  <2>1. CASE Start(v)
    BY <2>1 DEF Start
  <2>2. CASE Crash(v)
    BY <2>2, <1>1 DEF Crash
  <2>3. ASSUME NEW i \in Input, Recover(v, i) \/ ClaimInput(v, i) \/ Keepalive(v, i)
        PROVE  process'[w] = "dead"
    BY <2>3 DEF Recover, RenewOwnRun, RequeueClaim, FailClaim, ClaimInput, Keepalive
  <2>4. ASSUME NEW i \in Input, RunStep(v, i) \/ CrashFinalizing(v, i)
        PROVE  process'[w] = "dead"
    <3>1. CASE Gate(v, i)
      BY <3>1 DEF Gate, GatePass, GateBlock, SetupThrow, FailRaised
    <3>2. ASSUME NEW n \in 1..4, RunnerExit(v, i, n) \/ CompactGiveUp(v, i, n)
          PROVE  process'[w] = "dead"
      BY <3>2, <1>1 DEF RunnerExit, CompactGiveUp, Finalize
    <3>3. CASE LoseClaim(v, i) \/ RunnerHeartbeat(v, i) \/ RunnerEvent(v, i)
               \/ \E x \in RunnerVerdict : RunnerTerminal(v, i, x)
      BY <3>3 DEF LoseClaim, RunnerHeartbeat, RunnerEvent, RunnerTerminal
    <3>4. CASE RunnerExitLost(v, i) \/ RunnerExitCompact(v, i) \/ CompactRetry(v, i)
      BY <3>4 DEF RunnerExitLost, RunnerExitCompact, CompactRetry
    <3>5. CASE RunThrow(v, i) \/ \E n \in 1..3 : StoreThrow(v, i, n)
      BY <3>5 DEF RunThrow, StoreThrow, Finalize
    <3> QED
      BY <2>4, <3>1, <3>2, <3>3, <3>4, <3>5
         DEF RunStep, CrashFinalizing, RunnerDone, CompactDone
  <2> QED
    BY <1>4, <2>1, <2>2, <2>3, <2>4 DEF WorkerStep
<1>5. CASE UNCHANGED vars
  BY <1>5 DEF vars
<1> QED
  BY <1>2, <1>3, <1>4, <1>5 DEF Next

\* A step that leaves an input's row and logs alone leaves it coherent.
LEMMA Frame ==
  ASSUME TypeOK, [Next]_vars, NEW i \in Input, Coherent(i),
         status'[i] = status[i], progress'[i] = progress[i],
         terminals'[i] = terminals[i], turn'[i] = turn[i],
         owner'[i] = owner[i]
  PROVE  Coherent(i)'
<1>2. CASE status[i] # "CLAIMED" \/ terminals[i] = <<>>
  BY <1>2 DEF Coherent
<1>3. CASE status[i] = "CLAIMED" /\ terminals[i] # <<>>
  <2>1. owner[i] \in Worker /\ process[owner[i]] = "dead"
    BY <1>3 DEF Coherent
  <2>2. process'[owner[i]] = "dead"
    BY <2>1, DeadStayDead
  <2> QED
    BY <1>3, <2>1, <2>2 DEF Coherent, Settled
<1> QED
  BY <1>2, <1>3

\* The same for all inputs, when a step leaves all rows and logs alone but for
\* leases and attempts.
LEMMA FrameAll ==
  ASSUME TypeOK, [Next]_vars, \A i \in Input : Coherent(i),
         UNCHANGED <<status, owner, progress, terminals, turn>>
  PROVE  \A i \in Input : Coherent(i)'
BY Frame

LEMMA RouteCoherent ==
  ASSUME TypeOK, [Next]_vars, \A i \in Input : Coherent(i), RouteStep,
         NEW i \in Input
  PROVE  Coherent(i)'
<1> USE DEF TypeOK, RowType, LogType
<1>1. ASSUME NEW j \in Input, QueueRoute(j) \/ FireMessage(j)
      PROVE  Coherent(i)'
  <2>1. Fresh(j) /\ Enqueue(j)
    BY <1>1 DEF QueueRoute, FireMessage
  <2>2. CASE i = j
    BY <2>1, <2>2 DEF Fresh, Enqueue, Coherent, logVars, Settled
  <2>3. CASE i # j
    BY <2>1, <2>3, Frame DEF Enqueue, logVars
  <2> QED
    BY <2>2, <2>3
<1>2. ASSUME NEW j \in Input, QueueRouteAgain(j)
      PROVE  Coherent(i)'
  BY <1>2, FrameAll DEF QueueRouteAgain, rowVars, logVars
<1>3. ASSUME NEW j \in Input, CancelRoute(j)
      PROVE  Coherent(i)'
  <2>1. CASE i = j
    BY <1>3, <2>1 DEF CancelRoute, Coherent, logVars, Settled
  <2>2. CASE i # j
    BY <1>3, <2>2, Frame DEF CancelRoute, logVars
  <2> QED
    BY <2>1, <2>2
<1>4. ASSUME NEW s \in Session, PauseQueued(s)
      PROVE  Coherent(i)'
  <2> DEFINE j == rtInput[s]
  <2>1. j \in Input /\ status[j] = "QUEUED"
    BY <1>4 DEF PauseQueued, RuntimeType
  <2>2. /\ status' = [status EXCEPT ![j] = "PAUSED"]
        /\ owner' = [owner EXCEPT ![j] = NoWorker]
        /\ terminals' = [terminals EXCEPT ![j] = Append(@, "paused")]
        /\ turn' = [turn EXCEPT ![j] = "paused"]
        /\ progress' = progress
    BY <1>4 DEF PauseQueued, Release
  <2>3. CASE i = j
    <3>1. terminals[i] = <<>>
      BY <2>1, <2>3 DEF Coherent
    <3>2. terminals'[i] = Append(<<>>, "paused")
      BY <2>1, <2>2, <2>3, <3>1
    <3>3. Append(<<>>, "paused") = <<"paused">>
      OBVIOUS
    <3>4. status'[i] = "PAUSED" /\ turn'[i] = "paused"
      BY <2>1, <2>2, <2>3
    <3> QED
      BY <3>2, <3>3, <3>4 DEF Coherent, Settled, Verdict, StatusOf
  <2>4. CASE i # j
    BY <2>1, <2>2, <2>4, Frame
  <2> QED
    BY <2>3, <2>4
<1>5. ASSUME NEW w \in Worker, NEW s \in Session, PauseRunning(w, s)
      PROVE  Coherent(i)'
  BY <1>5, FrameAll DEF PauseRunning, rowVars, logVars
<1> QED
  BY <1>1, <1>2, <1>3, <1>4, <1>5 DEF RouteStep

LEMMA RecoveryCoherent ==
  ASSUME TypeOK, [Next]_vars, \A i \in Input : Coherent(i),
         NEW w \in Worker, NEW j \in Input, Recover(w, j), NEW i \in Input
  PROVE  Coherent(i)'
<1> USE DEF TypeOK, RowType, LogType
<1>1. CASE RenewOwnRun(w, j)
  BY <1>1, FrameAll DEF RenewOwnRun, logVars
<1>2. CASE RequeueClaim(w, j)
  <2>1. /\ status' = [status EXCEPT ![j] = "QUEUED"]
        /\ owner' = [owner EXCEPT ![j] = NoWorker]
        /\ progress' = [progress EXCEPT ![j] = "none"]
        /\ UNCHANGED <<terminals, turn>>
        /\ terminals[j] = <<>> /\ turn[j] = "none"
    BY <1>2 DEF RequeueClaim, Release, ShouldRequeue
  <2>2. CASE i = j
    BY <2>1, <2>2 DEF Coherent, Settled
  <2>3. CASE i # j
    BY <2>1, <2>3, Frame
  <2> QED
    BY <2>2, <2>3
<1>3. CASE FailClaim(w, j)
  <2>1. /\ status' = [status EXCEPT ![j] = "FAILED"]
        /\ owner' = [owner EXCEPT ![j] = NoWorker]
        /\ terminals' = [terminals EXCEPT ![j] = IF @ = <<>> THEN <<"failed">> ELSE @]
        /\ UNCHANGED <<progress, turn>>
        /\ status[j] = "CLAIMED"
    BY <1>3 DEF FailClaim, Release, Recoverable
  <2>2. CASE i = j
    <3>1. turn'[i] = "none" /\ status'[i] = "FAILED"
      BY <2>1, <2>2 DEF Coherent
    <3>2. \E v \in Verdict : terminals'[i] = <<v>>
      BY <2>1, <2>2 DEF Coherent, Verdict
    <3> QED
      BY <3>1, <3>2 DEF Coherent, Settled
  <2>3. CASE i # j
    BY <2>1, <2>3, Frame
  <2> QED
    BY <2>2, <2>3
<1> QED
  BY <1>1, <1>2, <1>3 DEF Recover

LEMMA ClaimCoherent ==
  ASSUME TypeOK, [Next]_vars, \A i \in Input : Coherent(i),
         NEW w \in Worker, NEW j \in Input,
         ClaimInput(w, j) \/ Keepalive(w, j),
         NEW i \in Input
  PROVE  Coherent(i)'
<1> USE DEF TypeOK, RowType, LogType
<1>1. CASE ClaimInput(w, j)
  <2>1. /\ status[j] = "QUEUED"
        /\ status' = [status EXCEPT ![j] = "CLAIMED"]
        /\ owner' = [owner EXCEPT ![j] = w]
        /\ UNCHANGED <<progress, terminals, turn>>
    BY <1>1 DEF ClaimInput, Claimable, logVars
  <2>2. CASE i = j
    BY <2>1, <2>2 DEF Coherent, Settled
  <2>3. CASE i # j
    BY <2>1, <2>3, Frame
  <2> QED
    BY <2>2, <2>3
<1>2. CASE Keepalive(w, j)
  BY <1>2, FrameAll DEF Keepalive, logVars
<1> QED
  BY <1>1, <1>2

\* The heart of the argument: a live worker that still owns the claim finds no
\* terminal event, so the block that ends the run writes the only one.
LEMMA FinalizeCoherent ==
  ASSUME TypeOK, [Next]_vars, \A i \in Input : Coherent(i),
         NEW w \in Worker, NEW j \in Input, NEW v \in Verdict, NEW n \in 1..4,
         Up(w), Owned(w, j), terminals[j] = <<>>,
         Finalize(w, j, v, TRUE, n),
         NEW i \in Input
  PROVE  Coherent(i)'
<1> USE DEF TypeOK, RowType, LogType
<1>1. terminals' = [terminals EXCEPT ![j] = Append(@, v)] /\ progress' = progress
  BY DEF Finalize
<1>2. Append(<<>>, v) = <<v>>
  OBVIOUS
<1>3. CASE i # j
  <2>1. status'[i] = status[i] /\ owner'[i] = owner[i] /\ turn'[i] = turn[i]
    BY <1>3 DEF Finalize, Release
  <2> QED
    BY <1>1, <1>3, <2>1, Frame
<1>4. CASE i = j /\ n = 1
  <2>1. status'[i] = "CLAIMED" /\ owner'[i] = w /\ turn'[i] = turn[i]
    BY <1>4 DEF Finalize, Owned
  <2>2. process'[w] = "dead"
    BY <1>4 DEF Finalize, Die, ProcessType
  <2>3. terminals'[i] = <<v>>
    BY <1>1, <1>2, <1>4
  <2>4. turn[i] = "none"
    BY <1>4 DEF Coherent, Owned
  <2> QED
    BY <2>1, <2>2, <2>3, <2>4 DEF Coherent, Settled
<1>5. CASE i = j /\ n # 1
  <2>1. n >= 2
    BY <1>5
  <2>2. status'[i] = StatusOf(v)
    BY <1>5, <2>1 DEF Finalize, Release
  <2>3. turn[i] = "none"
    BY <1>5 DEF Coherent, Owned
  <2>4. turn'[i] \in {"none", v}
    BY <1>5, <2>3 DEF Finalize
  <2>5. terminals'[i] = <<v>>
    BY <1>1, <1>2, <1>5
  <2>6. StatusOf(v) \in Settled
    BY StatusOfType
  <2> QED
    BY <2>2, <2>4, <2>5, <2>6 DEF Coherent, Settled
<1> QED
  BY <1>3, <1>4, <1>5

LEMMA OwnClaimUnreported ==
  ASSUME TypeOK, NEW w \in Worker, NEW i \in Input, Coherent(i), Up(w), Owned(w, i)
  PROVE  terminals[i] = <<>>
BY DEF Coherent, Up, Owned

LEMMA RunCoherent ==
  ASSUME Undisturbed, CoherentInv, [Next]_vars,
         NEW w \in Worker, NEW j \in Input,
         RunStep(w, j) \/ CrashFinalizing(w, j),
         NEW i \in Input
  PROVE  Coherent(i)'
<1> USE DEF CoherentInv
<1>1. CASE Gate(w, j)
  <2>1. GatePass(w, j)
    BY <1>1 DEF Gate, GateBlock, SetupThrow, Undisturbed
  <2> QED
    BY <2>1, FrameAll DEF GatePass, rowVars, logVars
<1>2. CASE RunnerEvent(w, j)
  <2>1. CASE i = j
    <3>1. status[i] = "CLAIMED"
      BY <1>2, <2>1 DEF RunnerEvent, Owned
    <3>2. UNCHANGED <<status, owner, terminals, turn, process>>
      BY <1>2 DEF RunnerEvent, rowVars
    <3> QED
      BY <3>1, <3>2 DEF Coherent, Settled
  <2>2. CASE i # j
    <3>1. UNCHANGED <<status, owner, terminals, turn, process>> /\ progress'[i] = progress[i]
      BY <1>2, <2>2 DEF RunnerEvent, rowVars, TypeOK, LogType
    <3> QED
      BY <3>1, Frame
  <2> QED
    BY <2>1, <2>2
<1>3. ASSUME NEW n \in 1..4, RunnerExit(w, j, n)
      PROVE  Coherent(i)'
  <2>1. Up(w) /\ Owned(w, j)
    BY <1>3 DEF RunnerExit, RunnerGone
  <2>2. terminals[j] = <<>>
    BY <2>1, OwnClaimUnreported
  <2>3. Finalize(w, j, Final(Outcome(w, j)), TRUE, n)
    BY <1>3, <2>2 DEF RunnerExit, Finalize
  <2> QED
    BY <2>1, <2>2, <2>3, OutcomeType, FinalizeCoherent
<1>4. CASE \/ LoseClaim(w, j)
           \/ RunnerHeartbeat(w, j)
           \/ \E v \in RunnerVerdict : RunnerTerminal(w, j, v)
           \/ RunnerExitLost(w, j)
           \/ RunnerExitCompact(w, j)
  BY <1>4, FrameAll DEF LoseClaim, RunnerHeartbeat, RunnerTerminal, RunnerExitLost,
                        RunnerExitCompact, rowVars, logVars
<1>5. ~CompactRetry(w, j) /\ \A n \in 1..4 : ~CompactGiveUp(w, j, n)
  BY DEF NoCompaction, CompactRetry, CompactGiveUp
<1>6. 1..3 \subseteq 1..4 /\ 4 \in 1..4
  OBVIOUS
<1>7. CASE RunThrow(w, j)
  <2>1. CASE Owned(w, j) /\ ~lost[w][j]
    <3>1. Up(w) /\ Finalize(w, j, "failed", TRUE, 4) /\ "failed" \in Verdict
      BY <1>7, <2>1 DEF RunThrow, Verdict
    <3>2. terminals[j] = <<>>
      BY <2>1, <3>1, OwnClaimUnreported
    <3> QED
      BY <1>6, <2>1, <3>1, <3>2, FinalizeCoherent
  <2>2. CASE ~(Owned(w, j) /\ ~lost[w][j])
    BY <1>7, <2>2, FrameAll DEF RunThrow, rowVars, logVars
  <2> QED
    BY <2>1, <2>2
<1>8. \A n \in 1..3 : ~StoreThrow(w, j, n)
  BY DEF StoreThrow, Undisturbed
<1> QED
  BY <1>1, <1>2, <1>3, <1>4, <1>5, <1>6, <1>7, <1>8
     DEF RunStep, CrashFinalizing, RunnerDone, CompactDone

LEMMA NoCompactionStep ==
  ASSUME Undisturbed, TypeOK, NoCompaction, [Next]_vars
  PROVE  NoCompaction'
<1> USE DEF TypeOK, RunType, NoCompaction
<1>a. ASSUME UNCHANGED <<pc, seen>>
      PROVE  NoCompaction'
  BY <1>a
<1>b. ASSUME NEW v \in Worker, Die(v)
      PROVE  NoCompaction'
  BY <1>b DEF Die
<1>c. ASSUME NEW v \in Worker, NEW i \in Input, EndRun(v, i)
      PROVE  NoCompaction'
  BY <1>c DEF EndRun, RunIs
<1>1. CASE RouteStep
  BY <1>1, <1>a DEF RouteStep, QueueRoute, QueueRouteAgain, FireMessage, CancelRoute,
                    PauseQueued, PauseRunning, runVars
<1>2. CASE Tick
  BY <1>2, <1>a DEF Tick, runVars
<1>3. ASSUME NEW v \in Worker, WorkerStep(v)
      PROVE  NoCompaction'
  <2>1. CASE Start(v)
    BY <2>1, <1>a DEF Start, runVars
  <2>2. CASE Crash(v)
    BY <2>2, <1>b DEF Crash
  <2>3. ASSUME NEW i \in Input, Recover(v, i) \/ Keepalive(v, i)
        PROVE  NoCompaction'
    BY <2>3, <1>a DEF Recover, RenewOwnRun, RequeueClaim, FailClaim, Keepalive, runVars
  <2>4. ASSUME NEW i \in Input, ClaimInput(v, i)
        PROVE  NoCompaction'
    BY <2>4 DEF ClaimInput, RunIs
  <2>5. ASSUME NEW i \in Input, RunStep(v, i) \/ CrashFinalizing(v, i)
        PROVE  NoCompaction'
    <3>1. CASE Gate(v, i)
      <4>1. GatePass(v, i)
        BY <3>1 DEF Gate, GateBlock, SetupThrow, Undisturbed
      <4>2. CASE Owned(v, i)
        <5> DEFINE p == IF abort[v][i] = "none" THEN "runner" ELSE "unspawned"
        <5>1. /\ pc' = [pc EXCEPT ![v][i] = p]
              /\ seen' = [seen EXCEPT ![v][i] = "none"]
          BY <4>1, <4>2 DEF GatePass, RunIs
        <5>2. p # "compact"
          OBVIOUS
        <5> HIDE DEF p
        <5> QED
          BY <5>1, <5>2
      <4>3. CASE ~Owned(v, i)
        <5>1. EndRun(v, i)
          BY <4>1, <4>3 DEF GatePass
        <5> QED
          BY <5>1, <1>c
      <4> QED
        BY <4>2, <4>3
    <3>2. ASSUME NEW n \in 1..4, RunnerExit(v, i, n)
          PROVE  NoCompaction'
      BY <3>2, <1>b, <1>c DEF RunnerExit, Finalize
    <3>3. CASE LoseClaim(v, i) \/ RunnerHeartbeat(v, i) \/ RunnerEvent(v, i)
      BY <3>3, <1>a DEF LoseClaim, RunnerHeartbeat, RunnerEvent, runVars
    <3>4. ASSUME NEW x \in RunnerVerdict, RunnerTerminal(v, i, x)
          PROVE  NoCompaction'
      BY <3>4 DEF RunnerTerminal, Undisturbed
    <3>5. CASE RunnerExitLost(v, i)
      BY <3>5, <1>c DEF RunnerExitLost
    <3>6. ~RunnerExitCompact(v, i)
      <4>1. ASSUME terminals[i] # <<>>
            PROVE  terminals[i][Len(terminals[i])] # "terminated"
        <5>1. terminals[i] \in Seq(Verdict)
          BY DEF LogType
        <5>2. terminals[i][Len(terminals[i])] \in Verdict
          BY <4>1, <5>1
        <5> QED
          BY <5>2 DEF Verdict
      <4>2. Outcome(v, i) # "terminated"
        BY <4>1 DEF Outcome
      <4> QED
        BY <4>2 DEF RunnerExitCompact
    <3>7. ~CompactRetry(v, i) /\ \A n \in 1..4 : ~CompactGiveUp(v, i, n)
      BY DEF CompactRetry, CompactGiveUp
    <3>8. 1..3 \subseteq 1..4 /\ 4 \in 1..4
      OBVIOUS
    <3>9. CASE RunThrow(v, i)
      BY <3>9, <1>c DEF RunThrow, Finalize
    <3>10. \A n \in 1..3 : ~StoreThrow(v, i, n)
      BY DEF StoreThrow, Undisturbed
    <3> QED
      BY <2>5, <3>1, <3>2, <3>3, <3>4, <3>5, <3>6, <3>7, <3>8, <3>9, <3>10
         DEF RunStep, CrashFinalizing, RunnerDone, CompactDone
  <2> QED
    BY <1>3, <2>1, <2>2, <2>3, <2>4, <2>5 DEF WorkerStep
<1>4. CASE UNCHANGED vars
  BY <1>4, <1>a DEF vars, runVars
<1> QED
  BY <1>1, <1>2, <1>3, <1>4 DEF Next

LEMMA CoherentInit == Init => CoherentInv
<1> SUFFICES ASSUME Init PROVE CoherentInv
  OBVIOUS
<1>1. TypeOK
  BY TypeInit
<1>2. NoCompaction
  BY DEF Init, NoCompaction
<1>3. ASSUME NEW i \in Input PROVE Coherent(i)
  BY DEF Init, Coherent, Settled
<1> QED
  BY <1>1, <1>2, <1>3 DEF CoherentInv

LEMMA CoherentStep ==
  ASSUME Undisturbed, CoherentInv, [Next]_vars
  PROVE  CoherentInv'
<1> USE DEF CoherentInv
<1>1. TypeOK'
  BY TypeStep
<1>2. NoCompaction'
  BY NoCompactionStep
<1>3. ASSUME NEW i \in Input PROVE Coherent(i)'
  <2>1. CASE RouteStep
    BY <2>1, RouteCoherent
  <2>2. CASE Tick
    BY <2>2, FrameAll DEF Tick, logVars
  <2>3. ASSUME NEW w \in Worker, Start(w) \/ Crash(w)
        PROVE  Coherent(i)'
    BY <2>3, FrameAll DEF Start, Crash, rowVars, logVars
  <2>4. ASSUME NEW w \in Worker, WorkerStep(w)
        PROVE  Coherent(i)'
    BY <2>3, <2>4, RecoveryCoherent, ClaimCoherent, RunCoherent DEF WorkerStep
  <2>5. CASE UNCHANGED vars
    BY <2>5, FrameAll DEF vars, rowVars, logVars
  <2> QED
    BY <2>1, <2>2, <2>4, <2>5 DEF Next
<1> QED
  BY <1>1, <1>2, <1>3

\* What the coherence of the inputs amounts to.
LEMMA CoherentSays ==
  ASSUME TypeOK, \A i \in Input : Coherent(i)
  PROVE  QueuedInputsAreClean /\ OneTerminalEvent /\ VerdictsAgree
<1>1. QueuedInputsAreClean
  BY DEF Coherent, QueuedInputsAreClean
<1>2. OneTerminalEvent
  <2> SUFFICES ASSUME NEW i \in Input PROVE Len(terminals[i]) <= 1
    BY DEF OneTerminalEvent
  <2>1. Coherent(i) /\ status[i] \in InputStatus
    BY DEF TypeOK, RowType
  <2>2. terminals[i] = <<>> \/ \E v \in Verdict : terminals[i] = <<v>>
    BY <2>1 DEF Coherent, InputStatus
  <2>3. CASE terminals[i] = <<>>
    BY <2>3
  <2>4. ASSUME NEW v \in Verdict, terminals[i] = <<v>>
        PROVE  Len(terminals[i]) <= 1
    BY <2>4
  <2> QED
    BY <2>2, <2>3, <2>4
<1>3. VerdictsAgree
  <2> SUFFICES ASSUME NEW i \in Input
               PROVE  /\ turn[i] # "none" =>
                           status[i] = StatusOf(turn[i]) /\ terminals[i] = <<turn[i]>>
                      /\ status[i] \in {"DONE", "PAUSED"} =>
                           \E v \in Verdict : terminals[i] = <<v>> /\ StatusOf(v) = status[i]
    BY DEF VerdictsAgree
  <2>1. Coherent(i) /\ status[i] \in InputStatus
    BY DEF TypeOK, RowType
  <2>2. CASE status[i] \in Settled
    BY <2>1, <2>2 DEF Coherent, Settled
  <2>3. CASE status[i] \notin Settled
    BY <2>1, <2>3 DEF Coherent, Settled, InputStatus
  <2> QED
    BY <2>2, <2>3
<1> QED
  BY <1>1, <1>2, <1>3

\* A retried input starts from an empty event stream, an input gets one
\* terminal event at most, and row, event and turn result agree: for any number
\* of workers, inputs and sessions, any crash (also one inside the finalising
\* block), and any delay of the timers, as long as nothing writes a row without
\* looking at the claim.
THEOREM QueueCoherent ==
  ASSUME Undisturbed
  PROVE  Spec => [](QueuedInputsAreClean /\ OneTerminalEvent /\ VerdictsAgree)
<1>1. Init => CoherentInv
  BY CoherentInit
<1>2. CoherentInv /\ [Next]_vars => CoherentInv'
  BY CoherentStep
<1>3. CoherentInv => QueuedInputsAreClean /\ OneTerminalEvent /\ VerdictsAgree
  BY CoherentSays DEF CoherentInv
<1> QED
  BY <1>1, <1>2, <1>3, PTL DEF Spec

--------------------------------------------------------------------------------
(* What is settled stays settled                                            *)

\* Some actions write a row without looking at the claim; here they write
\* claimed rows only.
BlindWritesHitClaims ==
  \A w \in Worker, j \in Input :
    \/ GateBlock(w, j)
    \/ SetupThrow(w, j)
    \/ \E n \in 1..4 : CompactGiveUp(w, j, n)
    \/ \E n \in 1..3 : StoreThrow(w, j, n)
    => status[j] = "CLAIMED"

\* All other actions start from a row that waits or is claimed.
LEMMA SettledStep ==
  ASSUME BlindWritesHitClaims, TypeOK, [Next]_vars,
         NEW i \in Input, status[i] \in Settled
  PROVE  status'[i] = status[i]
<1> USE DEF TypeOK, RowType
<1>a. ASSUME NEW j \in Input, NEW st, status[j] \notin Settled, Release(j, st)
      PROVE  status'[i] = status[i]
  BY <1>a DEF Release
<1>1. CASE RouteStep
  <2>1. ASSUME NEW j \in Input, QueueRoute(j) \/ FireMessage(j)
        PROVE  status'[i] = status[i]
    BY <2>1 DEF QueueRoute, FireMessage, Fresh, Enqueue, Settled
  <2>2. ASSUME NEW j \in Input, QueueRouteAgain(j) \/ CancelRoute(j)
        PROVE  status'[i] = status[i]
    BY <2>2 DEF QueueRouteAgain, CancelRoute, rowVars, Settled
  <2>3. ASSUME NEW s \in Session, PauseQueued(s)
        PROVE  status'[i] = status[i]
    <3>1. rtInput[s] \in Input /\ status[rtInput[s]] \notin Settled
      BY <2>3 DEF PauseQueued, RuntimeType, Settled
    <3>2. Release(rtInput[s], "PAUSED")
      BY <2>3 DEF PauseQueued
    <3> QED
      BY <3>1, <3>2, <1>a
  <2>4. ASSUME NEW w \in Worker, NEW s \in Session, PauseRunning(w, s)
        PROVE  status'[i] = status[i]
    BY <2>4 DEF PauseRunning, rowVars
  <2> QED
    BY <1>1, <2>1, <2>2, <2>3, <2>4 DEF RouteStep
<1>2. CASE Tick
  BY <1>2 DEF Tick
<1>3. ASSUME NEW w \in Worker, WorkerStep(w)
      PROVE  status'[i] = status[i]
  <2>1. CASE Start(w) \/ Crash(w)
    BY <2>1 DEF Start, Crash, rowVars
  <2>2. ASSUME NEW j \in Input, Recover(w, j)
        PROVE  status'[i] = status[i]
    <3>1. CASE RenewOwnRun(w, j)
      BY <3>1 DEF RenewOwnRun
    <3>2. CASE RequeueClaim(w, j) \/ FailClaim(w, j)
      <4>1. status[j] = "CLAIMED" /\ \E st \in InputStatus : Release(j, st)
        BY <3>2 DEF RequeueClaim, FailClaim, Recoverable, InputStatus, Settled
      <4> QED
        BY <4>1, <1>a DEF Settled
    <3> QED
      BY <2>2, <3>1, <3>2 DEF Recover
  <2>3. ASSUME NEW j \in Input, ClaimInput(w, j) \/ Keepalive(w, j)
        PROVE  status'[i] = status[i]
    BY <2>3 DEF ClaimInput, Claimable, Keepalive, Settled
  <2>4. ASSUME NEW j \in Input, RunStep(w, j) \/ CrashFinalizing(w, j)
        PROVE  status'[i] = status[i]
    <3>1. CASE GatePass(w, j)
      BY <3>1 DEF GatePass, rowVars
    <3>6. CASE GateBlock(w, j) \/ SetupThrow(w, j)
      <4>1. status[j] = "CLAIMED" /\ Release(j, "FAILED")
        BY <3>6 DEF BlindWritesHitClaims, GateBlock, SetupThrow, FailRaised
      <4> QED
        BY <4>1, <1>a DEF Settled
    <3>2. ASSUME NEW n \in 1..4, RunnerExit(w, j, n)
          PROVE  status'[i] = status[i]
      <4>1. status[j] = "CLAIMED"
        BY <3>2 DEF RunnerExit, Owned
      <4>2. status' = status \/ \E st : Release(j, st)
        BY <3>2 DEF RunnerExit, Finalize
      <4> QED
        BY <4>1, <4>2, <1>a DEF Settled
    <3>3. CASE \/ LoseClaim(w, j) \/ RunnerHeartbeat(w, j) \/ RunnerEvent(w, j)
               \/ \E x \in RunnerVerdict : RunnerTerminal(w, j, x)
               \/ RunnerExitLost(w, j) \/ RunnerExitCompact(w, j)
      BY <3>3 DEF LoseClaim, RunnerHeartbeat, RunnerEvent, RunnerTerminal,
                  RunnerExitLost, RunnerExitCompact, rowVars
    <3>4. ASSUME NEW n \in 1..4, CompactGiveUp(w, j, n)
          PROVE  status'[i] = status[i]
      <4>1. status[j] = "CLAIMED"
        BY <3>4 DEF BlindWritesHitClaims
      <4>2. status' = status \/ \E st : Release(j, st)
        BY <3>4 DEF CompactGiveUp, Finalize
      <4> QED
        BY <4>1, <4>2, <1>a DEF Settled
    <3>7. CASE CompactRetry(w, j)
      BY <3>7 DEF CompactRetry, rowVars
    <3>5. 1..3 \subseteq 1..4 /\ 4 \in 1..4
      OBVIOUS
    <3>8. CASE RunThrow(w, j)
      <4>1. CASE Owned(w, j)
        <5>1. status' = status \/ \E st : Release(j, st)
          BY <3>8 DEF RunThrow, Finalize, rowVars
        <5> QED
          BY <4>1, <5>1, <1>a DEF Owned, Settled
      <4>2. CASE ~Owned(w, j)
        BY <3>8, <4>2 DEF RunThrow, rowVars
      <4> QED
        BY <4>1, <4>2
    <3>9. ASSUME NEW n \in 1..3, StoreThrow(w, j, n)
          PROVE  status'[i] = status[i]
      <4>1. status[j] = "CLAIMED"
        BY <3>9 DEF BlindWritesHitClaims
      <4>2. status' = status \/ \E st : Release(j, st)
        BY <3>9 DEF StoreThrow
      <4> QED
        BY <4>1, <4>2, <1>a DEF Settled
    <3> QED
      BY <2>4, <3>1, <3>2, <3>3, <3>4, <3>5, <3>6, <3>7, <3>8, <3>9
         DEF RunStep, CrashFinalizing, Gate, RunnerDone, CompactDone
  <2> QED
    BY <1>3, <2>1, <2>2, <2>3, <2>4 DEF WorkerStep
<1>4. CASE UNCHANGED vars
  BY <1>4 DEF vars, rowVars
<1> QED
  BY <1>1, <1>2, <1>3, <1>4 DEF Next

\* What was settled stays settled: a worker that wakes up after its claim was
\* recovered, or that is told of the end of a run it lost, changes no row.
THEOREM SettledStaysSettled ==
  ASSUME Undisturbed
  PROVE  Spec => SettledIsFinal
<1>1. Init => CoherentInv
  BY CoherentInit
<1>2. CoherentInv /\ [Next]_vars => CoherentInv'
  BY CoherentStep
<1>3. CoherentInv /\ [Next]_vars =>
        [\A i \in Input : status[i] \in Settled => status'[i] = status[i]]_vars
  <2> SUFFICES ASSUME CoherentInv, [Next]_vars, NEW i \in Input, status[i] \in Settled
               PROVE  status'[i] = status[i]
    OBVIOUS
  <2>1. BlindWritesHitClaims
    <3>1. \A w \in Worker, j \in Input : ~GateBlock(w, j) /\ ~SetupThrow(w, j)
      BY DEF GateBlock, SetupThrow, Undisturbed
    <3>2. \A w \in Worker, j \in Input : \A n \in 1..4 : ~CompactGiveUp(w, j, n)
      BY DEF CompactGiveUp, CoherentInv, NoCompaction
    <3>3. \A w \in Worker, j \in Input : \A n \in 1..3 : ~StoreThrow(w, j, n)
      BY DEF StoreThrow, Undisturbed
    <3> QED
      BY <3>1, <3>2, <3>3 DEF BlindWritesHitClaims
  <2> QED
    BY <2>1, SettledStep DEF CoherentInv
<1> QED
  BY <1>1, <1>2, <1>3, PTL DEF Spec, SettledIsFinal

--------------------------------------------------------------------------------
(* What holds however late the workers are and whatever raises              *)

\* An execution starts with a claim, and with nothing else: no step of a worker
\* brings back a run that was given up, and a retry after a compaction goes on
\* with the run it has.
LEMMA RunsStartWithAClaim ==
  ASSUME TypeOK, [Next]_vars, NEW w \in Worker, NEW i \in Input, Active(w, i)'
  PROVE  Active(w, i) \/ ClaimInput(w, i)
<1> USE DEF TypeOK, RunType, Active
<1>a. ASSUME UNCHANGED pc PROVE Active(w, i)
  BY <1>a
<1>b. ASSUME NEW v \in Worker, Die(v) PROVE Active(w, i)
  BY <1>b DEF Die
<1>c. ASSUME NEW v \in Worker, NEW j \in Input, NEW p, pc[v][j] # "idle",
             pc' = [pc EXCEPT ![v][j] = p]
      PROVE  Active(w, i)
  BY <1>c
<1>d. ASSUME NEW v \in Worker, NEW j \in Input, EndRun(v, j) PROVE Active(w, i)
  BY <1>d DEF EndRun, RunIs
<1>1. CASE RouteStep
  BY <1>1, <1>a DEF RouteStep, QueueRoute, QueueRouteAgain, FireMessage, CancelRoute,
                    PauseQueued, PauseRunning, runVars
<1>2. CASE Tick
  BY <1>2, <1>a DEF Tick, runVars
<1>3. ASSUME NEW v \in Worker, WorkerStep(v)
      PROVE  Active(w, i) \/ ClaimInput(w, i)
  <2>1. CASE Start(v)
    BY <2>1, <1>a DEF Start, runVars
  <2>2. CASE Crash(v)
    BY <2>2, <1>b DEF Crash
  <2>3. ASSUME NEW j \in Input, Recover(v, j) \/ Keepalive(v, j)
        PROVE  Active(w, i)
    BY <2>3, <1>a DEF Recover, RenewOwnRun, RequeueClaim, FailClaim, Keepalive, runVars
  <2>4. ASSUME NEW j \in Input, ClaimInput(v, j)
        PROVE  Active(w, i) \/ ClaimInput(w, i)
    <3>1. pc' = [pc EXCEPT ![v][j] = "gate"]
      BY <2>4 DEF ClaimInput, RunIs
    <3>2. CASE v = w /\ j = i
      BY <2>4, <3>2
    <3>3. CASE ~(v = w /\ j = i)
      BY <3>1, <3>3
    <3> QED
      BY <3>2, <3>3
  <2>5. ASSUME NEW j \in Input, RunStep(v, j) \/ CrashFinalizing(v, j)
        PROVE  Active(w, i)
    <3>1. CASE GatePass(v, j)
      <4> DEFINE p == IF abort[v][j] = "none" THEN "runner" ELSE "unspawned"
      <4>1. pc[v][j] = "gate"
        BY <3>1 DEF GatePass
      <4>2. CASE Owned(v, j)
        <5>1. pc' = [pc EXCEPT ![v][j] = p]
          BY <3>1, <4>2 DEF GatePass, RunIs
        <5> QED
          BY <4>1, <5>1, <1>c
      <4>3. CASE ~Owned(v, j)
        BY <3>1, <4>3, <1>d DEF GatePass
      <4> QED
        BY <4>2, <4>3
    <3>2. CASE GateBlock(v, j) \/ SetupThrow(v, j) \/ RunnerExitLost(v, j)
               \/ \E n \in 1..3 : StoreThrow(v, j, n)
      BY <3>2, <1>d DEF GateBlock, SetupThrow, FailRaised, RunnerExitLost, StoreThrow
    <3>3. CASE \/ LoseClaim(v, j) \/ RunnerHeartbeat(v, j) \/ RunnerEvent(v, j)
               \/ \E x \in RunnerVerdict : RunnerTerminal(v, j, x)
      BY <3>3, <1>a DEF LoseClaim, RunnerHeartbeat, RunnerEvent, RunnerTerminal, runVars
    <3>4. ASSUME NEW n \in 1..4, RunnerExit(v, j, n) \/ CompactGiveUp(v, j, n)
          PROVE  Active(w, i)
      BY <3>4, <1>b, <1>d DEF RunnerExit, CompactGiveUp, Finalize
    <3>5. CASE RunnerExitCompact(v, j)
      BY <3>5, <1>c DEF RunnerExitCompact, RunnerGone
    <3>6. CASE CompactRetry(v, j)
      <4> DEFINE p == IF abort[v][j] = "none" THEN "runner" ELSE "unspawned"
      <4>1. pc[v][j] = "compact" /\ pc' = [pc EXCEPT ![v][j] = p]
        BY <3>6 DEF CompactRetry, RunIs
      <4> QED
        BY <4>1, <1>c
    <3>7. CASE RunThrow(v, j)
      BY <3>7, <1>d, <1>b DEF RunThrow, Finalize
    <3>8. 1..3 \subseteq 1..4 /\ 4 \in 1..4
      OBVIOUS
    <3> QED
      BY <2>5, <3>1, <3>2, <3>3, <3>4, <3>5, <3>6, <3>7, <3>8
         DEF RunStep, CrashFinalizing, Gate, RunnerDone, CompactDone
  <2> QED
    BY <1>3, <2>1, <2>2, <2>3, <2>4, <2>5 DEF WorkerStep
<1>4. CASE UNCHANGED vars
  BY <1>4, <1>a DEF vars, runVars
<1> QED
  BY <1>1, <1>2, <1>3, <1>4 DEF Next

\* No worker executes two inputs of one session at a time: claimInputs leaves
\* out the sessions of the worker's own runs, also of those whose claim a peer
\* took away long ago.  No assumption about clocks or errors is needed.
THEOREM RunsAreExclusive == Spec => []OneActiveRunPerSession
<1> DEFINE I == TypeOK /\ OneActiveRunPerSession
<1>1. Init => I
  BY TypeInit DEF Init, OneActiveRunPerSession, ActiveRuns, Active
<1>2. I /\ [Next]_vars => I'
  <2> SUFFICES ASSUME TypeOK, OneActiveRunPerSession, [Next]_vars
               PROVE  TypeOK' /\ OneActiveRunPerSession'
    OBVIOUS
  <2>1. TypeOK'
    BY TypeStep
  <2>2. ASSUME NEW w \in Worker, NEW i \in Input, NEW j \in Input,
               Active(w, i)', Active(w, j)', SessionOf[i] = SessionOf[j]
        PROVE  i = j
    <3>1. /\ Active(w, i) \/ ClaimInput(w, i)
          /\ Active(w, j) \/ ClaimInput(w, j)
      BY <2>2, RunsStartWithAClaim
    \* A claim names no session in which the worker has a run.
    <3>2. ASSUME NEW k \in Input, ClaimInput(w, k), NEW l \in Input, Active(w, l)
          PROVE  SessionOf[l] # SessionOf[k]
      BY <3>2 DEF ClaimInput, Claimable, ActiveRuns
    \* One step claims one input.
    <3>3. ASSUME NEW k \in Input, ClaimInput(w, k), NEW l \in Input, Active(w, l)', l # k
          PROVE  Active(w, l)
      BY <3>3 DEF ClaimInput, RunIs, Active, TypeOK, RunType
    <3>4. CASE Active(w, i) /\ Active(w, j)
      BY <2>2, <3>4 DEF OneActiveRunPerSession, ActiveRuns
    <3> QED
      BY <2>2, <3>1, <3>2, <3>3, <3>4
  <2> QED
    BY <2>1, <2>2 DEF OneActiveRunPerSession, ActiveRuns
<1>3. I => OneActiveRunPerSession
  OBVIOUS
<1> HIDE DEF I
<1> QED
  BY <1>1, <1>2, <1>3, PTL DEF Spec

\* The moves of a row's status, over every path of the model: into the queue,
\* into a claim, back from a claim, or into a settled status.
Moved(i) ==
  \/ status'[i] = status[i]
  \/ status[i] = "NONE" /\ status'[i] = "QUEUED"
  \/ status[i] = "QUEUED" /\ status'[i] = "CLAIMED"
  \/ status[i] = "CLAIMED" /\ status'[i] = "QUEUED"
  \/ status'[i] \in Settled

LEMMA StatusMoves ==
  ASSUME TypeOK, [Next]_vars, NEW i \in Input
  PROVE  Moved(i)
<1> USE DEF TypeOK, RowType
<1>a. ASSUME UNCHANGED status PROVE Moved(i)
  BY <1>a DEF Moved
<1>b. ASSUME NEW j \in Input, NEW st \in Settled, Release(j, st) PROVE Moved(i)
  BY <1>b DEF Moved, Release
<1>1. CASE RouteStep
  <2>1. ASSUME NEW j \in Input, QueueRoute(j) \/ FireMessage(j) PROVE Moved(i)
    BY <2>1 DEF QueueRoute, FireMessage, Fresh, Enqueue, Moved
  <2>2. ASSUME NEW j \in Input, QueueRouteAgain(j) PROVE Moved(i)
    BY <2>2, <1>a DEF QueueRouteAgain, rowVars
  <2>3. ASSUME NEW j \in Input, CancelRoute(j) PROVE Moved(i)
    BY <2>3 DEF CancelRoute, Moved, Settled
  <2>4. ASSUME NEW s \in Session, PauseQueued(s) PROVE Moved(i)
    <3>1. rtInput[s] \in Input /\ Release(rtInput[s], "PAUSED") /\ "PAUSED" \in Settled
      BY <2>4 DEF PauseQueued, RuntimeType, Settled
    <3> QED
      BY <3>1, <1>b
  <2>5. ASSUME NEW w \in Worker, NEW s \in Session, PauseRunning(w, s) PROVE Moved(i)
    BY <2>5, <1>a DEF PauseRunning, rowVars
  <2> QED
    BY <1>1, <2>1, <2>2, <2>3, <2>4, <2>5 DEF RouteStep
<1>2. CASE Tick
  BY <1>2, <1>a DEF Tick
<1>3. ASSUME NEW w \in Worker, WorkerStep(w) PROVE Moved(i)
  <2>1. CASE Start(w) \/ Crash(w)
    BY <2>1, <1>a DEF Start, Crash, rowVars
  <2>2. ASSUME NEW j \in Input, Recover(w, j) PROVE Moved(i)
    <3>1. CASE RenewOwnRun(w, j)
      BY <3>1, <1>a DEF RenewOwnRun
    <3>2. CASE RequeueClaim(w, j)
      BY <3>2 DEF RequeueClaim, Recoverable, Release, Moved
    <3>3. CASE FailClaim(w, j)
      BY <3>3, <1>b DEF FailClaim, Settled
    <3> QED
      BY <2>2, <3>1, <3>2, <3>3 DEF Recover
  <2>3. ASSUME NEW j \in Input, ClaimInput(w, j) \/ Keepalive(w, j) PROVE Moved(i)
    BY <2>3 DEF ClaimInput, Claimable, Keepalive, Moved
  <2>4. ASSUME NEW j \in Input, RunStep(w, j) \/ CrashFinalizing(w, j) PROVE Moved(i)
    <3>1. CASE GatePass(w, j) \/ LoseClaim(w, j) \/ RunnerHeartbeat(w, j)
               \/ RunnerEvent(w, j) \/ (\E x \in RunnerVerdict : RunnerTerminal(w, j, x))
               \/ RunnerExitLost(w, j) \/ RunnerExitCompact(w, j) \/ CompactRetry(w, j)
      BY <3>1, <1>a DEF GatePass, LoseClaim, RunnerHeartbeat, RunnerEvent, RunnerTerminal,
                        RunnerExitLost, RunnerExitCompact, CompactRetry, rowVars
    <3>2. CASE GateBlock(w, j) \/ SetupThrow(w, j)
      BY <3>2, <1>b DEF GateBlock, SetupThrow, FailRaised, Settled
    <3>3. ASSUME NEW v, NEW append, NEW n \in 1..4, Finalize(w, j, v, append, n)
          PROVE  Moved(i)
      <4>1. StatusOf(v) \in Settled
        BY DEF StatusOf, Settled
      <4> QED
        BY <3>3, <4>1, <1>a, <1>b DEF Finalize
    <3>4. ASSUME NEW n \in 1..4, RunnerExit(w, j, n) \/ CompactGiveUp(w, j, n)
          PROVE  Moved(i)
      BY <3>3, <3>4 DEF RunnerExit, CompactGiveUp
    <3>5. 1..3 \subseteq 1..4 /\ 4 \in 1..4
      OBVIOUS
    <3>6. CASE RunThrow(w, j)
      BY <3>3, <3>5, <3>6, <1>a DEF RunThrow, rowVars
    <3>7. ASSUME NEW n \in 1..3, StoreThrow(w, j, n) PROVE Moved(i)
      <4>1. UNCHANGED status \/ Release(j, "FAILED") \/ \E v : Release(j, StatusOf(v))
        BY <3>7 DEF StoreThrow
      <4>2. "FAILED" \in Settled /\ \A v : StatusOf(v) \in Settled
        BY DEF StatusOf, Settled
      <4> QED
        BY <4>1, <4>2, <1>a, <1>b
    <3> QED
      BY <2>4, <3>1, <3>2, <3>4, <3>5, <3>6, <3>7
         DEF RunStep, CrashFinalizing, Gate, RunnerDone, CompactDone
  <2> QED
    BY <1>3, <2>1, <2>2, <2>3, <2>4 DEF WorkerStep
<1>4. CASE UNCHANGED vars
  BY <1>4, <1>a DEF vars, rowVars
<1> QED
  BY <1>1, <1>2, <1>3, <1>4 DEF Next

\* What is settled is never queued or claimed again: a stale worker, a blocked
\* gate, a raising setup or a compaction that is given up may overwrite how an
\* input ended, and no path executes it once more.
SettledIsNeverReopened ==
  [][\A i \in Input : status[i] \in Settled => status'[i] \in Settled]_vars

\* No input is executed again once it is settled, under any delay, crash,
\* exception and refused write.
THEOREM SettledStaysClosed == Spec => SettledIsNeverReopened
<1>1. Init => TypeOK
  BY TypeInit
<1>2. TypeOK /\ [Next]_vars => TypeOK'
  BY TypeStep
<1>3. TypeOK /\ [Next]_vars =>
        [\A i \in Input : status[i] \in Settled => status'[i] \in Settled]_vars
  BY StatusMoves DEF Moved, Settled
<1> QED
  BY <1>1, <1>2, <1>3, PTL DEF Spec, SettledIsNeverReopened

--------------------------------------------------------------------------------
(* The queue implements the life of an input                                *)

LEMMA Phases ==
  /\ PhaseOf("NONE") = "absent"
  /\ PhaseOf("QUEUED") = "waiting"
  /\ PhaseOf("CLAIMED") = "taken"
  /\ \A st \in Settled : PhaseOf(st) = "settled"
BY DEF PhaseOf, Settled

LEMMA Reports ==
  /\ ReportOf(<<>>) = "none"
  /\ \A v \in Verdict : ReportOf(<<v>>) = v
BY DEF ReportOf

\* Steps that leave rows' statuses, terminal events and turn results alone
\* are invisible in the promise.
LEMMA Invisible ==
  ASSUME UNCHANGED <<status, terminals, turn>>
  PROVE  UNCHANGED Lifecycle!vars
BY DEF Lifecycle!vars, PhaseOf, ReportOf

\* One row goes from one status to another, and its logs stay as they are.
LEMMA PhaseChange ==
  ASSUME TypeOK, NEW j \in Input, NEW st,
         status' = [status EXCEPT ![j] = st], UNCHANGED <<terminals, turn>>
  PROVE  /\ [i \in Input |-> PhaseOf(status[i])]'
              = [[i \in Input |-> PhaseOf(status[i])] EXCEPT ![j] = PhaseOf(st)]
         /\ UNCHANGED <<[i \in Input |-> ReportOf(terminals[i])], turn>>
BY DEF TypeOK, RowType, ReportOf

\* A row is settled and its first terminal event is written.
LEMMA EndChange ==
  ASSUME TypeOK, NEW j \in Input, NEW st \in Settled, NEW v \in Verdict,
         status' = [status EXCEPT ![j] = st],
         terminals' = [terminals EXCEPT ![j] = <<v>>]
  PROVE  /\ [i \in Input |-> PhaseOf(status[i])]'
              = [[i \in Input |-> PhaseOf(status[i])] EXCEPT ![j] = "settled"]
         /\ [i \in Input |-> ReportOf(terminals[i])]'
              = [[i \in Input |-> ReportOf(terminals[i])] EXCEPT ![j] = v]
<1>1. PhaseOf(st) = "settled" /\ ReportOf(<<v>>) = v
  BY Phases, Reports
<1>2. [i \in Input |-> PhaseOf(status[i])]'
        = [[i \in Input |-> PhaseOf(status[i])] EXCEPT ![j] = "settled"]
  BY <1>1 DEF TypeOK, RowType
<1>3. [i \in Input |-> ReportOf(terminals[i])]'
        = [[i \in Input |-> ReportOf(terminals[i])] EXCEPT ![j] = v]
  <2>1. \A i \in Input : terminals'[i] = IF i = j THEN <<v>> ELSE terminals[i]
    BY DEF TypeOK, LogType
  <2>2. \A i \in Input : ReportOf(terminals[i])' = IF i = j THEN v ELSE ReportOf(terminals[i])
    BY <1>1, <2>1 DEF ReportOf
  <2> QED
    BY <2>2
<1> QED
  BY <1>2, <1>3

LEMMA RouteRefines ==
  ASSUME TypeOK, \A k \in Input : Coherent(k), RouteStep
  PROVE  [Lifecycle!Next]_Lifecycle!vars
<1> USE Phases DEF TypeOK
<1>1. ASSUME NEW j \in Input, QueueRoute(j) \/ FireMessage(j)
      PROVE  Lifecycle!Submit(j)
  <2>1. status[j] = "NONE" /\ status' = [status EXCEPT ![j] = "QUEUED"]
    BY <1>1 DEF QueueRoute, FireMessage, Fresh, Enqueue
  <2>2. UNCHANGED <<terminals, turn>>
    BY <1>1 DEF QueueRoute, FireMessage, Enqueue, logVars
  <2>3. /\ [i \in Input |-> PhaseOf(status[i])]'
             = [[i \in Input |-> PhaseOf(status[i])] EXCEPT ![j] = PhaseOf("QUEUED")]
        /\ UNCHANGED <<[i \in Input |-> ReportOf(terminals[i])], turn>>
    BY <2>1, <2>2, PhaseChange
  <2>4. PhaseOf("QUEUED") = "waiting" /\ PhaseOf(status[j]) = "absent"
    BY <2>1 DEF Settled
  <2> QED
    BY <2>3, <2>4 DEF Lifecycle!Submit
<1>2. ASSUME NEW j \in Input, QueueRouteAgain(j)
      PROVE  UNCHANGED Lifecycle!vars
  BY <1>2, Invisible DEF QueueRouteAgain, rowVars, logVars
<1>3. ASSUME NEW j \in Input, CancelRoute(j)
      PROVE  Lifecycle!Withdraw(j)
  <2>1. status[j] = "QUEUED" /\ status' = [status EXCEPT ![j] = "CANCELLED"]
    BY <1>3 DEF CancelRoute
  <2>2. UNCHANGED <<terminals, turn>>
    BY <1>3 DEF CancelRoute, logVars
  <2>3. /\ [i \in Input |-> PhaseOf(status[i])]'
             = [[i \in Input |-> PhaseOf(status[i])] EXCEPT ![j] = PhaseOf("CANCELLED")]
        /\ UNCHANGED <<[i \in Input |-> ReportOf(terminals[i])], turn>>
    BY <2>1, <2>2, PhaseChange
  <2>4. PhaseOf("CANCELLED") = "settled" /\ PhaseOf(status[j]) = "waiting"
    BY <2>1 DEF Settled
  <2> QED
    BY <2>3, <2>4 DEF Lifecycle!Withdraw
<1>4. ASSUME NEW s \in Session, PauseQueued(s)
      PROVE  \E j \in Input, v \in Verdict : Lifecycle!Answer(j, v)
  <2> DEFINE j == rtInput[s]
  <2>1. j \in Input /\ status[j] = "QUEUED"
    BY <1>4 DEF PauseQueued, RuntimeType
  <2>2. terminals[j] = <<>>
    BY <2>1 DEF Coherent
  <2>3. /\ status' = [status EXCEPT ![j] = "PAUSED"]
        /\ turn' = [turn EXCEPT ![j] = "paused"]
    BY <1>4 DEF PauseQueued, Release
  <2>4. terminals' = [terminals EXCEPT ![j] = <<"paused">>]
    <3>1. terminals' = [terminals EXCEPT ![j] = Append(terminals[j], "paused")]
      BY <1>4 DEF PauseQueued
    <3>2. Append(<<>>, "paused") = <<"paused">>
      OBVIOUS
    <3> QED
      BY <2>2, <3>1, <3>2
  <2> HIDE DEF j
  <2>5. "paused" \in Verdict
    BY DEF Verdict
  <2>6. Lifecycle!Answer(j, "paused")
    <3>1. "paused" \in Verdict /\ "PAUSED" \in Settled
      BY DEF Verdict, Settled
    <3>2. ReportOf(terminals[j]) = "none" /\ PhaseOf(status[j]) = "waiting"
      BY <2>1, <2>2, Reports
    <3> QED
      BY <2>1, <2>3, <2>4, <3>1, <3>2, EndChange DEF Lifecycle!Answer
  <2> QED
    BY <2>1, <2>5, <2>6
<1>5. ASSUME NEW w \in Worker, NEW s \in Session, PauseRunning(w, s)
      PROVE  UNCHANGED Lifecycle!vars
  BY <1>5, Invisible DEF PauseRunning, rowVars, logVars
<1> QED
  BY <1>1, <1>2, <1>3, <1>4, <1>5 DEF RouteStep, Lifecycle!Next

LEMMA ClaimRefines ==
  ASSUME TypeOK, \A k \in Input : Coherent(k), NEW w \in Worker, NEW j \in Input, ClaimInput(w, j)
  PROVE  Lifecycle!Take(j)
<1>1. status[j] = "QUEUED" /\ status' = [status EXCEPT ![j] = "CLAIMED"]
  BY DEF ClaimInput, Claimable
<1>2. UNCHANGED <<terminals, turn>>
  BY DEF ClaimInput, logVars
<1>3. /\ [i \in Input |-> PhaseOf(status[i])]'
           = [[i \in Input |-> PhaseOf(status[i])] EXCEPT ![j] = PhaseOf("CLAIMED")]
      /\ UNCHANGED <<[i \in Input |-> ReportOf(terminals[i])], turn>>
  BY <1>1, <1>2, PhaseChange
<1>4. PhaseOf("CLAIMED") = "taken" /\ PhaseOf(status[j]) = "waiting"
  BY <1>1, Phases
<1> QED
  BY <1>3, <1>4 DEF Lifecycle!Take

\* A recovered claim goes back to the queue, is abandoned if its holder died
\* after reporting, and is reported as failed otherwise.
LEMMA RecoveryRefines ==
  ASSUME TypeOK, \A k \in Input : Coherent(k), NEW w \in Worker, NEW j \in Input, Recover(w, j)
  PROVE  [Lifecycle!Next]_Lifecycle!vars
<1>1. CASE RenewOwnRun(w, j)
  BY <1>1, Invisible DEF RenewOwnRun, logVars
<1>2. CASE RequeueClaim(w, j)
  <2>1. /\ status[j] = "CLAIMED" /\ terminals[j] = <<>>
        /\ status' = [status EXCEPT ![j] = "QUEUED"]
        /\ UNCHANGED <<terminals, turn>>
    BY <1>2 DEF RequeueClaim, Recoverable, Release, ShouldRequeue
  <2>2. /\ [i \in Input |-> PhaseOf(status[i])]'
             = [[i \in Input |-> PhaseOf(status[i])] EXCEPT ![j] = PhaseOf("QUEUED")]
        /\ UNCHANGED <<[i \in Input |-> ReportOf(terminals[i])], turn>>
    BY <2>1, PhaseChange
  <2>3. /\ PhaseOf("QUEUED") = "waiting" /\ PhaseOf(status[j]) = "taken"
        /\ ReportOf(terminals[j]) = "none"
    BY <2>1, Phases, Reports
  <2>4. Lifecycle!Return(j)
    BY <2>2, <2>3 DEF Lifecycle!Return
  <2> QED
    BY <2>4 DEF Lifecycle!Next
<1>3. CASE FailClaim(w, j)
  <2>1. /\ status[j] = "CLAIMED"
        /\ status' = [status EXCEPT ![j] = "FAILED"]
        /\ terminals' = [terminals EXCEPT ![j] = IF @ = <<>> THEN <<"failed">> ELSE @]
        /\ UNCHANGED turn
    BY <1>3 DEF FailClaim, Recoverable, Release
  <2>2. PhaseOf(status[j]) = "taken" /\ "FAILED" \in Settled /\ "failed" \in Verdict
    BY <2>1, Phases DEF Settled, Verdict
  <2>3. CASE terminals[j] = <<>>
    <3>1. terminals' = [terminals EXCEPT ![j] = <<"failed">>]
      BY <2>1, <2>3
    <3>2. ReportOf(terminals[j]) = "none"
      BY <2>3, Reports
    <3>3. Lifecycle!Report(j, "failed")
      BY <2>1, <2>2, <3>1, <3>2, EndChange DEF Lifecycle!Report
    <3> QED
      BY <2>2, <3>3 DEF Lifecycle!Next
  <2>4. CASE terminals[j] # <<>>
    <3>1. UNCHANGED <<terminals, turn>>
      BY <2>1, <2>4 DEF TypeOK, LogType
    <3>2. /\ [i \in Input |-> PhaseOf(status[i])]'
               = [[i \in Input |-> PhaseOf(status[i])] EXCEPT ![j] = PhaseOf("FAILED")]
          /\ UNCHANGED <<[i \in Input |-> ReportOf(terminals[i])], turn>>
      BY <2>1, <3>1, PhaseChange
    <3>3. PhaseOf("FAILED") = "settled"
      BY <2>2, Phases
    <3>4. Lifecycle!Abandon(j)
      BY <2>2, <3>2, <3>3 DEF Lifecycle!Abandon
    <3> QED
      BY <3>4 DEF Lifecycle!Next
  <2> QED
    BY <2>3, <2>4
<1> QED
  BY <1>1, <1>2, <1>3 DEF Recover

\* The finalising block is an answer when it is complete, and a report that
\* may or may not have settled the row when a crash cuts it short.
LEMMA FinalizeRefines ==
  ASSUME TypeOK, \A k \in Input : Coherent(k), NEW w \in Worker, NEW j \in Input, NEW v \in Verdict,
         NEW n \in 1..4, Up(w), Owned(w, j), Finalize(w, j, v, TRUE, n)
  PROVE  Lifecycle!Answer(j, v) \/ Lifecycle!Report(j, v)
<1>1. status[j] = "CLAIMED" /\ terminals[j] = <<>>
  BY OwnClaimUnreported DEF Owned
<1>2. PhaseOf(status[j]) = "taken" /\ ReportOf(terminals[j]) = "none"
  BY <1>1, Phases, Reports
<1>3. terminals' = [terminals EXCEPT ![j] = <<v>>]
  <2>1. terminals' = [terminals EXCEPT ![j] = Append(terminals[j], v)]
    BY DEF Finalize
  <2>2. Append(<<>>, v) = <<v>>
    OBVIOUS
  <2> QED
    BY <1>1, <2>1, <2>2
<1>4. CASE n = 1
  <2>1. status' = status /\ turn' = turn
    BY <1>4 DEF Finalize
  <2>2. [i \in Input |-> ReportOf(terminals[i])]'
          = [[i \in Input |-> ReportOf(terminals[i])] EXCEPT ![j] = v]
    <3>1. ReportOf(<<v>>) = v
      BY Reports
    <3>2. \A i \in Input : terminals'[i] = IF i = j THEN <<v>> ELSE terminals[i]
      BY <1>3 DEF TypeOK, LogType
    <3>3. \A i \in Input :
            ReportOf(terminals[i])' = IF i = j THEN v ELSE ReportOf(terminals[i])
      BY <3>1, <3>2 DEF ReportOf
    <3> QED
      BY <3>3
  <2>3. UNCHANGED [i \in Input |-> PhaseOf(status[i])]
    BY <2>1 DEF PhaseOf
  <2> QED
    BY <1>2, <2>1, <2>2, <2>3 DEF Lifecycle!Report
<1>5. CASE n # 1
  <2>1. n >= 2
    BY <1>5
  <2>2. status' = [status EXCEPT ![j] = StatusOf(v)] /\ StatusOf(v) \in Settled
    BY <2>1, StatusOfType DEF Finalize, Release
  <2>3. /\ [i \in Input |-> PhaseOf(status[i])]'
             = [[i \in Input |-> PhaseOf(status[i])] EXCEPT ![j] = "settled"]
        /\ [i \in Input |-> ReportOf(terminals[i])]'
             = [[i \in Input |-> ReportOf(terminals[i])] EXCEPT ![j] = v]
    BY <1>3, <2>2, EndChange
  <2>4. CASE n = 4
    <3>1. turn' = [turn EXCEPT ![j] = v]
      BY <2>4 DEF Finalize
    <3> QED
      BY <1>2, <2>3, <3>1 DEF Lifecycle!Answer
  <2>5. CASE n # 4
    <3>1. UNCHANGED turn
      BY <2>5 DEF Finalize
    <3> QED
      BY <1>2, <2>3, <3>1 DEF Lifecycle!Report
  <2> QED
    BY <2>4, <2>5
<1> QED
  BY <1>4, <1>5

LEMMA RunRefines ==
  ASSUME Undisturbed, CoherentInv, NEW w \in Worker, NEW j \in Input,
         RunStep(w, j) \/ CrashFinalizing(w, j)
  PROVE  [Lifecycle!Next]_Lifecycle!vars
<1> USE DEF CoherentInv
<1>1. CASE Gate(w, j)
  <2>1. GatePass(w, j)
    BY <1>1 DEF Gate, GateBlock, SetupThrow, Undisturbed
  <2> QED
    BY <2>1, Invisible DEF GatePass, rowVars, logVars
<1>2. ASSUME NEW n \in 1..4, RunnerExit(w, j, n)
      PROVE  [Lifecycle!Next]_Lifecycle!vars
  <2> DEFINE v == Final(Outcome(w, j))
  <2>1. Up(w) /\ Owned(w, j)
    BY <1>2 DEF RunnerExit, RunnerGone
  <2>2. terminals[j] = <<>>
    BY <2>1, OwnClaimUnreported
  <2>3. Finalize(w, j, v, TRUE, n)
    BY <1>2, <2>2 DEF RunnerExit, Finalize
  <2>4. v \in Verdict
    BY OutcomeType
  <2> HIDE DEF v
  <2>5. Lifecycle!Answer(j, v) \/ Lifecycle!Report(j, v)
    BY <2>1, <2>3, <2>4, FinalizeRefines
  <2> QED
    BY <2>4, <2>5 DEF Lifecycle!Next
<1>3. CASE \/ LoseClaim(w, j) \/ RunnerHeartbeat(w, j) \/ RunnerEvent(w, j)
           \/ \E v \in RunnerVerdict : RunnerTerminal(w, j, v)
           \/ RunnerExitLost(w, j) \/ RunnerExitCompact(w, j)
  BY <1>3, Invisible DEF LoseClaim, RunnerHeartbeat, RunnerEvent, RunnerTerminal,
                         RunnerExitLost, RunnerExitCompact, rowVars, logVars
<1>4. ~CompactRetry(w, j) /\ \A n \in 1..4 : ~CompactGiveUp(w, j, n)
  BY DEF NoCompaction, CompactRetry, CompactGiveUp
<1>5. 1..3 \subseteq 1..4 /\ 4 \in 1..4
  OBVIOUS
<1>6. CASE RunThrow(w, j)
  <2>1. CASE Owned(w, j) /\ ~lost[w][j]
    <3>1. Up(w) /\ Finalize(w, j, "failed", TRUE, 4) /\ "failed" \in Verdict
      BY <1>6, <2>1 DEF RunThrow, Verdict
    <3>2. Lifecycle!Answer(j, "failed") \/ Lifecycle!Report(j, "failed")
      BY <1>5, <2>1, <3>1, FinalizeRefines
    <3> QED
      BY <3>1, <3>2 DEF Lifecycle!Next
  <2>2. CASE ~(Owned(w, j) /\ ~lost[w][j])
    BY <1>6, <2>2, Invisible DEF RunThrow, rowVars, logVars
  <2> QED
    BY <2>1, <2>2
<1>7. \A n \in 1..3 : ~StoreThrow(w, j, n)
  BY DEF StoreThrow, Undisturbed
<1> QED
  BY <1>1, <1>2, <1>3, <1>4, <1>5, <1>6, <1>7
     DEF RunStep, CrashFinalizing, RunnerDone, CompactDone

\* The queue keeps the promise of InputLifecycle for every number of workers,
\* inputs and sessions, whatever crashes and however late the timers are.
THEOREM QueueImplementsLifecycle ==
  ASSUME Undisturbed
  PROVE  Spec => ImplementsLifecycle
<1>1. Init => CoherentInv
  BY CoherentInit
<1>2. CoherentInv /\ [Next]_vars => CoherentInv'
  BY CoherentStep
<1>3. Init => Lifecycle!Init
  BY Phases, Reports DEF Init, Lifecycle!Init
<1>4. CoherentInv /\ [Next]_vars => [Lifecycle!Next]_Lifecycle!vars
  <2> SUFFICES ASSUME CoherentInv, [Next]_vars
               PROVE  [Lifecycle!Next]_Lifecycle!vars
    OBVIOUS
  <2> USE DEF CoherentInv
  <2>1. CASE RouteStep
    BY <2>1, RouteRefines
  <2>2. CASE Tick
    BY <2>2, Invisible DEF Tick, logVars
  <2>3. ASSUME NEW w \in Worker, WorkerStep(w)
        PROVE  [Lifecycle!Next]_Lifecycle!vars
    <3>1. CASE Start(w) \/ Crash(w)
      BY <3>1, Invisible DEF Start, Crash, rowVars, logVars
    <3>2. ASSUME NEW j \in Input, ClaimInput(w, j)
          PROVE  [Lifecycle!Next]_Lifecycle!vars
      BY <3>2, ClaimRefines DEF Lifecycle!Next
    <3>3. ASSUME NEW j \in Input, Keepalive(w, j)
          PROVE  [Lifecycle!Next]_Lifecycle!vars
      BY <3>3, Invisible DEF Keepalive, logVars
    <3> QED
      BY <2>3, <3>1, <3>2, <3>3, RecoveryRefines, RunRefines DEF WorkerStep
  <2>4. CASE UNCHANGED vars
    BY <2>4, Invisible DEF vars, rowVars, logVars
  <2> QED
    BY <2>1, <2>2, <2>3, <2>4 DEF Next
<1> QED
  BY <1>1, <1>2, <1>3, <1>4, PTL DEF Spec, ImplementsLifecycle, Lifecycle!Spec

================================================================================

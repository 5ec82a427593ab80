------------------------ MODULE MainSessionEventsProofs ------------------------
(***************************************************************************)
(* Theorems about MainSessionEvents that hold for every set of subagents   *)
(* and events, every number of inputs and crashes, and any mishap.         *)
(***************************************************************************)
EXTENDS MainSessionEventsRefinement, TLAPS

--------------------------------------------------------------------------------
(* Type correctness *)

LEMMA Numbers == NumInputs \in Nat /\ MaxCrashes \in Nat
BY MainSessionEventsAssumption DEF MainSessionEventsAssumption

LEMMA RunnerSays == RunnerVerdict \subseteq Verdict
BY MainSessionEventsAssumption DEF MainSessionEventsAssumption

LEMMA NoInputIsNone == NoInput \notin Input
BY Numbers DEF NoInput, Input

LEMMA StatusOfType ==
  \A v \in Verdict : /\ StatusOf(v) \in {"DONE", "FAILED", "PAUSED"}
                     /\ RuntimeStatusOf(v) \in RuntimeStatus
BY DEF Verdict, StatusOf, RuntimeStatusOf, RuntimeStatus

LEMMA TypeInit == Init => TypeOK
BY Numbers DEF Init, TypeOK, EventType, RowType, EventStatus, InputStatus,
               RuntimeStatus, NoInput

\* What the helpers that write a column or two do to the types.
LEMMA KeyTouchedType ==
  ASSUME RowType, NEW E
  PROVE  /\ KeyTouched(E) \in [Input -> {"none", "client", "batch"}]
         /\ KeyAfterRecovery \in [Input -> {"none", "client", "batch"}]
BY DEF RowType, KeyTouched, KeyAfterRecovery

LEMMA MaterializeType ==
  ASSUME EventType, NEW E, NEW i \in Input, Materialize(E, i)
  PROVE  evStatus' \in [Event -> EventStatus] /\ evInput' \in [Event -> Input \cup {NoInput}]
BY DEF EventType, Materialize, EventsBecome, EventStatus

LEMMA InsertType ==
  ASSUME RowType, NEW i \in Input, NEW k \in {"user", "batch"}, NEW E \in SUBSET Event,
         Insert(i, k, E)
  PROVE  /\ status' \in [Input -> InputStatus]
         /\ kind' \in [Input -> {"none", "user", "batch"}]
         /\ carries' \in [Input -> SUBSET Event]
BY DEF RowType, Insert, SetStatus, InputStatus

LEMMA SetStatusType ==
  ASSUME RowType, NEW i \in Input, NEW st \in InputStatus, SetStatus(i, st),
         UNCHANGED <<kind, carries, key>>, begun' \in [Input -> BOOLEAN]
  PROVE  RowType'
BY DEF RowType, SetStatus

RuntimeType == rtStatus \in RuntimeStatus /\ rtInput \in Input \cup {NoInput}

LEMMA RuntimeAfterQueueType ==
  ASSUME RuntimeType, NEW i \in Input, RuntimeAfterQueue(i)
  PROVE  RuntimeType'
BY DEF RuntimeType, RuntimeAfterQueue, SetRuntime, rtVars, RuntimeStatus

LEMMA ResetRuntimeType ==
  ASSUME RuntimeType, NEW i \in Input, NEW st \in RuntimeStatus, ResetRuntime(i, st)
  PROVE  RuntimeType'
BY DEF RuntimeType, ResetRuntime, SetRuntime, rtVars

LEMMA SubagentTypes ==
  ASSUME TypeOK, SubagentStep
  PROVE  TypeOK'
<1> USE DEF TypeOK, EventType, RowType, rtVars, histVars, rowVars
<1>1. ASSUME NEW e \in Event, SubagentTurnEnds(e)
      PROVE  TypeOK'
  BY <1>1, KeyTouchedType DEF SubagentTurnEnds, EventStatus
<1>2. ASSUME NEW s \in Subagent, SubagentContinues(s)
      PROVE  TypeOK'
  BY <1>2, KeyTouchedType DEF SubagentContinues, EventsBecome, EventStatus
<1>3. ASSUME NEW e \in Event, Ripen(e)
      PROVE  TypeOK'
  BY <1>3 DEF Ripen
<1> QED
  BY <1>1, <1>2, <1>3 DEF SubagentStep

LEMMA RouteTypes ==
  ASSUME TypeOK, RouteStep
  PROVE  TypeOK'
<1> USE DEF histVars
<1>t. EventType /\ RowType /\ RuntimeType
  BY DEF TypeOK, RuntimeType
<1>i. Inlined \in SUBSET Event
  BY DEF Inlined, Pending
<1>1. ASSUME NEW i \in Input, NEW n \in 1..3, UserPost(i, n)
      PROVE  TypeOK'
  <2>1. EventType'
    <3>1. CASE n >= 2
      BY <1>1, <3>1, <1>t, MaterializeType DEF UserPost, EventType
    <3>2. CASE ~(n >= 2)
      BY <1>1, <3>2, <1>t DEF UserPost, EventType
    <3> QED
      BY <3>1, <3>2
  <2>2. RowType'
    <3>1. key' \in [Input -> {"none", "client", "batch"}]
      <4>1. CASE n >= 2
        BY <1>1, <4>1, <1>t, KeyTouchedType DEF UserPost
      <4>2. CASE ~(n >= 2)
        BY <1>1, <4>2, <1>t DEF UserPost, RowType
      <4> QED
        BY <4>1, <4>2
    <3>2. Insert(i, "user", Inlined) /\ UNCHANGED begun
      BY <1>1 DEF UserPost
    <3> QED
      BY <1>t, <1>i, <3>1, <3>2, InsertType DEF RowType
  <2>3. RuntimeType'
    <3>1. CASE n = 3
      BY <1>1, <3>1, <1>t, RuntimeAfterQueueType DEF UserPost
    <3>2. CASE n # 3
      BY <1>1, <3>2, <1>t DEF UserPost, RuntimeType, rtVars
    <3> QED
      BY <3>1, <3>2
  <2>4. severed' \in [Input -> BOOLEAN] /\ UNCHANGED <<run, crashes>>
    BY <1>1 DEF UserPost, TypeOK
  <2> QED
    BY <2>1, <2>2, <2>3, <2>4 DEF TypeOK, RuntimeType
<1>2. ASSUME NEW i \in Input, UserPostAgain(i)
      PROVE  TypeOK'
  <2>1. EventType'
    BY <1>2, <1>t, MaterializeType DEF UserPostAgain, EventType
  <2>2. RowType'
    BY <1>2, <1>t, KeyTouchedType DEF UserPostAgain, RowType
  <2>3. RuntimeType'
    BY <1>2, <1>t, RuntimeAfterQueueType DEF UserPostAgain
  <2>4. severed' \in [Input -> BOOLEAN] /\ UNCHANGED <<run, crashes>>
    BY <1>2 DEF UserPostAgain, TypeOK, Open
  <2> QED
    BY <2>1, <2>2, <2>3, <2>4 DEF TypeOK, RuntimeType
<1>3. ASSUME NEW i \in Input, FireMessage(i)
      PROVE  TypeOK'
  <2>1. RowType'
    BY <1>3, <1>t, InsertType DEF FireMessage, RowType
  <2> QED
    BY <1>3, <2>1 DEF FireMessage, TypeOK, EventType, evVars, SetRuntime, RuntimeStatus
<1>4. ASSUME PauseQueued
      PROVE  TypeOK'
  <2>1. rtInput \in Input
    BY <1>4 DEF PauseQueued, TypeOK
  <2>2. RowType'
    BY <1>4, <1>t, <2>1, SetStatusType DEF PauseQueued, RowType, InputStatus
  <2> QED
    BY <1>4, <2>1, <2>2 DEF PauseQueued, TypeOK, EventType, evVars, SetRuntime, RuntimeStatus
<1>5. ASSUME NEW i \in Input, CancelRoute(i)
      PROVE  TypeOK'
  <2>1. RowType'
    BY <1>5, <1>t, SetStatusType DEF CancelRoute, RowType, InputStatus
  <2> QED
    BY <1>5, <2>1 DEF CancelRoute, TypeOK, EventType, evVars, rtVars
<1> QED
  BY <1>1, <1>2, <1>3, <1>4, <1>5 DEF RouteStep

LEMMA EventPassTypes ==
  ASSUME TypeOK, NEW n \in 1..3, EventPass(n)
  PROVE  TypeOK'
<1>t. RowType
  BY DEF TypeOK
<1>1. CASE RecoverEvents
  BY <1>1, <1>t, KeyTouchedType
  DEF RecoverEvents, EventsBecome, TypeOK, EventType, RowType, EventStatus, rtVars, histVars
<1>2. ASSUME NEW i \in Input, MaterializeBatch(i, n)
      PROVE  TypeOK'
  <2>1. EventType'
    BY <1>2 DEF MaterializeBatch, TypeOK, EventType, EventStatus
  <2>2. RowType'
    <3>1. Batch \in SUBSET Event
      BY DEF Batch, Due, Pending, Recoverable
    <3>2. /\ status' \in [Input -> InputStatus]
          /\ kind' \in [Input -> {"none", "user", "batch"}]
          /\ carries' \in [Input -> SUBSET Event]
      <4>1. CASE Keyed(i)
        BY <1>2, <1>t, <4>1 DEF MaterializeBatch, RowType
      <4>2. CASE ~Keyed(i)
        <5>1. Insert(i, "batch", Batch)
          BY <1>2, <4>2 DEF MaterializeBatch
        <5> QED
          BY <5>1, <1>t, <3>1, InsertType
      <4> QED
        BY <4>1, <4>2
    <3>3. key' \in [Input -> {"none", "client", "batch"}]
      BY <1>2, <1>t, KeyTouchedType DEF MaterializeBatch
    <3>4. begun' \in [Input -> BOOLEAN]
      BY <1>2, <1>t DEF MaterializeBatch, RowType
    <3> QED
      BY <3>2, <3>3, <3>4 DEF RowType
  <2> QED
    BY <1>2, <2>1, <2>2 DEF MaterializeBatch, TypeOK, rtVars
<1> QED
  BY <1>1, <1>2 DEF EventPass

LEMMA ExecutorTypes ==
  ASSUME TypeOK, NEW i \in Input, ExecutorStep(i)
  PROVE  TypeOK'
<1> USE DEF histVars
<1>t. EventType /\ RowType /\ RuntimeType
  BY DEF TypeOK, RuntimeType
<1>1. CASE Claim(i)
  <2>1. RowType'
    BY <1>1, <1>t, SetStatusType DEF Claim, RowType, InputStatus
  <2> QED
    BY <1>1, <2>1 DEF Claim, TypeOK, EventType, evVars, rtVars
<1>2. CASE GatePass(i)
  BY <1>2 DEF GatePass, TypeOK, EventType, RowType, evVars, rowVars, SetRuntime, RuntimeStatus
<1>3. CASE SetupThrow(i)
  <2>1. RowType'
    BY <1>3, <1>t, SetStatusType DEF SetupThrow, RowType, InputStatus
  <2> QED
    BY <1>3, <2>1 DEF SetupThrow, TypeOK, EventType, evVars, SetRuntime, RuntimeStatus
<1>4. CASE RunnerHeartbeat(i)
  BY <1>4 DEF RunnerHeartbeat, TypeOK, EventType, RowType, evVars, rowVars, SetRuntime,
              RuntimeStatus
<1>5. CASE RunnerEvent(i)
  BY <1>5 DEF RunnerEvent, TypeOK, EventType, RowType, evVars, rtVars
<1>6. ASSUME NEW n \in 1..3, NEW v \in RunnerVerdict, NEW visible \in BOOLEAN,
             RunnerExit(i, v, visible, n)
      PROVE  TypeOK'
  <2>v. v \in Verdict
    BY RunnerSays
  <2>1. EventType' /\ key' \in [Input -> {"none", "client", "batch"}]
    <3>1. CASE n = 3
      <4>1. FinalizeEvents(i, v, visible) /\ UNCHANGED replaced
        BY <1>6, <3>1 DEF RunnerExit
      <4>2. evStatus' \in [Event -> EventStatus]
        BY <4>1, <1>t DEF FinalizeEvents, EventsBecome, EventType, EventStatus
      <4>3. evInput' \in [Event -> Input \cup {NoInput}]
        BY <4>1, <1>t DEF FinalizeEvents, EventType
      <4>4. ripe' \in [Event -> BOOLEAN]
        BY <4>1, <1>t, Zenon DEF FinalizeEvents, EventType
      <4>5. key' \in [Input -> {"none", "client", "batch"}]
        BY <4>1, <1>t, KeyTouchedType DEF FinalizeEvents
      <4> QED
        BY <4>1, <4>2, <4>3, <4>4, <4>5, <1>t DEF EventType
    <3>2. CASE n # 3
      BY <1>6, <3>2, <1>t DEF RunnerExit, EventType, RowType
    <3> QED
      BY <3>1, <3>2
  <2>2. RowType'
    <3>1. StatusOf(v) \in InputStatus
      BY <2>v, StatusOfType DEF InputStatus
    <3> QED
      BY <1>6, <1>t, <2>1, <3>1 DEF RunnerExit, RowType, SetStatus
  <2>3. RuntimeType'
    BY <1>6, <1>t, <2>v, StatusOfType DEF RunnerExit, RuntimeType, SetRuntime, rtVars
  <2>4. /\ severed' \in [Input -> BOOLEAN]
        /\ run' \in [Input -> {"idle", "gate", "runner"}]
        /\ UNCHANGED crashes
    BY <1>6 DEF RunnerExit, TypeOK
  <2> QED
    BY <2>1, <2>2, <2>3, <2>4 DEF TypeOK, RuntimeType
<1>7. CASE RecoverClaim(i)
  <2>1. RowType'
    BY <1>7, <1>t, SetStatusType
    DEF RecoverClaim, RequeueClaim, FailClaim, RowType, InputStatus
  <2>2. RuntimeType'
    BY <1>7, <1>t, ResetRuntimeType DEF RecoverClaim, RequeueClaim, FailClaim, RuntimeStatus
  <2> QED
    BY <1>7, <2>1, <2>2
    DEF RecoverClaim, RequeueClaim, FailClaim, TypeOK, RuntimeType, EventType, evVars
<1> QED
  BY <1>1, <1>2, <1>3, <1>4, <1>5, <1>6, <1>7 DEF ExecutorStep, Gate, RunnerDone

LEMMA TypeStep == TypeOK /\ [Next]_vars => TypeOK'
<1> SUFFICES ASSUME TypeOK, [Next]_vars PROVE TypeOK'
  OBVIOUS
<1>1. CASE Crash
  BY <1>1, Numbers DEF Crash, TypeOK, EventType, RowType, evVars, rowVars, rtVars
<1>2. CASE UNCHANGED vars
  BY <1>2 DEF TypeOK, EventType, RowType, vars, evVars, rowVars, rtVars, histVars
<1> QED
  BY <1>1, <1>2, SubagentTypes, RouteTypes, EventPassTypes, ExecutorTypes DEF Next

\* The queue of events, the input rows, the runtime state and the run keep their
\* types, whatever the code is cut by and whoever repeats a request.
THEOREM TypeCorrect == Spec => []TypeOK
BY TypeInit, TypeStep, PTL DEF Spec

--------------------------------------------------------------------------------
(* Events and the inputs that carry them *)

\* An executor runs only while its input is claimed.
RunsAreClaimed == \A i \in Input : run[i] # "idle" => status[i] = "CLAIMED"

\* A row that does not exist yet has no content.
UnusedRowsAreBlank == \A i \in Input : status[i] = "NONE" => carries[i] = {} /\ key[i] = "none"

\* A key that still names the versions of a batch stems from a pass that was cut.
KeyedBatchesAreSevered == \A i \in Input : key[i] = "batch" => severed[i]

\* The carrier of a materialized event exists.
CarriersExist ==
  \A e \in Event : evStatus[e] = "materialized" =>
    evInput[e] \in Input /\ status[evInput[e]] # "NONE"

RowInv == RunsAreClaimed /\ UnusedRowsAreBlank /\ KeyedBatchesAreSevered

CarrierInv == CarriersExist /\ CarriersAnswerForTheirEvents /\ OpenInputsOwnTheirEvents

IInv == TypeOK /\ RowInv /\ CarrierInv

LEMMA InvInit == Init => IInv
BY TypeInit DEF Init, IInv, RowInv, RunsAreClaimed, UnusedRowsAreBlank, KeyedBatchesAreSevered,
  CarrierInv, CarriersExist, CarriersAnswerForTheirEvents, OpenInputsOwnTheirEvents, Open

\* The rows.  A key is never set to "batch" but by a pass that is cut.
KeysOnlyClear == \A j \in Input : key'[j] \in {key[j], "none"}

LEMMA KeyTouchedClears ==
  ASSUME NEW E
  PROVE  \A j \in Input : KeyTouched(E)[j] \in {key[j], "none"}
BY DEF KeyTouched

LEMMA KeyAfterRecoveryClears == \A j \in Input : KeyAfterRecovery[j] \in {key[j], "none"}
BY DEF KeyTouched, KeyAfterRecovery

\* A step that creates no row and sets no key.
LEMMA RowsKept ==
  ASSUME RowInv, UNCHANGED carries, KeysOnlyClear,
         \A j \in Input : severed[j] => severed'[j],
         \A j \in Input : /\ status'[j] = "NONE" => status[j] = "NONE"
                          /\ run'[j] # "idle" => status'[j] = "CLAIMED"
  PROVE  RowInv'
<1>1. RunsAreClaimed'
  BY DEF RunsAreClaimed
<1>2. UnusedRowsAreBlank'
  BY DEF RowInv, UnusedRowsAreBlank, KeysOnlyClear
<1>3. KeyedBatchesAreSevered'
  BY DEF RowInv, KeyedBatchesAreSevered, KeysOnlyClear
<1> QED
  BY <1>1, <1>2, <1>3 DEF RowInv

\* An event is with its input, or a severed input knows of it.
With(e, i) == evStatus[e] = "materialized" /\ evInput[e] = i
Shared(e) == \E j \in Input : severed[j] /\ e \in carries[j]

LEMMA Ownership ==
  OpenInputsOwnTheirEvents <=>
    \A i \in Input : Open(i) => \A e \in carries[i] : With(e, i) \/ Shared(e)
BY DEF OpenInputsOwnTheirEvents, With, Shared

\* A step that takes no event along and gives none back, and settles an input
\* only if it fails or is severed from its events.
LEMMA CarriersKept ==
  ASSUME TypeOK, CarrierInv, UNCHANGED <<evInput, carries>>,
         \A e \in Event : evStatus'[e] = "materialized" <=> evStatus[e] = "materialized",
         \A j \in Input : severed[j] => severed'[j],
         \A j \in Input : \/ status'[j] = status[j]
                          \/ /\ Open(j)
                             /\ Open(j)' \/ status'[j] = "FAILED" \/ severed'[j]
                             /\ status'[j] # "NONE"
  PROVE  CarrierInv'
<1>1. CarriersExist'
  BY DEF CarrierInv, CarriersExist
<1>2. CarriersAnswerForTheirEvents'
  <2> SUFFICES ASSUME NEW e \in Event, evStatus'[e] = "materialized"
               PROVE  /\ evInput[e] # NoInput
                      /\ \/ Open(evInput[e])'
                         \/ status'[evInput[e]] = "FAILED"
                         \/ Stranded(e)'
    BY DEF CarriersAnswerForTheirEvents
  <2>1. /\ evInput[e] \in Input
        /\ evInput[e] # NoInput
        /\ Open(evInput[e]) \/ status[evInput[e]] = "FAILED" \/ Stranded(e)
    BY DEF CarrierInv, CarriersExist, CarriersAnswerForTheirEvents
  <2>2. Stranded(e) => Stranded(e)'
    BY <2>1 DEF Stranded
  <2> QED
    BY <2>1, <2>2 DEF Open, Stranded
<1>3. OpenInputsOwnTheirEvents'
  <2> SUFFICES ASSUME NEW i \in Input, Open(i)', NEW e \in carries[i]
               PROVE  With(e, i)' \/ Shared(e)'
    BY DEF OpenInputsOwnTheirEvents, With, Shared
  <2>1. Open(i) /\ e \in Event
    BY DEF Open, TypeOK, RowType
  <2>2. With(e, i) \/ Shared(e)
    BY <2>1, Ownership DEF CarrierInv
  <2> QED
    BY <2>1, <2>2 DEF With, Shared
<1> QED
  BY <1>1, <1>2, <1>3 DEF CarrierInv

\* The steps that only wait, start, claim, interrupt or withdraw.
QuietStep ==
  \/ SubagentStep
  \/ PauseQueued
  \/ \E i \in Input : \/ CancelRoute(i)
                      \/ Claim(i)
                      \/ Gate(i)
                      \/ RunnerHeartbeat(i)
                      \/ RunnerEvent(i)
                      \/ RecoverClaim(i)
  \/ Crash

LEMMA QuietSteps ==
  ASSUME TypeOK, RowInv, CarrierInv, QuietStep
  PROVE  RowInv' /\ CarrierInv'
<1> USE DEF Open, rowVars, evVars, rtVars, histVars
<1>t. /\ status \in [Input -> InputStatus]
      /\ run \in [Input -> {"idle", "gate", "runner"}]
      /\ severed \in [Input -> BOOLEAN]
      /\ \A i \in Input : run[i] # "idle" => status[i] = "CLAIMED"
  BY DEF TypeOK, RowType, RowInv, RunsAreClaimed
<1>1. ASSUME SubagentStep
      PROVE  RowInv' /\ CarrierInv'
  <2>1. KeysOnlyClear
    <3>1. ASSUME NEW e \in Event, SubagentTurnEnds(e)
          PROVE  KeysOnlyClear
      <4>1. key' = KeyTouched(Outdated(SubagentOf[e]))
        BY <3>1 DEF SubagentTurnEnds
      <4> QED
        BY <4>1, KeyTouchedClears DEF KeysOnlyClear
    <3>2. ASSUME NEW s \in Subagent, SubagentContinues(s)
          PROVE  KeysOnlyClear
      <4>1. key' = KeyTouched(Outdated(s))
        BY <3>2 DEF SubagentContinues
      <4> QED
        BY <4>1, KeyTouchedClears DEF KeysOnlyClear
    <3>3. ASSUME NEW e \in Event, Ripen(e)
          PROVE  KeysOnlyClear
      BY <3>3 DEF Ripen, KeysOnlyClear
    <3> QED
      BY <1>1, <3>1, <3>2, <3>3 DEF SubagentStep
  <2>2. UNCHANGED <<status, run, severed, carries, evInput>>
    BY <1>1 DEF SubagentStep, SubagentTurnEnds, SubagentContinues, Ripen
  <2>3. \A e \in Event : evStatus'[e] = "materialized" <=> evStatus[e] = "materialized"
    <3>1. ASSUME NEW e \in Event, SubagentTurnEnds(e)
          PROVE  \A f \in Event : evStatus'[f] = "materialized" <=> evStatus[f] = "materialized"
      BY <3>1 DEF SubagentTurnEnds, Outdated, Pending
    <3>2. ASSUME NEW s \in Subagent, SubagentContinues(s)
          PROVE  \A f \in Event : evStatus'[f] = "materialized" <=> evStatus[f] = "materialized"
      BY <3>2 DEF SubagentContinues, EventsBecome, Outdated, Pending
    <3>3. ASSUME NEW e \in Event, Ripen(e)
          PROVE  \A f \in Event : evStatus'[f] = "materialized" <=> evStatus[f] = "materialized"
      BY <3>3 DEF Ripen
    <3> QED
      BY <1>1, <3>1, <3>2, <3>3 DEF SubagentStep
  <2> QED
    BY <1>t, <2>1, <2>2, <2>3, RowsKept, CarriersKept
<1>2. ASSUME PauseQueued
      PROVE  RowInv' /\ CarrierInv'
  <2>1. rtInput \in Input
    BY <1>2 DEF PauseQueued, TypeOK
  <2>2. /\ UNCHANGED <<run, carries, key, evStatus, evInput>>
        /\ status[rtInput] = "QUEUED"
        /\ status' = [status EXCEPT ![rtInput] = "PAUSED"]
        /\ severed' = [severed EXCEPT ![rtInput] = TRUE]
    BY <1>2 DEF PauseQueued, SetStatus
  <2> QED
    BY <1>t, <2>1, <2>2, RowsKept, CarriersKept DEF KeysOnlyClear
<1>3. ASSUME NEW i \in Input, CancelRoute(i)
      PROVE  RowInv' /\ CarrierInv'
  <2>1. /\ UNCHANGED <<run, carries, key, evStatus, evInput>>
        /\ status[i] = "QUEUED"
        /\ status' = [status EXCEPT ![i] = "CANCELLED"]
        /\ severed' = [severed EXCEPT ![i] = TRUE]
    BY <1>3 DEF CancelRoute, SetStatus
  <2> QED
    BY <1>t, <2>1, RowsKept, CarriersKept DEF KeysOnlyClear
<1>4. ASSUME NEW i \in Input, Claim(i) \/ Gate(i) \/ RunnerHeartbeat(i) \/ RunnerEvent(i)
                              \/ RecoverClaim(i)
      PROVE  RowInv' /\ CarrierInv'
  <2>1. UNCHANGED <<carries, key, evStatus, evInput, severed>>
    BY <1>4 DEF Claim, Gate, GatePass, SetupThrow, RunnerHeartbeat, RunnerEvent,
                RecoverClaim, RequeueClaim, FailClaim
  <2>2. /\ Open(i)
        /\ \/ UNCHANGED status
           \/ \E st \in {"QUEUED", "CLAIMED", "FAILED"} : status' = [status EXCEPT ![i] = st]
    BY <1>4, <1>t DEF Claim, Gate, GatePass, SetupThrow, RunnerHeartbeat, RunnerEvent,
                      RecoverClaim, RequeueClaim, FailClaim, Abandoned, SetStatus
  <2>3. \A j \in Input : run'[j] # "idle" => status'[j] = "CLAIMED"
    BY <1>4, <1>t DEF Claim, Gate, GatePass, SetupThrow, RunnerHeartbeat, RunnerEvent,
                      RecoverClaim, RequeueClaim, FailClaim, Abandoned, SetStatus
  <2>4. \A j \in Input : \/ status'[j] = status[j]
                         \/ /\ Open(j)
                            /\ Open(j)' \/ status'[j] = "FAILED"
                            /\ status'[j] # "NONE"
    <3>1. CASE UNCHANGED status
      BY <3>1
    <3>2. ASSUME NEW st \in {"QUEUED", "CLAIMED", "FAILED"},
                 status' = [status EXCEPT ![i] = st]
          PROVE  \A j \in Input :
                   \/ status'[j] = status[j]
                   \/ /\ Open(j)
                      /\ Open(j)' \/ status'[j] = "FAILED"
                      /\ status'[j] # "NONE"
      BY <1>t, <2>2, <3>2
    <3> QED
      BY <2>2, <3>1, <3>2
  <2> QED
    BY <1>t, <2>1, <2>3, <2>4, RowsKept, CarriersKept DEF KeysOnlyClear
<1>5. ASSUME Crash
      PROVE  RowInv' /\ CarrierInv'
  BY <1>5, <1>t, RowsKept, CarriersKept DEF Crash, KeysOnlyClear
<1> QED
  BY <1>1, <1>2, <1>3, <1>4, <1>5 DEF QuietStep

\* A row is created for a set E of events, pending ones or of the set R, which is
\* recovered from failed inputs in the same step.  Either the row takes E along, or
\* the block is cut and the row is severed.
RowIsCreated(i, E, marked, R) ==
  /\ i \in Input /\ status[i] = "NONE"
  /\ E \in SUBSET Event /\ marked \in {E, {}} /\ R \in SUBSET Event
  /\ marked = E \/ severed'[i]
  /\ \A e \in E : evStatus[e] = "pending" \/ e \in R
  /\ \A e \in R : evStatus[e] = "materialized" /\ status[evInput[e]] = "FAILED"
  /\ status' = [status EXCEPT ![i] = "QUEUED"]
  /\ carries' = [carries EXCEPT ![i] = E]
  /\ \A e \in marked : evStatus'[e] = "materialized" /\ evInput'[e] = i
  /\ \A e \in R \ marked : evStatus'[e] = "pending"
  /\ \A e \in Event \ (R \cup marked) : evStatus'[e] = evStatus[e] /\ evInput'[e] = evInput[e]
  /\ \A j \in Input \ {i} : severed'[j] = severed[j]

LEMMA RowCreated ==
  ASSUME TypeOK, RowInv, CarrierInv, NEW i, NEW E, NEW marked, NEW R,
         RowIsCreated(i, E, marked, R)
  PROVE  CarrierInv'
<1> USE DEF RowIsCreated
<1>t. /\ status \in [Input -> InputStatus]
      /\ carries \in [Input -> SUBSET Event]
      /\ carries[i] = {}
      /\ i # NoInput
  BY NoInputIsNone DEF TypeOK, RowType, RowInv, UnusedRowsAreBlank
<1>1. ASSUME NEW e \in Event, evStatus'[e] = "materialized", e \notin marked
      PROVE  /\ e \notin R
             /\ evStatus[e] = "materialized"
             /\ evInput'[e] = evInput[e]
             /\ evInput[e] \in Input \ {i}
  <2>1. e \notin R /\ evStatus[e] = "materialized" /\ evInput'[e] = evInput[e]
    BY <1>1
  <2> QED
    BY <2>1 DEF CarrierInv, CarriersExist
<1>2. CarriersExist' /\ CarriersAnswerForTheirEvents'
  <2> SUFFICES ASSUME NEW e \in Event, evStatus'[e] = "materialized"
               PROVE  /\ evInput'[e] \in Input
                      /\ status'[evInput'[e]] # "NONE"
                      /\ evInput'[e] # NoInput
                      /\ \/ Open(evInput[e])'
                         \/ status'[evInput'[e]] = "FAILED"
                         \/ Stranded(e)'
    BY DEF CarriersExist, CarriersAnswerForTheirEvents, Open
  <2>1. CASE e \in marked
    BY <2>1, <1>t DEF Open
  <2>2. CASE e \notin marked
    BY <2>2, <1>1, <1>t
    DEF CarrierInv, CarriersExist, CarriersAnswerForTheirEvents, Open, Stranded
  <2> QED
    BY <2>1, <2>2
<1>3. \A e \in Event : Shared(e) => Shared(e)'
  BY <1>t DEF Shared
<1>4. OpenInputsOwnTheirEvents'
  <2> SUFFICES ASSUME NEW k \in Input, Open(k)', NEW e \in carries'[k]
               PROVE  With(e, k)' \/ Shared(e)'
    BY DEF OpenInputsOwnTheirEvents, With, Shared
  <2>1. CASE k = i
    BY <2>1, <1>t DEF With, Shared
  <2>2. CASE k # i
    <3>1. Open(k) /\ e \in carries[k] /\ e \in Event
      BY <2>2, <1>t DEF Open
    <3>2. CASE Shared(e)
      BY <3>1, <3>2, <1>3
    <3>3. CASE With(e, k)
      BY <3>1, <3>3 DEF With, Open
    <3> QED
      BY <3>1, <3>2, <3>3, Ownership DEF CarrierInv
  <2> QED
    BY <2>1, <2>2
<1> QED
  BY <1>2, <1>4 DEF CarrierInv


\* A step that moves events between inputs that exist: an event stays as it was,
\* or leaves an input that is not open (or that a severed one competes with), or
\* joins input i, which is open or severed.  An input that settles leaves no event
\* behind unless it failed or is severed.
LEMMA EventsMoved ==
  ASSUME TypeOK, CarrierInv, UNCHANGED carries, NEW i \in Input,
         \A j \in Input : severed[j] => severed'[j],
         \A e \in Event :
           \/ /\ evStatus'[e] = "materialized" <=> evStatus[e] = "materialized"
              /\ evInput'[e] = evInput[e]
           \/ /\ evStatus'[e] # "materialized"
              /\ \/ evStatus[e] # "materialized"
                 \/ status'[evInput[e]] \notin {"QUEUED", "CLAIMED"}
                 \/ Shared(e)
           \/ /\ evStatus'[e] = "materialized" /\ evInput'[e] = i
              /\ status'[i] # "NONE" /\ (Open(i)' \/ severed'[i])
              /\ \/ evStatus[e] # "materialized"
                 \/ status'[evInput[e]] \notin {"QUEUED", "CLAIMED"},
         \A j \in Input :
           \/ status'[j] = status[j]
           \/ /\ Open(j) /\ status'[j] # "NONE"
              /\ \/ status'[j] \in {"QUEUED", "CLAIMED", "FAILED"}
                 \/ severed'[j]
                 \/ \A e \in carries[j] : evStatus'[e] # "materialized"
  PROVE  CarrierInv'
<1> USE DEF Open
<1>t. i # NoInput /\ \A j \in Input : carries[j] \subseteq Event
  BY NoInputIsNone DEF TypeOK, RowType
<1>1. \A e \in Event : Shared(e) => Shared(e)'
  BY DEF Shared
<1>2. ASSUME NEW e \in Event, evStatus'[e] = "materialized"
      PROVE  /\ evInput'[e] \in Input
             /\ evInput'[e] # NoInput
             /\ status'[evInput'[e]] # "NONE"
             /\ \/ status'[evInput'[e]] \in {"QUEUED", "CLAIMED", "FAILED"}
                \/ Stranded(e)'
  <2>1. CASE evInput'[e] = i /\ status'[i] # "NONE" /\ (Open(i)' \/ severed'[i])
    BY <2>1, <1>t DEF Stranded
  <2>2. CASE evStatus[e] = "materialized" /\ evInput'[e] = evInput[e]
    <3> DEFINE j == evInput[e]
    <3>1. /\ j \in Input /\ j # NoInput /\ status[j] # "NONE"
          /\ Open(j) \/ status[j] = "FAILED" \/ e \notin carries[j] \/ severed[j]
      BY <2>2 DEF CarrierInv, CarriersExist, CarriersAnswerForTheirEvents, Stranded
    <3>2. /\ status'[j] # "NONE"
          /\ \/ status'[j] \in {"QUEUED", "CLAIMED", "FAILED"}
             \/ e \notin carries[j]
             \/ severed'[j]
      BY <3>1, <1>2
    <3> QED
      BY <2>2, <3>1, <3>2 DEF Stranded
  <2> QED
    BY <1>2, <2>1, <2>2
<1>3. CarriersExist' /\ CarriersAnswerForTheirEvents'
  BY <1>2 DEF CarriersExist, CarriersAnswerForTheirEvents
<1>4. OpenInputsOwnTheirEvents'
  <2> SUFFICES ASSUME NEW j \in Input, Open(j)', NEW e \in carries[j]
               PROVE  With(e, j)' \/ Shared(e)'
    BY DEF OpenInputsOwnTheirEvents, With, Shared
  <2>1. Open(j) /\ e \in Event
    BY <1>t
  <2>2. With(e, j) \/ Shared(e)
    BY <2>1, Ownership DEF CarrierInv
  <2>3. CASE With(e, j)
    BY <2>1, <2>3, <1>1 DEF With
  <2> QED
    BY <2>1, <2>2, <2>3, <1>1
<1> QED
  BY <1>3, <1>4 DEF CarrierInv

LEMMA RecoverEventsInv ==
  ASSUME TypeOK, RowInv, CarrierInv, RecoverEvents
  PROVE  RowInv' /\ CarrierInv'
<1>1. /\ UNCHANGED <<status, run, carries, severed>>
      /\ key' = KeyAfterRecovery
      /\ evStatus' = [e \in Event |-> IF e \in Recoverable THEN "pending" ELSE evStatus[e]]
      /\ evInput' = [e \in Event |-> IF e \in Recoverable THEN NoInput ELSE evInput[e]]
  BY DEF RecoverEvents, EventsBecome, histVars
<1>2. RowInv'
  BY <1>1, KeyAfterRecoveryClears, RowsKept DEF KeysOnlyClear, RowInv, RunsAreClaimed
<1>3. CASE Input = {}
  <2>1. Recoverable = {}
    BY <1>3 DEF Recoverable, CarrierInv, CarriersExist
  <2> QED
    BY <2>1 DEF RecoverEvents
<1>4. ASSUME NEW i \in Input
      PROVE  CarrierInv'
  <2>1. \A e \in Event :
          \/ evStatus'[e] = evStatus[e] /\ evInput'[e] = evInput[e]
          \/ /\ evStatus'[e] # "materialized"
             /\ status'[evInput[e]] \notin {"QUEUED", "CLAIMED"}
    BY <1>1 DEF Recoverable
  <2> QED
    BY <1>1, <2>1, EventsMoved
<1> QED
  BY <1>2, <1>3, <1>4

LEMMA UserPostAgainInv ==
  ASSUME TypeOK, RowInv, CarrierInv, NEW i \in Input, UserPostAgain(i)
  PROVE  RowInv' /\ CarrierInv'
<1>1. /\ UNCHANGED <<status, run, carries>>
      /\ key' = KeyTouched(Inlined)
      /\ evStatus' = [e \in Event |-> IF e \in Inlined THEN "materialized" ELSE evStatus[e]]
      /\ evInput' = [e \in Event |-> IF e \in Inlined THEN i ELSE evInput[e]]
      /\ severed' = [severed EXCEPT ![i] = @ \/ ~Open(i)]
      /\ key[i] = "client"
  BY DEF UserPostAgain, Materialize, EventsBecome
<1>2. \A j \in Input : severed[j] => severed'[j]
  BY <1>1 DEF TypeOK
<1>3. RowInv'
  <2>1. KeysOnlyClear
    BY <1>1, KeyTouchedClears DEF KeysOnlyClear
  <2> QED
    BY <1>1, <1>2, <2>1, RowsKept DEF RowInv, RunsAreClaimed
<1>4. status[i] # "NONE" /\ (Open(i)' \/ severed'[i])
  BY <1>1 DEF RowInv, UnusedRowsAreBlank, Open, TypeOK
<1>5. \A e \in Event :
        \/ evStatus'[e] = evStatus[e] /\ evInput'[e] = evInput[e]
        \/ /\ evStatus'[e] = "materialized" /\ evInput'[e] = i
           /\ evStatus[e] # "materialized"
  BY <1>1 DEF Inlined, Pending
<1> QED
  BY <1>1, <1>2, <1>3, <1>4, <1>5, EventsMoved

LEMMA UserPostInv ==
  ASSUME TypeOK, RowInv, CarrierInv, NEW i \in Input, NEW n \in 1..3, UserPost(i, n)
  PROVE  RowInv' /\ CarrierInv'
<1> DEFINE marked == IF n >= 2 THEN Inlined ELSE {}
<1>t. status \in [Input -> InputStatus] /\ carries \in [Input -> SUBSET Event]
      /\ severed \in [Input -> BOOLEAN] /\ key \in [Input -> {"none", "client", "batch"}]
      /\ Inlined \in SUBSET Event
  BY DEF TypeOK, RowType, Inlined, Pending
<1>1. /\ status[i] = "NONE"
      /\ status' = [status EXCEPT ![i] = "QUEUED"]
      /\ carries' = [carries EXCEPT ![i] = Inlined]
      /\ UNCHANGED run
      /\ severed' = [severed EXCEPT ![i] = n = 1 /\ Inlined # {}]
  BY DEF UserPost, Insert, SetStatus, NextInput
<1>2. /\ \A e \in marked : evStatus'[e] = "materialized" /\ evInput'[e] = i
      /\ \A e \in Event \ marked : evStatus'[e] = evStatus[e] /\ evInput'[e] = evInput[e]
  BY <1>t DEF UserPost, Materialize, EventsBecome
<1>3. key'[i] = "client" /\ \A j \in Input \ {i} : key'[j] \in {key[j], "none"}
  <2>1. \/ key' = [KeyTouched(Inlined) EXCEPT ![i] = "client"]
        \/ key' = [key EXCEPT ![i] = "client"]
    BY DEF UserPost
  <2>2. KeyTouched(Inlined) \in [Input -> {"none", "client", "batch"}]
    BY KeyTouchedType DEF TypeOK
  <2>3. \A j \in Input : KeyTouched(Inlined)[j] \in {key[j], "none"}
    BY KeyTouchedClears
  <2> QED
    BY <1>t, <2>1, <2>2, <2>3
<1>4. RowInv'
  BY <1>t, <1>1, <1>3
  DEF RowInv, RunsAreClaimed, UnusedRowsAreBlank, KeyedBatchesAreSevered
<1>5. marked = Inlined \/ severed'[i]
  <2>1. CASE n = 1
    BY <1>1, <1>t, <2>1
  <2>2. CASE n # 1
    BY <2>2
  <2> QED
    BY <2>1, <2>2
<1>6. CarrierInv'
  <2>1. /\ \A e \in Inlined : evStatus[e] = "pending"
        /\ \A j \in Input \ {i} : severed'[j] = severed[j]
        /\ marked \in {Inlined, {}}
    BY <1>t, <1>1 DEF Inlined, Pending
  <2> HIDE DEF marked
  <2> QED
    <3>1. RowIsCreated(i, Inlined, marked, {})
      BY <1>t, <1>1, <1>2, <1>5, <2>1 DEF RowIsCreated
    <3> QED
      BY <3>1, RowCreated
<1> QED
  BY <1>4, <1>6

LEMMA FireMessageInv ==
  ASSUME TypeOK, RowInv, CarrierInv, NEW i \in Input, FireMessage(i)
  PROVE  RowInv' /\ CarrierInv'
<1>t. status \in [Input -> InputStatus] /\ carries \in [Input -> SUBSET Event]
  BY DEF TypeOK, RowType
<1>1. /\ status[i] = "NONE"
      /\ status' = [status EXCEPT ![i] = "QUEUED"]
      /\ carries' = [carries EXCEPT ![i] = {}]
      /\ UNCHANGED <<run, severed, key, evStatus, evInput>>
  BY DEF FireMessage, Insert, SetStatus, NextInput, evVars, histVars
<1>2. RowInv'
  BY <1>t, <1>1 DEF RowInv, RunsAreClaimed, UnusedRowsAreBlank, KeyedBatchesAreSevered
<1>3. CarrierInv'
  <2>1. RowIsCreated(i, {}, {}, {})
    BY <1>t, <1>1 DEF RowIsCreated
  <2> QED
    BY <2>1, RowCreated
<1> QED
  BY <1>2, <1>3


LEMMA MaterializeBatchInv ==
  ASSUME TypeOK, RowInv, CarrierInv, NEW i \in Input, NEW n \in 1..3, MaterializeBatch(i, n)
  PROVE  RowInv' /\ CarrierInv'
<1> DEFINE marked == IF n >= 2 THEN Batch ELSE {}
           R == Recoverable
<1>t. /\ status \in [Input -> InputStatus] /\ carries \in [Input -> SUBSET Event]
      /\ severed \in [Input -> BOOLEAN] /\ key \in [Input -> {"none", "client", "batch"}]
      /\ Batch \in SUBSET Event /\ R \in SUBSET Event
      /\ \A e \in Batch : evStatus[e] = "pending" \/ e \in R
      /\ \A e \in R : evStatus[e] = "materialized" /\ status[evInput[e]] = "FAILED"
  BY DEF TypeOK, RowType, Batch, Due, Pending, Recoverable
<1>1. /\ \A e \in marked : evStatus'[e] = "materialized" /\ evInput'[e] = i
      /\ \A e \in R \ marked : evStatus'[e] = "pending"
      /\ \A e \in Event \ (R \cup marked) : evStatus'[e] = evStatus[e] /\ evInput'[e] = evInput[e]
  BY <1>t DEF MaterializeBatch
<1>2. /\ severed' = [severed EXCEPT ![i] = @ \/ n = 1]
      /\ UNCHANGED run
      /\ \A j \in Input : severed[j] => severed'[j]
  BY <1>t DEF MaterializeBatch
<1>3. /\ \A j \in Input \ {i} : key'[j] \in {key[j], "none"}
      /\ key'[i] = "none" \/ (key'[i] = "batch" /\ severed'[i])
  <2>1. key' = [j \in Input |->
                 IF j = i THEN IF n = 1 THEN "batch" ELSE "none"
                 ELSE IF key[j] = "batch" /\ carries[j] \cap marked # {} THEN "none"
                 ELSE KeyAfterRecovery[j]]
    BY DEF MaterializeBatch
  <2> QED
    BY <1>t, <1>2, <2>1, KeyAfterRecoveryClears
<1>4. marked \in {Batch, {}} /\ (marked = Batch \/ severed'[i])
  <2>1. CASE n = 1
    BY <1>2, <1>t, <2>1
  <2>2. CASE n # 1
    BY <2>2
  <2> QED
    BY <2>1, <2>2
<1>5. \/ Keyed(i) /\ UNCHANGED <<status, carries>>
      \/ /\ status[i] = "NONE"
         /\ status' = [status EXCEPT ![i] = "QUEUED"]
         /\ carries' = [carries EXCEPT ![i] = Batch]
  BY DEF MaterializeBatch, Target, NextInput, Insert, SetStatus
<1> HIDE DEF marked, R
<1>6. CASE Keyed(i) /\ UNCHANGED <<status, carries>>
  <2>1. key[i] = "batch"
    BY <1>6, KeyAfterRecoveryClears DEF Keyed
  <2>2. severed[i] /\ status[i] # "NONE"
    BY <2>1 DEF RowInv, UnusedRowsAreBlank, KeyedBatchesAreSevered
  <2>3. RowInv'
    BY <1>t, <1>2, <1>3, <1>6, <2>2
    DEF RowInv, RunsAreClaimed, UnusedRowsAreBlank, KeyedBatchesAreSevered
  <2>4. \A e \in Event :
          \/ evStatus'[e] = evStatus[e] /\ evInput'[e] = evInput[e]
          \/ /\ evStatus'[e] # "materialized"
             /\ status'[evInput[e]] \notin {"QUEUED", "CLAIMED"}
          \/ /\ evStatus'[e] = "materialized" /\ evInput'[e] = i
             /\ \/ evStatus[e] # "materialized"
                \/ status'[evInput[e]] \notin {"QUEUED", "CLAIMED"}
    BY <1>t, <1>1, <1>4, <1>6
  <2>5. CarrierInv'
    BY <1>2, <1>6, <2>2, <2>4, EventsMoved
  <2> QED
    BY <2>3, <2>5
<1>7. CASE /\ status[i] = "NONE"
           /\ status' = [status EXCEPT ![i] = "QUEUED"]
           /\ carries' = [carries EXCEPT ![i] = Batch]
  <2>1. RowInv'
    BY <1>t, <1>2, <1>3, <1>7
    DEF RowInv, RunsAreClaimed, UnusedRowsAreBlank, KeyedBatchesAreSevered
  <2>2. \A j \in Input \ {i} : severed'[j] = severed[j]
    BY <1>2, <1>t
  <2>3. CarrierInv'
    <3>1. RowIsCreated(i, Batch, marked, R)
      BY <1>t, <1>1, <1>4, <1>7, <2>2 DEF RowIsCreated
    <3> QED
      BY <3>1, RowCreated
  <2> QED
    BY <2>1, <2>3
<1> QED
  BY <1>5, <1>6, <1>7

LEMMA RunnerExitInv ==
  ASSUME TypeOK, RowInv, CarrierInv, NEW i \in Input, NEW n \in 1..3,
         NEW v \in RunnerVerdict, NEW visible \in BOOLEAN, RunnerExit(i, v, visible, n)
  PROVE  RowInv' /\ CarrierInv'
<1>t. /\ status \in [Input -> InputStatus] /\ carries \in [Input -> SUBSET Event]
      /\ severed \in [Input -> BOOLEAN]
      /\ run \in [Input -> {"idle", "gate", "runner"}]
      /\ status[i] = "CLAIMED"
      /\ StatusOf(v) \in {"DONE", "FAILED", "PAUSED"}
  BY RunnerSays, StatusOfType DEF TypeOK, RowType, RowInv, RunsAreClaimed, RunnerExit
<1>1. /\ status' = [status EXCEPT ![i] = StatusOf(v)]
      /\ run' = [run EXCEPT ![i] = "idle"]
      /\ severed' = [severed EXCEPT ![i] = @ \/ n < 3]
      /\ UNCHANGED carries
  BY DEF RunnerExit, SetStatus
<1>2. KeysOnlyClear
  <2>1. key' = KeyTouched(carries[i]) \/ UNCHANGED key
    BY DEF RunnerExit, FinalizeEvents
  <2> QED
    BY <2>1, KeyTouchedClears DEF KeysOnlyClear
<1>3. \A j \in Input : severed[j] => severed'[j]
  BY <1>t, <1>1
<1>4. RowInv'
  <2>1. \A j \in Input : /\ status'[j] = "NONE" => status[j] = "NONE"
                         /\ run'[j] # "idle" => status'[j] = "CLAIMED"
    BY <1>t, <1>1 DEF RowInv, RunsAreClaimed
  <2> QED
    BY <1>1, <1>2, <1>3, <2>1, RowsKept
<1>5. CASE n < 3
  <2>1. UNCHANGED <<evStatus, evInput>>
    BY <1>5 DEF RunnerExit
  <2>2. severed'[i]
    BY <1>1, <1>t, <1>5
  <2> QED
    BY <1>t, <1>1, <1>3, <1>4, <2>1, <2>2, CarriersKept DEF Open
<1>6. CASE n = 3
  <2>1. /\ \A e \in carries[i] : evStatus'[e] # "materialized"
        /\ \A e \in Event \ carries[i] : evStatus'[e] = evStatus[e] /\ evInput'[e] = evInput[e]
    BY <1>6, <1>t DEF RunnerExit, FinalizeEvents, EventsBecome
  <2>2. \A e \in carries[i] : With(e, i) \/ Shared(e)
    BY <1>t, Ownership DEF CarrierInv, Open
  <2>3. \A e \in Event :
          \/ evStatus'[e] = evStatus[e] /\ evInput'[e] = evInput[e]
          \/ /\ evStatus'[e] # "materialized"
             /\ \/ status'[evInput[e]] \notin {"QUEUED", "CLAIMED"}
                \/ Shared(e)
    BY <1>t, <1>1, <2>1, <2>2 DEF With
  <2>4. \A j \in Input :
          \/ status'[j] = status[j]
          \/ /\ Open(j) /\ status'[j] # "NONE"
             /\ \A e \in carries[j] : evStatus'[e] # "materialized"
    BY <1>t, <1>1, <2>1 DEF Open
  <2> QED
    BY <1>1, <1>3, <1>4, <2>3, <2>4, EventsMoved
<1> QED
  BY <1>5, <1>6

LEMMA InvStep == IInv /\ [Next]_vars => IInv'
<1> SUFFICES ASSUME TypeOK, RowInv, CarrierInv, [Next]_vars
             PROVE  RowInv' /\ CarrierInv'
  BY TypeStep DEF IInv
<1>1. CASE QuietStep
  BY <1>1, QuietSteps
<1>2. CASE RouteStep
  <2>1. \/ \E i \in Input, n \in 1..3 : UserPost(i, n)
        \/ \E i \in Input : UserPostAgain(i) \/ FireMessage(i)
        \/ QuietStep
    BY <1>2 DEF RouteStep, QuietStep
  <2> QED
    BY <2>1, <1>1, UserPostInv, UserPostAgainInv, FireMessageInv
<1>3. CASE \E n \in 1..3 : EventPass(n)
  BY <1>3, RecoverEventsInv, MaterializeBatchInv DEF EventPass
<1>4. CASE \E i \in Input : ExecutorStep(i)
  <2>1. \/ QuietStep
        \/ \E i \in Input, n \in 1..3, v \in RunnerVerdict, visible \in BOOLEAN :
             RunnerExit(i, v, visible, n)
    BY <1>4 DEF ExecutorStep, RunnerDone, QuietStep
  <2> QED
    BY <2>1, <1>1, RunnerExitInv
<1>5. CASE UNCHANGED vars
  BY <1>5 DEF vars, evVars, rowVars, rtVars, histVars, RowInv, RunsAreClaimed,
    UnusedRowsAreBlank, KeyedBatchesAreSevered, CarrierInv, CarriersExist,
    CarriersAnswerForTheirEvents, OpenInputsOwnTheirEvents, Open, Stranded
<1> QED
  BY <1>1, <1>2, <1>3, <1>4, <1>5 DEF Next, QuietStep

LEMMA Invariant == Spec => []IInv
BY InvInit, InvStep, PTL DEF Spec

\* No event stays behind with an input that has settled: wherever an event is
\* marked as taken along, its input is open, or failed and so in the reach of
\* recovery, or was severed from its events.
THEOREM EventsAreAnsweredFor == Spec => []CarriersAnswerForTheirEvents
<1>1. IInv => CarriersAnswerForTheirEvents
  BY DEF IInv, CarrierInv
<1> QED
  BY <1>1, Invariant, PTL

\* maybeFinalizeMainSessionEvents, which settles what the context names without
\* looking, settles the input's own events, for any interleaving of requests,
\* passes, supersessions and recoveries.
THEOREM FinalisationHitsOwnEvents == Spec => []OpenInputsOwnTheirEvents
<1>1. IInv => OpenInputsOwnTheirEvents
  BY DEF IInv, CarrierInv
<1> QED
  BY <1>1, Invariant, PTL

LEMMA SettledStep ==
  ASSUME IInv, [Next]_vars, NEW e \in Event,
         evStatus[e] \in {"delivered", "superseded"}, evStatus'[e] # evStatus[e]
  PROVE  \E i \in Input : severed[i] /\ e \in carries[i]
<1>1. CASE \E i \in Input, n \in 1..3, v \in RunnerVerdict, visible \in BOOLEAN :
             RunnerExit(i, v, visible, n)
  <2>1. PICK i \in Input, n \in 1..3, v \in RunnerVerdict, visible \in BOOLEAN :
          RunnerExit(i, v, visible, n)
    BY <1>1
  <2>2. e \in carries[i]
    BY <2>1 DEF RunnerExit, FinalizeEvents, EventsBecome
  <2>3. Open(i)
    BY <2>1 DEF RunnerExit, IInv, RowInv, RunsAreClaimed, Open
  <2> QED
    BY <2>2, <2>3 DEF IInv, CarrierInv, OpenInputsOwnTheirEvents
<1>2. CASE SubagentStep
  <2>1. ASSUME NEW f \in Event, SubagentTurnEnds(f)
        PROVE  FALSE
    BY <2>1 DEF SubagentTurnEnds, Outdated, Pending
  <2>2. ASSUME NEW s \in Subagent, SubagentContinues(s)
        PROVE  FALSE
    BY <2>2 DEF SubagentContinues, EventsBecome, Outdated, Pending
  <2>3. ASSUME NEW f \in Event, Ripen(f)
        PROVE  FALSE
    BY <2>3 DEF Ripen
  <2> QED
    BY <1>2, <2>1, <2>2, <2>3 DEF SubagentStep
<1>3. CASE RouteStep
  <2>1. ASSUME NEW i \in Input, NEW n \in 1..3, UserPost(i, n)
        PROVE  FALSE
    BY <2>1 DEF UserPost, Materialize, EventsBecome, Inlined, Pending
  <2>2. ASSUME NEW i \in Input, UserPostAgain(i)
        PROVE  FALSE
    BY <2>2 DEF UserPostAgain, Materialize, EventsBecome, Inlined, Pending
  <2>3. CASE (\E i \in Input : FireMessage(i) \/ CancelRoute(i)) \/ PauseQueued
    BY <2>3 DEF FireMessage, CancelRoute, PauseQueued, evVars
  <2> QED
    BY <1>3, <2>1, <2>2, <2>3 DEF RouteStep
<1>4. CASE \E n \in 1..3 : EventPass(n)
  <2>1. CASE RecoverEvents
    BY <2>1 DEF RecoverEvents, EventsBecome, Recoverable
  <2>2. ASSUME NEW i \in Input, NEW n \in 1..3, MaterializeBatch(i, n)
        PROVE  FALSE
    BY <2>2 DEF MaterializeBatch, Batch, Due, Pending, Recoverable
  <2> QED
    BY <1>4, <2>1, <2>2 DEF EventPass
<1>5. CASE \E i \in Input : Claim(i) \/ Gate(i) \/ RunnerHeartbeat(i) \/ RunnerEvent(i)
                            \/ RecoverClaim(i)
  BY <1>5 DEF Claim, Gate, GatePass, SetupThrow, RunnerHeartbeat, RunnerEvent,
              RecoverClaim, RequeueClaim, FailClaim, evVars
<1>6. CASE Crash \/ UNCHANGED vars
  BY <1>6 DEF Crash, vars, evVars
<1> QED
  BY <1>1, <1>2, <1>3, <1>4, <1>5, <1>6 DEF Next, ExecutorStep, RunnerDone

\* What was delivered or superseded stays so: no failing, recovered, repeated or
\* cut input brings it back, but one that was severed from the event itself.
THEOREM SettledEventsStayFinal == Spec => SettledEventsAreFinal
<1>1. IInv /\ [Next]_vars =>
        [\A e \in Event :
           evStatus[e] \in {"delivered", "superseded"} /\ evStatus'[e] # evStatus[e] =>
             \E i \in Input : severed[i] /\ e \in carries[i]]_vars
  BY SettledStep
<1> QED
  BY <1>1, Invariant, PTL DEF Spec, SettledEventsAreFinal

--------------------------------------------------------------------------------
(* The main-session events implement the delivery of events *)

Live == {i \in Input : Open(i)}
LooseOnes == {e \in Event : Loose(e)}

\* The inputs that carry the events of R are over.
LeftOver(R) == \A e \in R : evStatus[e] = "materialized" /\ ~Open(evInput[e])

LEMMA DeliveryInit == Init => Delivery!Init
BY DEF Init, Delivery!Init, Loose, Open

\* The steps of the delivery, their parameters being values.
LEMMA DeliverySteps ==
  /\ \A e \in Event, S \in SUBSET Event :
       (\A f \in S : evStatus[f] = "pending") /\ Delivery!Leave(e, S) => Delivery!Next
  /\ \A S \in SUBSET Event :
       (\A f \in S : evStatus[f] = "pending") /\ Delivery!Supersede(S) => Delivery!Next
  /\ \A R \in SUBSET Event : LeftOver(R) /\ Delivery!GiveBack(R) => Delivery!Next
  /\ \A i \in Input, R, E \in SUBSET Event :
       /\ LeftOver(R)
       /\ \A e \in E : evStatus[e] = "pending" \/ e \in R
       /\ Delivery!TakeAlong(i, R, E) \/ Delivery!Tear(i, R, E)
       => Delivery!Next
  /\ \A i \in Input, E \in SUBSET Event, p \in {"pending", "delivered"} :
       Open(i) /\ (\A e \in E : With(e, i) \/ Loose(e)) /\ Delivery!End(i, E, p) => Delivery!Next
<1>1. ASSUME NEW S \in SUBSET Event, \A f \in S : evStatus[f] = "pending"
      PROVE  S \in SUBSET Delivery!Waiting
  BY <1>1 DEF Delivery!Waiting
<1>2. ASSUME NEW R \in SUBSET Event, LeftOver(R)
      PROVE  R \in SUBSET Delivery!LeftOver
  BY <1>2 DEF Delivery!LeftOver, LeftOver
<1>3. ASSUME NEW R \in SUBSET Event, NEW E \in SUBSET Event,
             \A e \in E : evStatus[e] = "pending" \/ e \in R
      PROVE  E \in SUBSET (Delivery!Waiting \cup R)
  BY <1>3 DEF Delivery!Waiting
<1>4. ASSUME NEW i \in Input, NEW E \in SUBSET Event, \A e \in E : With(e, i) \/ Loose(e)
      PROVE  E \in SUBSET (Delivery!Carried(i) \cup LooseOnes)
  BY <1>4, NoInputIsNone DEF Delivery!Carried, LooseOnes, With
<1>5. \A e \in Event, S \in SUBSET Delivery!Waiting : Delivery!Leave(e, S) => Delivery!Next
  BY DEF Delivery!Next
<1>6. \A S \in SUBSET Delivery!Waiting : Delivery!Supersede(S) => Delivery!Next
  BY DEF Delivery!Next
<1>7. \A R \in SUBSET Delivery!LeftOver : Delivery!GiveBack(R) => Delivery!Next
  BY DEF Delivery!Next
<1>8. \A i \in Input : \A R \in SUBSET Delivery!LeftOver :
        \A E \in SUBSET (Delivery!Waiting \cup R) :
          Delivery!TakeAlong(i, R, E) \/ Delivery!Tear(i, R, E) => Delivery!Next
  BY DEF Delivery!Next
<1>9. \A i \in Live, p \in {"pending", "delivered"} :
        \A E \in SUBSET (Delivery!Carried(i) \cup LooseOnes) :
          Delivery!End(i, E, p) => Delivery!Next
  BY DEF Delivery!Next, Live, LooseOnes
<1>a. \A i \in Input : Open(i) => i \in Live
  BY DEF Live
<1>b. \A e \in Event, S \in SUBSET Event :
        (\A f \in S : evStatus[f] = "pending") /\ Delivery!Leave(e, S) => Delivery!Next
  BY <1>1, <1>5, Zenon
<1>c. \A S \in SUBSET Event :
        (\A f \in S : evStatus[f] = "pending") /\ Delivery!Supersede(S) => Delivery!Next
  BY <1>1, <1>6, Zenon
<1>d. \A R \in SUBSET Event : LeftOver(R) /\ Delivery!GiveBack(R) => Delivery!Next
  BY <1>2, <1>7, Zenon
<1>e. \A i \in Input, R, E \in SUBSET Event :
        /\ LeftOver(R)
        /\ \A e \in E : evStatus[e] = "pending" \/ e \in R
        /\ Delivery!TakeAlong(i, R, E) \/ Delivery!Tear(i, R, E)
        => Delivery!Next
  BY <1>2, <1>3, <1>8, Zenon
<1>f. \A i \in Input, E \in SUBSET Event, p \in {"pending", "delivered"} :
        Open(i) /\ (\A e \in E : With(e, i) \/ Loose(e)) /\ Delivery!End(i, E, p) => Delivery!Next
  BY <1>4, <1>9, <1>a, Zenon
<1> QED
  BY <1>b, <1>c, <1>d, <1>e, <1>f, Zenon

\* Columns of the event queue, seen as the hand that holds an event.
LEMMA BecomeMaps ==
  ASSUME NEW E, NEW p, p # "materialized", EventsBecome(E, p),
         \A e \in Event \ E : evStatus[e] = "materialized" => evInput'[e] = evInput[e]
  PROVE  Delivery!Become(E, p)
BY DEF EventsBecome, Delivery!Become

LEMMA NothingBecomes ==
  ASSUME evStatus \in [Event -> EventStatus], UNCHANGED <<evStatus, evInput>>
  PROVE  Delivery!Become({}, "pending")
BY BecomeMaps DEF EventsBecome

\* Which events are loose after a step: an open input that does not hold an event
\* of its context makes it so.
LEMMA LooseAfter ==
  ASSUME NEW E,
         \A e \in Event, j \in Input :
           Open(j)' /\ e \in carries'[j] /\ ~With(e, j)' => Loose(e) \/ e \in E
  PROVE  LooseOnes' \subseteq LooseOnes \cup E
BY DEF LooseOnes, Loose, With

LEMMA StillLoose ==
  ASSUME NEW e \in Event, NEW j \in Input, Open(j), e \in carries[j], ~With(e, j)
  PROVE  Loose(e)
BY DEF Loose, With

LEMMA LiveAfter ==
  ASSUME NEW i \in Input, \A j \in Input \ {i} : Open(j)' <=> Open(j)
  PROVE  /\ Open(i)' => Live' = Live \cup {i}
         /\ ~Open(i)' => Live' = Live \ {i}
         /\ (Open(i)' <=> Open(i)) => Live' = Live
BY DEF Live

\* Nobody's hand changes.
LEMMA Stutters ==
  ASSUME TypeOK, UNCHANGED <<evStatus, evInput, carries>>,
         \A j \in Input : Open(j)' <=> Open(j)
  PROVE  UNCHANGED Delivery!vars
BY DEF Delivery!vars, Loose

\* An input ends and leaves its events as they are.
LEMMA EndsQuietly ==
  ASSUME TypeOK, UNCHANGED <<evStatus, evInput, carries>>, NEW i \in Input, NEW st,
         Open(i), SetStatus(i, st), st \notin {"QUEUED", "CLAIMED"}
  PROVE  Delivery!Next
<1>1. ~Open(i)' /\ \A j \in Input \ {i} : Open(j)' <=> Open(j)
  BY DEF TypeOK, RowType, SetStatus, Open
<1>2. Delivery!Become({}, "pending")
  BY NothingBecomes DEF TypeOK, EventType
<1>3. LooseOnes' \subseteq LooseOnes
  <2>1. \A e \in Event, j \in Input :
          Open(j)' /\ e \in carries'[j] /\ ~With(e, j)' => Loose(e) \/ e \in {}
    BY <1>1, StillLoose DEF With
  <2> QED
    BY <2>1, LooseAfter
<1>4. Delivery!End(i, {}, "pending")
  BY <1>1, <1>2, <1>3, LiveAfter DEF Delivery!End, Live, LooseOnes
<1>5. {} \in SUBSET Event
  OBVIOUS
<1> QED
  BY <1>4, <1>5, DeliverySteps

LEMMA SubagentsDeliver ==
  ASSUME TypeOK, SubagentStep
  PROVE  [Delivery!Next]_(Delivery!vars)
<1>t. evStatus \in [Event -> EventStatus]
  BY DEF TypeOK, EventType
<1>1. ASSUME NEW e \in Event, SubagentTurnEnds(e)
      PROVE  Delivery!Next
  <2>1. PICK S \in SUBSET Event : S = Outdated(SubagentOf[e])
    BY DEF Outdated, Pending
  <2>2. /\ evStatus[e] = "absent"
        /\ \A f \in S : evStatus[f] = "pending"
        /\ evStatus' = [f \in Event |-> IF f = e THEN "pending"
                           ELSE IF f \in S THEN "superseded" ELSE evStatus[f]]
        /\ UNCHANGED <<evInput, status, carries>>
    BY <1>1, <2>1 DEF SubagentTurnEnds, Outdated, Pending
  <2>3. \A f \in Event : evStatus'[f] = "materialized" <=> evStatus[f] = "materialized"
    BY <2>2
  <2>4. Delivery!Leave(e, S)
    BY <2>2, <2>3 DEF Delivery!Leave, Loose, Open
  <2> QED
    BY <2>2, <2>4, DeliverySteps
<1>2. ASSUME NEW s \in Subagent, SubagentContinues(s)
      PROVE  Delivery!Next
  <2>1. PICK S \in SUBSET Event : S = Outdated(s)
    BY DEF Outdated, Pending
  <2>2. /\ \A f \in S : evStatus[f] = "pending"
        /\ EventsBecome(S, "superseded")
        /\ UNCHANGED <<evInput, status, carries>>
    BY <1>2, <2>1 DEF SubagentContinues, EventsBecome, Outdated, Pending
  <2>3. \A f \in Event : evStatus'[f] = "materialized" <=> evStatus[f] = "materialized"
    BY <2>2 DEF EventsBecome
  <2>4. Delivery!Become(S, "superseded")
    BY <2>2, BecomeMaps
  <2>5. Delivery!Supersede(S)
    BY <2>2, <2>3, <2>4 DEF Delivery!Supersede, Loose, Open
  <2> QED
    BY <2>2, <2>5, DeliverySteps
<1>3. ASSUME NEW e \in Event, Ripen(e)
      PROVE  UNCHANGED Delivery!vars
  BY <1>3, Stutters DEF Ripen, rowVars, Open
<1> QED
  BY <1>1, <1>2, <1>3 DEF SubagentStep

\* The row of input i is made for the events of E, or is there already.
RowFor(i, E) ==
  \/ UNCHANGED <<status, carries>>
  \/ /\ status' = [status EXCEPT ![i] = "QUEUED"]
     /\ carries' = [carries EXCEPT ![i] = E]
     /\ status[i] = "NONE"

LEMMA RowForOpens ==
  ASSUME TypeOK, NEW i \in Input, NEW E, RowFor(i, E)
  PROVE  /\ \A j \in Input \ {i} : /\ Open(j)' <=> Open(j)
                                  /\ carries'[j] = carries[j]
         /\ Live' \in {Live, Live \cup {i}}
         /\ \/ (Open(i)' <=> Open(i)) /\ carries'[i] = carries[i]
            \/ carries'[i] = E
<1>1. status \in [Input -> InputStatus] /\ carries \in [Input -> SUBSET Event]
  BY DEF TypeOK, RowType
<1>2. /\ \A j \in Input \ {i} : /\ Open(j)' <=> Open(j)
                               /\ carries'[j] = carries[j]
      /\ \/ (Open(i)' <=> Open(i)) /\ carries'[i] = carries[i]
         \/ Open(i)' /\ carries'[i] = E
  BY <1>1 DEF RowFor, Open
<1> QED
  BY <1>2, LiveAfter

LEMMA TakesAlong ==
  ASSUME TypeOK, NEW i \in Input, NEW E \in SUBSET Event, NEW R \in SUBSET Event,
         LeftOver(R),
         \A e \in E : evStatus[e] = "pending" \/ e \in R,
         evStatus' = [e \in Event |-> IF e \in E THEN "materialized"
                                      ELSE IF e \in R THEN "pending" ELSE evStatus[e]],
         evInput' = [e \in Event |-> IF e \in E THEN i
                                     ELSE IF e \in R THEN NoInput ELSE evInput[e]],
         RowFor(i, E)
  PROVE  Delivery!TakeAlong(i, R, E)
<1>1. /\ \A j \in Input \ {i} : /\ Open(j)' <=> Open(j)
                               /\ carries'[j] = carries[j]
      /\ Live' \in {Live, Live \cup {i}}
      /\ \/ (Open(i)' <=> Open(i)) /\ carries'[i] = carries[i]
         \/ carries'[i] = E
  BY RowForOpens
<1>2. ASSUME NEW e \in Event, NEW j \in Input,
             Open(j)', e \in carries'[j], ~With(e, j)'
      PROVE  Loose(e)
  <2>1. ~(j = i /\ e \in E)
    BY <1>2 DEF With
  <2>2. Open(j) /\ e \in carries[j]
    BY <1>1, <1>2, <2>1
  <2>3. ~With(e, j)
    BY <1>2, <2>2 DEF With, LeftOver
  <2> QED
    BY <2>2, <2>3, StillLoose
<1>3. LooseOnes' \subseteq LooseOnes
  <2>1. \A e \in Event, j \in Input :
          Open(j)' /\ e \in carries'[j] /\ ~With(e, j)' => Loose(e) \/ e \in {}
    BY <1>2
  <2> QED
    BY <2>1, LooseAfter
<1> QED
  BY <1>1, <1>3 DEF Delivery!TakeAlong, Live, LooseOnes

LEMMA TornApart ==
  ASSUME TypeOK, NEW i \in Input, NEW E \in SUBSET Event, NEW R \in SUBSET Event,
         LeftOver(R),
         \A e \in E : evStatus[e] = "pending" \/ e \in R,
         EventsBecome(R, "pending"),
         \A e \in Event \ R : evInput'[e] = evInput[e],
         RowFor(i, E)
  PROVE  Delivery!Tear(i, R, E)
<1>1. /\ \A j \in Input \ {i} : /\ Open(j)' <=> Open(j)
                               /\ carries'[j] = carries[j]
      /\ Live' \in {Live, Live \cup {i}}
      /\ \/ (Open(i)' <=> Open(i)) /\ carries'[i] = carries[i]
         \/ carries'[i] = E
  BY RowForOpens
<1>2. ASSUME NEW e \in Event, NEW j \in Input,
             Open(j)', e \in carries'[j], ~With(e, j)', e \notin E
      PROVE  Loose(e)
  <2>1. Open(j) /\ e \in carries[j]
    BY <1>1, <1>2
  <2>2. ~With(e, j)
    BY <1>2, <2>1 DEF With, EventsBecome, LeftOver
  <2> QED
    BY <2>1, <2>2, StillLoose
<1>3. LooseOnes' \subseteq LooseOnes \cup E
  BY <1>2, LooseAfter
<1>4. Delivery!Become(R, "pending")
  BY BecomeMaps
<1> QED
  BY <1>1, <1>3, <1>4 DEF Delivery!Tear, Live, LooseOnes

\* What the user takes along is pending.
LEMMA InlinesDeliver ==
  ASSUME TypeOK, NEW i \in Input, NEW E \in SUBSET Event, Materialize(E, i), RowFor(i, E),
         \A e \in E : evStatus[e] = "pending"
  PROVE  Delivery!Next
<1>1. /\ evStatus' = [e \in Event |-> IF e \in E THEN "materialized"
                                      ELSE IF e \in {} THEN "pending" ELSE evStatus[e]]
      /\ evInput' = [e \in Event |-> IF e \in E THEN i
                                     ELSE IF e \in {} THEN NoInput ELSE evInput[e]]
  BY DEF Materialize, EventsBecome
<1>2. {} \in SUBSET Event /\ LeftOver({})
  BY DEF LeftOver
<1>3. Delivery!TakeAlong(i, {}, E)
  BY <1>1, <1>2, TakesAlong
<1> QED
  BY <1>2, <1>3, DeliverySteps

LEMMA UserPostsDeliver ==
  ASSUME TypeOK, NEW i \in Input, NEW n \in 1..3, UserPost(i, n)
  PROVE  Delivery!Next
<1>t. evStatus \in [Event -> EventStatus] /\ evInput \in [Event -> Input \cup {NoInput}]
  BY DEF TypeOK, EventType
<1>1. PICK E \in SUBSET Event : E = Inlined
  BY DEF Inlined, Pending
<1>2. /\ RowFor(i, E)
      /\ \A e \in E : evStatus[e] = "pending"
  BY <1>1 DEF UserPost, RowFor, Insert, SetStatus, NextInput, Inlined, Pending
<1>3. CASE n >= 2
  <2>1. Materialize(E, i)
    BY <1>1, <1>3 DEF UserPost, Materialize, EventsBecome
  <2> QED
    BY <1>2, <2>1, InlinesDeliver
<1>4. CASE ~(n >= 2)
  <2>1. UNCHANGED <<evStatus, evInput>>
    BY <1>4 DEF UserPost
  <2>2. EventsBecome({}, "pending")
    BY <1>t, <2>1 DEF EventsBecome
  <2>3. {} \in SUBSET Event /\ LeftOver({})
    BY DEF LeftOver
  <2>4. Delivery!Tear(i, {}, E)
    BY <1>2, <2>1, <2>2, <2>3, TornApart
  <2> QED
    BY <1>2, <2>3, <2>4, DeliverySteps
<1> QED
  BY <1>3, <1>4

LEMMA RoutesDeliver ==
  ASSUME TypeOK, RouteStep
  PROVE  Delivery!Next
<1>t. evStatus \in [Event -> EventStatus] /\ evInput \in [Event -> Input \cup {NoInput}]
  BY DEF TypeOK, EventType
<1>e. {} \in SUBSET Event
  OBVIOUS
<1>1. ASSUME NEW i \in Input, UserPostAgain(i)
      PROVE  Delivery!Next
  <2>1. PICK E \in SUBSET Event : E = Inlined
    BY DEF Inlined, Pending
  <2>2. /\ RowFor(i, E)
        /\ Materialize(E, i)
        /\ \A e \in E : evStatus[e] = "pending"
    BY <1>1, <2>1 DEF UserPostAgain, RowFor, Materialize, EventsBecome, Inlined, Pending
  <2> QED
    BY <2>2, InlinesDeliver
<1>2. ASSUME NEW i \in Input, FireMessage(i)
      PROVE  Delivery!Next
  <2>1. RowFor(i, {}) /\ UNCHANGED <<evStatus, evInput>>
    BY <1>2 DEF FireMessage, RowFor, Insert, SetStatus, NextInput, evVars
  <2>2. Materialize({}, i)
    BY <1>t, <2>1 DEF Materialize, EventsBecome
  <2> QED
    BY <1>e, <2>1, <2>2, InlinesDeliver
<1>3. ASSUME PauseQueued
      PROVE  Delivery!Next
  <2>1. PICK i \in Input : i = rtInput /\ Open(i) /\ SetStatus(i, "PAUSED")
    BY <1>3 DEF PauseQueued, TypeOK, Open, SetStatus
  <2> QED
    BY <1>3, <2>1, EndsQuietly DEF PauseQueued, evVars
<1>4. ASSUME NEW i \in Input, CancelRoute(i)
      PROVE  Delivery!Next
  BY <1>4, EndsQuietly DEF CancelRoute, Open, evVars
<1> QED
  BY <1>1, <1>2, <1>3, <1>4, UserPostsDeliver DEF RouteStep

LEMMA RecoveredDelivers ==
  ASSUME TypeOK, RecoverEvents
  PROVE  Delivery!Next
<1>t. evInput \in [Event -> Input \cup {NoInput}]
  BY DEF TypeOK, EventType
<1>1. PICK R \in SUBSET Event : R = Recoverable
  BY DEF Recoverable
<1>2. /\ LeftOver(R)
      /\ EventsBecome(R, "pending")
      /\ \A e \in Event \ R : evInput'[e] = evInput[e]
      /\ UNCHANGED <<status, carries>>
  BY <1>t, <1>1 DEF RecoverEvents, EventsBecome, Recoverable, Open, LeftOver
<1>3. Delivery!Become(R, "pending")
  BY <1>2, BecomeMaps
<1>4. \A e \in Event, j \in Input : Open(j) => (With(e, j)' <=> With(e, j))
  BY <1>2 DEF With, EventsBecome, LeftOver
<1>5. UNCHANGED <<Live, LooseOnes>>
  BY <1>2, <1>4 DEF Live, LooseOnes, Loose, With, Open
<1>6. Delivery!GiveBack(R)
  BY <1>3, <1>5 DEF Delivery!GiveBack, Live, LooseOnes
<1> QED
  BY <1>2, <1>6, DeliverySteps

LEMMA BatchDelivers ==
  ASSUME TypeOK, NEW i \in Input, NEW n \in 1..3, MaterializeBatch(i, n)
  PROVE  Delivery!Next
<1>1. PICK R \in SUBSET Event : R = Recoverable
  BY DEF Recoverable
<1>2. PICK E \in SUBSET Event : E = Batch
  BY DEF Batch, Due, Pending, Recoverable
<1>3. LeftOver(R)
  BY <1>1 DEF Recoverable, Open, LeftOver
<1>4. \A e \in E : evStatus[e] = "pending" \/ e \in R
  BY <1>1, <1>2 DEF Batch, Due, Pending
<1>5. RowFor(i, E)
  BY <1>2 DEF MaterializeBatch, Target, RowFor, Insert, SetStatus, NextInput
<1>6. CASE n >= 2
  <2>1. /\ evStatus' = [e \in Event |-> IF e \in E THEN "materialized"
                                        ELSE IF e \in R THEN "pending" ELSE evStatus[e]]
        /\ evInput' = [e \in Event |-> IF e \in E THEN i
                                       ELSE IF e \in R THEN NoInput ELSE evInput[e]]
    BY <1>1, <1>2, <1>6 DEF MaterializeBatch
  <2>2. Delivery!TakeAlong(i, R, E)
    BY <1>3, <1>4, <1>5, <2>1, TakesAlong
  <2> QED
    BY <1>3, <1>4, <2>2, DeliverySteps
<1>7. CASE ~(n >= 2)
  <2>1. EventsBecome(R, "pending") /\ \A e \in Event \ R : evInput'[e] = evInput[e]
    BY <1>1, <1>7 DEF MaterializeBatch, EventsBecome
  <2>2. Delivery!Tear(i, R, E)
    BY <1>3, <1>4, <1>5, <2>1, TornApart
  <2> QED
    BY <1>3, <1>4, <2>2, DeliverySteps
<1> QED
  BY <1>6, <1>7

LEMMA ExitDelivers ==
  ASSUME TypeOK, RowInv, NEW i \in Input, NEW n \in 1..3, NEW v \in RunnerVerdict,
         NEW visible \in BOOLEAN, RunnerExit(i, v, visible, n)
  PROVE  Delivery!Next
<1>t. /\ status \in [Input -> InputStatus]
      /\ carries \in [Input -> SUBSET Event]
      /\ evInput \in [Event -> Input \cup {NoInput}]
  BY DEF TypeOK, EventType, RowType
<1>1. /\ Open(i)
      /\ StatusOf(v) \notin {"QUEUED", "CLAIMED"}
      /\ SetStatus(i, StatusOf(v))
      /\ UNCHANGED carries
  BY RunnerSays, StatusOfType DEF RunnerExit, RowInv, RunsAreClaimed, Open
<1>2. ~Open(i)' /\ \A j \in Input \ {i} : Open(j)' <=> Open(j)
  BY <1>1, <1>t DEF SetStatus, Open
<1>3. CASE n # 3
  <2>1. UNCHANGED <<evStatus, evInput>>
    BY <1>3 DEF RunnerExit
  <2> QED
    BY <1>1, <2>1, EndsQuietly
<1>4. CASE n = 3
  <2>0. PICK E \in SUBSET Event : E = carries[i]
    BY <1>t
  <2>1. PICK p \in {"pending", "delivered"} : EventsBecome(E, p)
    BY <1>4, <2>0 DEF RunnerExit, FinalizeEvents, EventsBecome
  <2>2. \A e \in Event \ E : evInput'[e] = evInput[e]
    BY <1>4, <1>t, <2>0 DEF RunnerExit, FinalizeEvents
  <2>3. Delivery!Become(E, p)
    BY <2>1, <2>2, BecomeMaps
  <2>4. \A e \in E : With(e, i) \/ Loose(e)
    BY <1>t, <1>1, <2>0 DEF With, Loose
  <2>5. ASSUME NEW e \in Event, NEW j \in Input,
               Open(j)', e \in carries'[j], ~With(e, j)'
        PROVE  Loose(e)
    <3>1. j # i /\ Open(j) /\ e \in carries[j]
      BY <1>1, <1>2, <2>5
    <3>2. CASE e \in E
      BY <1>1, <2>0, <3>1, <3>2, StillLoose DEF With
    <3>3. CASE e \notin E
      BY <2>1, <2>2, <2>5, <3>1, <3>3, StillLoose DEF With, EventsBecome
    <3> QED
      BY <3>2, <3>3
  <2>6. LooseOnes' \subseteq LooseOnes
    <3>1. \A e \in Event, j \in Input :
            Open(j)' /\ e \in carries'[j] /\ ~With(e, j)' => Loose(e) \/ e \in {}
      BY <2>5
    <3> QED
      BY <3>1, LooseAfter
  <2>7. Delivery!End(i, E, p)
    BY <1>2, <2>3, <2>6, LiveAfter DEF Delivery!End, Live, LooseOnes
  <2> QED
    BY <1>1, <2>4, <2>7, DeliverySteps
<1> QED
  BY <1>3, <1>4

LEMMA ExecutorsDeliver ==
  ASSUME TypeOK, RowInv, NEW i \in Input, ExecutorStep(i)
  PROVE  [Delivery!Next]_(Delivery!vars)
<1> USE DEF evVars, rowVars
<1>t. status \in [Input -> InputStatus]
  BY DEF TypeOK, RowType
<1>1. CASE Claim(i) \/ RequeueClaim(i)
  <2>1. UNCHANGED <<evStatus, evInput, carries>> /\ \A j \in Input : Open(j)' <=> Open(j)
    BY <1>1, <1>t DEF Claim, RequeueClaim, Abandoned, SetStatus, Open
  <2> QED
    BY <2>1, Stutters
<1>2. CASE GatePass(i) \/ RunnerHeartbeat(i) \/ RunnerEvent(i)
  <2>1. UNCHANGED <<evStatus, evInput, carries, status>>
    BY <1>2 DEF GatePass, RunnerHeartbeat, RunnerEvent
  <2> QED
    BY <2>1, Stutters DEF Open
<1>3. CASE SetupThrow(i) \/ FailClaim(i)
  <2>1. /\ Open(i)
        /\ SetStatus(i, "FAILED")
        /\ UNCHANGED <<evStatus, evInput, carries>>
    BY <1>3 DEF SetupThrow, FailClaim, Abandoned, RowInv, RunsAreClaimed, Open
  <2> QED
    BY <2>1, EndsQuietly
<1>4. CASE \E n \in 1..3 : RunnerDone(i, n)
  BY <1>4, ExitDelivers DEF RunnerDone
<1> QED
  BY <1>1, <1>2, <1>3, <1>4 DEF ExecutorStep, Gate, RecoverClaim

LEMMA DeliveryStep == IInv /\ [Next]_vars => [Delivery!Next]_(Delivery!vars)
<1> SUFFICES ASSUME TypeOK, RowInv, [Next]_vars
             PROVE  [Delivery!Next]_(Delivery!vars)
  BY DEF IInv
<1>1. CASE Crash \/ UNCHANGED vars
  <2>1. UNCHANGED <<evStatus, evInput, carries, status>>
    BY <1>1 DEF Crash, vars, evVars, rowVars
  <2> QED
    BY <2>1, Stutters DEF Open
<1> QED
  BY <1>1, SubagentsDeliver, RoutesDeliver, RecoveredDelivers, BatchDelivers,
     ExecutorsDeliver DEF Next, EventPass

\* The event rows, the input rows and the runs implement the delivery of events,
\* for every number of events, subagents, inputs and crashes and every mishap: an
\* event is in one hand at a time, and only that hand's end moves it on.
THEOREM EventsAreDelivered == Spec => ImplementsDelivery
<1>1. Init => Delivery!Init
  BY DeliveryInit
<1>2. IInv /\ [Next]_vars => [Delivery!Next]_(Delivery!vars)
  BY DeliveryStep
<1> QED
  BY <1>1, <1>2, Invariant, PTL DEF Spec, ImplementsDelivery, Delivery!Spec

--------------------------------------------------------------------------------
(* The inputs that carry events live the life of inputs *)

\* A step that moves one input, or none.
LEMMA OneRowMoves ==
  ASSUME TypeOK, NEW i \in Input, NEW st \in InputStatus, SetStatus(i, st)
  PROVE  /\ status'[i] = st
         /\ [j \in Input |-> PhaseOf(j)]' =
              [[j \in Input |-> PhaseOf(j)] EXCEPT ![i] = PhaseOf(i)']
<1>1. status' = [status EXCEPT ![i] = st] /\ status \in [Input -> InputStatus]
  BY DEF SetStatus, TypeOK, RowType
<1>2. \A j \in Input \ {i} : PhaseOf(j)' = PhaseOf(j)
  BY <1>1 DEF PhaseOf
<1> QED BY <1>1, <1>2

LEMMA NewRow ==
  ASSUME TypeOK, NEW i \in Input, status[i] = "NONE", SetStatus(i, "QUEUED")
  PROVE  Queue!Next
<1>1. Queue!Submit(i)
  BY OneRowMoves DEF Queue!Submit, PhaseOf, InputStatus
<1> QED BY <1>1 DEF Queue!Next

LEMMA RowLeavesQueue ==
  ASSUME TypeOK, NEW i \in Input, NEW st \in {"PAUSED", "CANCELLED"},
         status[i] = "QUEUED", SetStatus(i, st)
  PROVE  Queue!Next
<1>1. Queue!Withdraw(i)
  BY OneRowMoves DEF Queue!Withdraw, PhaseOf, InputStatus
<1> QED BY <1>1 DEF Queue!Next

LEMMA RowTaken ==
  ASSUME TypeOK, NEW i \in Input, status[i] = "QUEUED", SetStatus(i, "CLAIMED")
  PROVE  Queue!Next
<1>1. Queue!Take(i)
  BY OneRowMoves DEF Queue!Take, PhaseOf, InputStatus
<1> QED BY <1>1 DEF Queue!Next

LEMMA RowReturned ==
  ASSUME TypeOK, NEW i \in Input, status[i] = "CLAIMED", SetStatus(i, "QUEUED")
  PROVE  Queue!Next
<1>1. Queue!Return(i)
  BY OneRowMoves DEF Queue!Return, PhaseOf, InputStatus
<1> QED BY <1>1 DEF Queue!Next

LEMMA RowSettled ==
  ASSUME TypeOK, NEW i \in Input, NEW st \in {"DONE", "FAILED", "PAUSED"},
         status[i] = "CLAIMED", SetStatus(i, st)
  PROVE  Queue!Next
<1>1. Queue!Abandon(i)
  BY OneRowMoves DEF Queue!Abandon, PhaseOf, InputStatus
<1> QED BY <1>1 DEF Queue!Next

LEMMA RowsAlone == ASSUME UNCHANGED status PROVE UNCHANGED Queue!vars
BY DEF Queue!vars, PhaseOf

\* The routes and the passes of the event worker.
LEMMA RequestsKeepLives ==
  ASSUME IInv, RouteStep \/ \E n \in 1..3 : EventPass(n)
  PROVE  [Queue!Next]_(Queue!vars)
<1> USE DEF IInv
<1>1. ASSUME NEW i \in Input, NEW n \in 1..3, UserPost(i, n) PROVE Queue!Next
  BY <1>1, NewRow DEF UserPost, Insert, NextInput
<1>2. ASSUME NEW i \in Input, FireMessage(i) PROVE Queue!Next
  BY <1>2, NewRow DEF FireMessage, Insert, NextInput
<1>3. ASSUME NEW i \in Input, UserPostAgain(i) PROVE UNCHANGED status
  BY <1>3 DEF UserPostAgain
<1>4. CASE PauseQueued
  <2>1. rtInput \in Input
    BY <1>4 DEF PauseQueued, TypeOK
  <2> QED BY <1>4, <2>1, RowLeavesQueue DEF PauseQueued
<1>5. ASSUME NEW i \in Input, CancelRoute(i) PROVE Queue!Next
  BY <1>5, RowLeavesQueue DEF CancelRoute
<1>6. CASE RecoverEvents
  BY <1>6, RowsAlone DEF RecoverEvents
<1>7. ASSUME NEW i \in Input, NEW n \in 1..3, MaterializeBatch(i, n)
      PROVE  Queue!Next \/ UNCHANGED status
  <2>1. Keyed(i) \/ NextInput(i)
    BY <1>7 DEF MaterializeBatch, Target
  <2>2. CASE Keyed(i)
    BY <1>7, <2>2 DEF MaterializeBatch
  <2>3. CASE ~Keyed(i)
    BY <1>7, <2>1, <2>3, NewRow DEF MaterializeBatch, Insert, NextInput
  <2> QED BY <2>2, <2>3
<1> QED
  BY <1>1, <1>2, <1>3, <1>4, <1>5, <1>6, <1>7, RowsAlone DEF RouteStep, EventPass

\* The queue worker and the executor; a run has a claim, so it settles a taken input.
LEMMA RunsKeepLives ==
  ASSUME IInv, NEW i \in Input, ExecutorStep(i)
  PROVE  [Queue!Next]_(Queue!vars)
<1> USE DEF IInv
<1>1. run[i] # "idle" => status[i] = "CLAIMED"
  BY DEF RowInv, RunsAreClaimed
<1>2. CASE Claim(i)
  BY <1>2, RowTaken DEF Claim
<1>3. CASE GatePass(i) \/ RunnerHeartbeat(i) \/ RunnerEvent(i)
  BY <1>3, RowsAlone DEF GatePass, RunnerHeartbeat, RunnerEvent, rowVars
<1>4. CASE SetupThrow(i)
  BY <1>1, <1>4, RowSettled DEF SetupThrow
<1>5. CASE \E n \in 1..3 : RunnerDone(i, n)
  <2>1. PICK v \in RunnerVerdict : run[i] = "runner" /\ SetStatus(i, StatusOf(v))
    BY <1>5 DEF RunnerDone, RunnerExit
  <2>2. StatusOf(v) \in {"DONE", "FAILED", "PAUSED"}
    BY DEF StatusOf
  <2> QED BY <1>1, <2>1, <2>2, RowSettled
<1>6. CASE RecoverClaim(i)
  BY <1>6, RowReturned, RowSettled DEF RecoverClaim, RequeueClaim, FailClaim, Abandoned
<1> QED BY <1>2, <1>3, <1>4, <1>5, <1>6 DEF ExecutorStep, Gate

\* An input that takes events along waits, is taken, may be given back, and is settled
\* once, whatever mishap occurs: each step moves one input at most.  The model of the
\* events restricts the queue and adds no step to it.
THEOREM CarriersLiveTheirLife == Spec => RowsImplementLifecycle
<1>1. Init => Queue!Init
  BY DEF Init, Queue!Init, PhaseOf
<1>2. IInv /\ [Next]_vars => [Queue!Next]_(Queue!vars)
  <2> SUFFICES ASSUME IInv, [Next]_vars PROVE [Queue!Next]_(Queue!vars)
    OBVIOUS
  <2>1. CASE SubagentStep \/ Crash \/ UNCHANGED vars
    BY <2>1, RowsAlone DEF SubagentStep, SubagentTurnEnds, SubagentContinues, Ripen, Crash,
                           rowVars, vars
  <2> QED BY <2>1, RequestsKeepLives, RunsKeepLives DEF Next
<1> QED BY <1>1, <1>2, Invariant, PTL DEF Spec, RowsImplementLifecycle, Queue!Spec

================================================================================

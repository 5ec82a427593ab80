---------------------------- MODULE MainSessionEvents ----------------------------
(***************************************************************************)
(* Delivery of background events into the conversation: subagents leave    *)
(* events for the main session, the main-session event worker batches them *)
(* into an input of its own when the session is idle, the queue route adds *)
(* them to what the user says next, and the executor of the carrying input *)
(* settles them or puts them back.                                         *)
(*                                                                         *)
(* One coordinator session in one runtime process; what happens when two   *)
(* processes compete for an input is the subject of SessionQueue, of which *)
(* this module keeps the life of a row and of the session runtime state.   *)
(* A synchronous block is one action, and an action of its own where it is *)
(* cut between two of its writes.                                          *)
(***************************************************************************)
EXTENDS Integers, FiniteSets

CONSTANTS
  Event,       \* identities of main_session_event_queue rows
  Subagent,    \* the subagents that the session delegated to
  SubagentOf,  \* the one that leaves an event
  Asks,        \* the events of the bucket "waiting_on_user", not "background_update"
  NumInputs,   \* bound: the inputs that are ever enqueued
  MaxCrashes,  \* bound: how often the process dies
  Mishap,      \* what may go wrong, see the assumption
  RunnerVerdict \* bound: what a runner's terminal event may say

Input == 1..NumInputs

Verdict == {"completed", "waiting_user", "paused", "failed"}

\* "throw": an executor raises before its runner is spawned; "tear": a block is
\* cut after some of its writes; "repost", "pause", "cancel": a client repeats a
\* request, pauses or cancels a queued input.
ASSUME MainSessionEventsAssumption ==
  /\ NumInputs \in Nat
  /\ MaxCrashes \in Nat
  /\ SubagentOf \in [Event -> Subagent]
  /\ Asks \subseteq Event
  /\ Mishap \subseteq {"throw", "tear", "repost", "pause", "cancel"}
  /\ RunnerVerdict \subseteq Verdict

NoInput == 0

VARIABLES
  \* main_session_event_queue
  evStatus,   \* "absent" is a row that does not exist yet
  evInput,    \* materialized_input_id
  ripe,       \* earliest_deliver_at has passed
  replaced,   \* superseded_at is set
  \* agent_session_inputs and the output events of an input
  status,
  kind,       \* "none" (no row), "user" or "batch" (context.source)
  carries,    \* context.main_session_event_ids
  key,        \* idempotency key: "none", the client's, or one that names the
              \* versions (updated_at) that the events of the batch have now
  begun,      \* it has output events other than run_claimed
  \* session_runtime_state of the session
  rtStatus, rtInput,
  \* where the executor of an input awaits: "idle", "gate", "runner"
  run,
  \* history
  crashes,    \* how often the process died
  severed     \* the block that enqueued or settled the input was cut, it was paused
              \* or cancelled in the queue, or repeated when it was settled

evVars == <<evStatus, evInput, ripe, replaced>>
rowVars == <<status, kind, carries, key, begun>>
rtVars == <<rtStatus, rtInput>>
histVars == <<crashes, severed>>
vars == <<evVars, rowVars, rtVars, run, histVars>>

--------------------------------------------------------------------------------
(* Values and helpers *)

EventStatus == {"absent", "pending", "materialized", "delivered", "superseded"}
InputStatus == {"NONE", "QUEUED", "CLAIMED", "DONE", "FAILED", "PAUSED", "CANCELLED"}
RuntimeStatus == {"IDLE", "BUSY", "WAITING_USER", "ERROR", "QUEUED", "PAUSED"}

StatusOf(v) == CASE v = "failed" -> "FAILED"
                 [] v = "paused" -> "PAUSED"
                 [] OTHER        -> "DONE"

\* Mutant: the status literal of the executor's gate branch.
RuntimeStatusOfTypo(v) == CASE v = "failed"       -> "ERROR"
                            [] v = "paused"       -> "PAUSED"
                            [] v = "waiting_user" -> "WAITING_ON_USER"
                            [] OTHER              -> "IDLE"

RuntimeStatusOf(v) == CASE v = "failed"       -> "ERROR"
                        [] v = "paused"       -> "PAUSED"
                        [] v = "waiting_user" -> "WAITING_USER"
                        [] OTHER              -> "IDLE"

SetRuntime(st, i) == rtStatus' = st /\ rtInput' = i

SetStatus(i, st) == status' = [status EXCEPT ![i] = st]

\* A write to an event changes the version that the key of a batch names.
KeyTouched(E) == [i \in Input |->
  IF key[i] = "batch" /\ carries[i] \cap E # {} THEN "none" ELSE key[i]]

\* listPendingMainSessionEvents.
Pending == {e \in Event : evStatus[e] = "pending" /\ ~replaced[e]}

EventsBecome(E, st) ==
  evStatus' = [e \in Event |-> IF e \in E THEN st ELSE evStatus[e]]

\* markMainSessionEventsMaterialized.
Materialize(E, i) ==
  /\ EventsBecome(E, "materialized")
  /\ evInput' = [e \in Event |-> IF e \in E THEN i ELSE evInput[e]]

Open(i) == status[i] \in {"QUEUED", "CLAIMED"}

NextInput(i) == status[i] = "NONE" /\ \A j \in 1..(i - 1) : status[j] # "NONE"

\* enqueueInput, its key being new.
Insert(i, k, E) ==
  /\ SetStatus(i, "QUEUED")
  /\ kind' = [kind EXCEPT ![i] = k]
  /\ carries' = [carries EXCEPT ![i] = E]

--------------------------------------------------------------------------------
(* Subagents *)

OfSubagent(s) == {e \in Event : SubagentOf[e] = s}

\* Mutant: the events are superseded whatever became of them.
OutdatedAnyhow(s) == {e \in OfSubagent(s) : evStatus[e] # "absent"}

\* supersedePendingSubagentEvents.
Outdated(s) == Pending \cap OfSubagent(s)

\* A subagent ends a turn: its pending events are superseded by a new one, which
\* becomes due when the coalescing window is over.
SubagentTurnEnds(e) ==
  LET s == SubagentOf[e] IN
  /\ evStatus[e] = "absent"
  /\ evStatus' = [f \in Event |-> IF f = e THEN "pending"
                                  ELSE IF f \in Outdated(s) THEN "superseded"
                                  ELSE evStatus[f]]
  /\ replaced' = [f \in Event |-> f \in Outdated(s) \/ replaced[f]]
  /\ key' = KeyTouched(Outdated(s))
  /\ UNCHANGED <<evInput, ripe, status, kind, carries, begun, rtVars, run, histVars>>

\* It ends a turn, and an input of its own is queued already: no new event.
SubagentContinues(s) ==
  /\ Outdated(s) # {}
  /\ EventsBecome(Outdated(s), "superseded")
  /\ replaced' = [e \in Event |-> e \in Outdated(s) \/ replaced[e]]
  /\ key' = KeyTouched(Outdated(s))
  /\ UNCHANGED <<evInput, ripe, status, kind, carries, begun, rtVars, run,
                 histVars>>

\* earliest_deliver_at passes.
Ripen(e) ==
  /\ evStatus[e] = "pending"
  /\ ~ripe[e]
  /\ ripe' = [ripe EXCEPT ![e] = TRUE]
  /\ UNCHANGED <<evStatus, evInput, replaced, rowVars, rtVars, run, histVars>>

--------------------------------------------------------------------------------
(* Routes: the queue route, the channel port, pause and cancel *)

\* The runtime state the queue route leaves behind it for input i.
RuntimeAfterQueue(i) ==
  IF rtInput # NoInput /\ status[rtInput] = "CLAIMED" THEN UNCHANGED rtVars
                                                      ELSE SetRuntime("QUEUED", i)

\* Mutant: an event that another input carries is added as well.
InlinedAnyhow == {e \in Event \ Asks : evStatus[e] \in {"pending", "materialized"}}

\* The background updates that a user's message takes along, due or not.
Inlined == Pending \ Asks

\* The user says something.  The route inserts the row, marks the events it
\* took along, then writes the runtime state; n is how far it gets.
UserPost(i, n) ==
  /\ NextInput(i)
  /\ n = 3 \/ "tear" \in Mishap
  /\ Insert(i, "user", Inlined)
  /\ IF n >= 2 THEN Materialize(Inlined, i) /\ key' = [KeyTouched(Inlined) EXCEPT ![i] = "client"]
               ELSE UNCHANGED <<evStatus, evInput>> /\ key' = [key EXCEPT ![i] = "client"]
  /\ IF n = 3 THEN RuntimeAfterQueue(i) ELSE UNCHANGED rtVars
  /\ severed' = [severed EXCEPT ![i] = n = 1 /\ Inlined # {}]
  /\ UNCHANGED <<ripe, replaced, begun, run, crashes>>

\* The same request again: the row that has the key is returned, whatever its
\* status and its context, and the updates pending now are marked with it.
UserPostAgain(i) ==
  /\ "repost" \in Mishap
  /\ key[i] = "client"
  /\ Materialize(Inlined, i)
  /\ key' = KeyTouched(Inlined)
  /\ RuntimeAfterQueue(i)
  /\ severed' = [severed EXCEPT ![i] = @ \/ ~Open(i)]
  /\ UNCHANGED <<ripe, replaced, status, kind, carries, begun, run, crashes>>

\* A chat message takes no events along.
FireMessage(i) ==
  /\ NextInput(i)
  /\ Insert(i, "user", {})
  /\ SetRuntime("IDLE", NoInput)
  /\ UNCHANGED <<evVars, key, begun, run, histVars>>

\* pauseSessionRun on an input that nobody claimed yet: its events stay as they
\* are.  The terminal event is one of the output events.
PauseQueued ==
  LET i == rtInput IN
  /\ "pause" \in Mishap
  /\ i # NoInput
  /\ status[i] = "QUEUED"
  /\ SetStatus(i, "PAUSED")
  /\ begun' = [begun EXCEPT ![i] = TRUE]
  /\ severed' = [severed EXCEPT ![i] = TRUE]
  /\ SetRuntime("PAUSED", NoInput)
  /\ UNCHANGED <<evVars, kind, carries, key, run, crashes>>

CancelRoute(i) ==
  /\ "cancel" \in Mishap
  /\ status[i] = "QUEUED"
  /\ SetStatus(i, "CANCELLED")
  /\ severed' = [severed EXCEPT ![i] = TRUE]
  /\ UNCHANGED <<evVars, kind, carries, key, begun, rtVars, run, crashes>>

--------------------------------------------------------------------------------
(* One pass of the main-session event worker.  Its reading and writing is  *)
(* one synchronous block: failed deliveries are put back, then what is due *)
(* is enqueued, provided that the session is idle.                         *)

\* Mutant: the wrong status is looked for.
RecoverableFromPaused == {e \in Event : /\ evStatus[e] = "materialized"
                                        /\ ~replaced[e]
                                        /\ status[evInput[e]] = "PAUSED"}

\* recoverFailedMaterializedMainSessionEvents.
Recoverable == {e \in Event : /\ evStatus[e] = "materialized"
                              /\ ~replaced[e]
                              /\ status[evInput[e]] = "FAILED"}

KeyAfterRecovery ==
  [i \in Input |-> IF \E e \in Recoverable : evInput[e] = i THEN "none"
                   ELSE KeyTouched(Recoverable)[i]]

NaturallyPaused ==
  /\ rtStatus \in {"IDLE", "ERROR"}
  /\ \A i \in Input : status[i] # "QUEUED"

Due == {e \in Pending : ripe[e]} \cup Recoverable

\* materializableBatchForOwner: questions first.
Batch == IF Due \cap Asks # {} THEN Due \cap Asks ELSE Due

Keyed(i) == KeyAfterRecovery[i] = "batch" /\ carries[i] = Batch

\* The input that enqueueInput returns for the batch.
Target(i) ==
  /\ NaturallyPaused
  /\ Batch # {}
  /\ Keyed(i) \/ (NextInput(i) /\ \A j \in Input : ~Keyed(j))

\* The pass puts failed deliveries back and goes no further: the session is not
\* paused or the pass is cut.  Bound: or there is no input left.
RecoverEvents ==
  /\ Recoverable # {}
  /\ "tear" \in Mishap \/ \A i \in Input : ~Target(i)
  /\ EventsBecome(Recoverable, "pending")
  /\ evInput' = [e \in Event |-> IF e \in Recoverable THEN NoInput ELSE evInput[e]]
  /\ ripe' = [e \in Event |-> e \in Recoverable \/ ripe[e]]
  /\ key' = KeyAfterRecovery
  /\ UNCHANGED <<replaced, status, kind, carries, begun, rtVars, run, histVars>>

\* The pass materialises the batch in input i: the row, the marks on the events
\* and the lifecycle events of the subagents; n is how far it gets.
MaterializeBatch(i, n) ==
  LET put == [e \in Event |-> IF e \in Recoverable THEN "pending" ELSE evStatus[e]]
      home == [e \in Event |-> IF e \in Recoverable THEN NoInput ELSE evInput[e]]
      marked == IF n >= 2 THEN Batch ELSE {} IN
  /\ Target(i)
  /\ n = 3 \/ "tear" \in Mishap
  /\ evStatus' = [e \in Event |-> IF e \in marked THEN "materialized" ELSE put[e]]
  /\ evInput' = [e \in Event |-> IF e \in marked THEN i ELSE home[e]]
  /\ ripe' = [e \in Event |-> e \in Recoverable \/ ripe[e]]
  /\ IF Keyed(i) THEN UNCHANGED <<status, kind, carries>> ELSE Insert(i, "batch", Batch)
  /\ key' = [j \in Input |->
       IF j = i THEN IF n = 1 THEN "batch" ELSE "none"
       ELSE IF key[j] = "batch" /\ carries[j] \cap marked # {} THEN "none"
       ELSE KeyAfterRecovery[j]]
  /\ begun' = [begun EXCEPT ![i] = @ \/ n = 3]
  /\ severed' = [severed EXCEPT ![i] = @ \/ n = 1]
  /\ UNCHANGED <<replaced, rtVars, run, crashes>>

--------------------------------------------------------------------------------
(* The queue worker and the executor *)

\* User inputs go before batches, older inputs before newer ones.
Precedes(i, j) == IF kind[i] = kind[j] THEN i <= j ELSE kind[i] = "user"

Claim(i) ==
  /\ \A j \in Input : status[j] # "CLAIMED"
  /\ status[i] = "QUEUED"
  /\ \A j \in Input : status[j] = "QUEUED" => Precedes(i, j)
  /\ SetStatus(i, "CLAIMED")
  /\ run' = [run EXCEPT ![i] = "gate"]
  /\ UNCHANGED <<evVars, kind, carries, key, begun, rtVars, histVars>>

GatePass(i) ==
  /\ run[i] = "gate"
  /\ run' = [run EXCEPT ![i] = "runner"]
  /\ SetRuntime("BUSY", i)
  /\ UNCHANGED <<evVars, rowVars, histVars>>

\* The executor raises before its runner is spawned, and the queue worker fails
\* the input.  The events stay as they are.
SetupThrow(i) ==
  /\ "throw" \in Mishap
  /\ run[i] = "gate"
  /\ run' = [run EXCEPT ![i] = "idle"]
  /\ SetStatus(i, "FAILED")
  /\ SetRuntime("ERROR", NoInput)
  /\ UNCHANGED <<evVars, kind, carries, key, begun, histVars>>

RunnerHeartbeat(i) ==
  /\ run[i] = "runner"
  /\ SetRuntime("BUSY", i)
  /\ UNCHANGED <<evVars, rowVars, run, histVars>>

RunnerEvent(i) ==
  /\ run[i] = "runner"
  /\ begun' = [begun EXCEPT ![i] = TRUE]
  /\ UNCHANGED <<evVars, status, kind, carries, key, rtVars, run, histVars>>

\* Mutant: the events of a paused run stay as they are.
FinalizeUnlessPaused(i, v, visible) ==
  LET E == IF v = "paused" THEN {} ELSE carries[i]
      again == v = "failed" \/ (kind[i] = "batch" /\ v = "completed" /\ ~visible) IN
  /\ EventsBecome(E, IF again THEN "pending" ELSE "delivered")
  /\ evInput' = [e \in Event |-> IF again /\ e \in E THEN NoInput ELSE evInput[e]]
  /\ ripe' = [e \in Event |-> IF again /\ e \in E THEN FALSE ELSE ripe[e]]
  /\ key' = KeyTouched(E)

\* maybeFinalizeMainSessionEvents: the events of a failed or paused run, and of a
\* batch that completed with nothing to show for it, are pending again, due at
\* once after a pause and with a delay otherwise.
FinalizeEvents(i, v, visible) ==
  LET E == carries[i]
      silent == kind[i] = "batch" /\ v = "completed" /\ ~visible
      again == silent \/ v \in {"failed", "paused"} IN
  /\ EventsBecome(E, IF again THEN "pending" ELSE "delivered")
  /\ evInput' = [e \in Event |-> IF again /\ e \in E THEN NoInput ELSE evInput[e]]
  /\ ripe' = [e \in Event |-> IF again /\ e \in E THEN v = "paused" ELSE ripe[e]]
  /\ key' = KeyTouched(E)

\* The synchronous block that ends a run with verdict v: the terminal event, the
\* row, the runtime state, the events; n is how far it gets.
RunnerExit(i, v, visible, n) ==
  /\ run[i] = "runner"
  /\ n = 3 \/ "tear" \in Mishap
  /\ run' = [run EXCEPT ![i] = "idle"]
  /\ SetStatus(i, StatusOf(v))
  /\ begun' = [begun EXCEPT ![i] = TRUE]
  /\ IF n >= 2 THEN SetRuntime(RuntimeStatusOf(v), NoInput) ELSE UNCHANGED rtVars
  /\ IF n = 3 THEN FinalizeEvents(i, v, visible) ELSE UNCHANGED <<evStatus, evInput, ripe, key>>
  /\ severed' = [severed EXCEPT ![i] = @ \/ n < 3]
  /\ UNCHANGED <<replaced, kind, carries, crashes>>

\* The process dies and is started again.
Crash ==
  /\ crashes < MaxCrashes
  /\ crashes' = crashes + 1
  /\ run' = [i \in Input |-> "idle"]
  /\ UNCHANGED <<evVars, rowVars, rtVars, severed>>

\* The claims of the process that died are recovered when they expire.
ResetRuntime(i, st) ==
  IF rtInput = i THEN SetRuntime(st, NoInput) ELSE UNCHANGED rtVars

Abandoned(i) == status[i] = "CLAIMED" /\ run[i] = "idle"

RequeueClaim(i) ==
  /\ Abandoned(i)
  /\ ~begun[i]
  /\ SetStatus(i, "QUEUED")
  /\ ResetRuntime(i, "IDLE")
  /\ UNCHANGED <<evVars, kind, carries, key, begun, run, histVars>>

FailClaim(i) ==
  /\ Abandoned(i)
  /\ begun[i]
  /\ SetStatus(i, "FAILED")
  /\ ResetRuntime(i, "ERROR")
  /\ UNCHANGED <<evVars, kind, carries, key, begun, run, histVars>>

--------------------------------------------------------------------------------
(* Specification *)

Init ==
  /\ evStatus = [e \in Event |-> "absent"]
  /\ evInput = [e \in Event |-> NoInput]
  /\ ripe = [e \in Event |-> FALSE]
  /\ replaced = [e \in Event |-> FALSE]
  /\ status = [i \in Input |-> "NONE"]
  /\ kind = [i \in Input |-> "none"]
  /\ carries = [i \in Input |-> {}]
  /\ key = [i \in Input |-> "none"]
  /\ begun = [i \in Input |-> FALSE]
  /\ rtStatus = "IDLE"
  /\ rtInput = NoInput
  /\ run = [i \in Input |-> "idle"]
  /\ crashes = 0
  /\ severed = [i \in Input |-> FALSE]

SubagentStep ==
  \/ \E e \in Event : SubagentTurnEnds(e)
  \/ \E s \in Subagent : SubagentContinues(s)
  \/ \E e \in Event : Ripen(e)

RouteStep ==
  \/ \E i \in Input, n \in 1..3 : UserPost(i, n)
  \/ \E i \in Input : UserPostAgain(i)
  \/ \E i \in Input : FireMessage(i)
  \/ PauseQueued
  \/ \E i \in Input : CancelRoute(i)

EventPass(n) == RecoverEvents \/ \E i \in Input : MaterializeBatch(i, n)

Gate(i) == GatePass(i) \/ SetupThrow(i)

RunnerDone(i, n) ==
  \E v \in RunnerVerdict, visible \in BOOLEAN : RunnerExit(i, v, visible, n)

RecoverClaim(i) == RequeueClaim(i) \/ FailClaim(i)

ExecutorStep(i) ==
  \/ Claim(i)
  \/ Gate(i)
  \/ RunnerHeartbeat(i)
  \/ RunnerEvent(i)
  \/ \E n \in 1..3 : RunnerDone(i, n)
  \/ RecoverClaim(i)

Next ==
  \/ SubagentStep
  \/ RouteStep
  \/ \E n \in 1..3 : EventPass(n)
  \/ \E i \in Input : ExecutorStep(i)
  \/ Crash

Spec == Init /\ [][Next]_vars

\* Both workers poll, the gate's calls return and the runner ends; nobody has to
\* send, pause or cancel anything, and no subagent has to end a turn.
Fairness ==
  /\ WF_vars(EventPass(3))
  /\ \A i \in Input :
       /\ WF_vars(Claim(i))
       /\ WF_vars(Gate(i))
       /\ WF_vars(RunnerDone(i, 3))
       /\ WF_vars(RecoverClaim(i))

FairSpec == Spec /\ Fairness

--------------------------------------------------------------------------------
(* Properties *)

EventType ==
  /\ evStatus \in [Event -> EventStatus]
  /\ evInput \in [Event -> Input \cup {NoInput}]
  /\ ripe \in [Event -> BOOLEAN]
  /\ replaced \in [Event -> BOOLEAN]

RowType ==
  /\ status \in [Input -> InputStatus]
  /\ kind \in [Input -> {"none", "user", "batch"}]
  /\ carries \in [Input -> SUBSET Event]
  /\ key \in [Input -> {"none", "client", "batch"}]
  /\ begun \in [Input -> BOOLEAN]

\* The types of the tables and of the run locals.
TypeOK ==
  /\ EventType
  /\ RowType
  /\ rtStatus \in RuntimeStatus
  /\ rtInput \in Input \cup {NoInput}
  /\ run \in [Input -> {"idle", "gate", "runner"}]
  /\ crashes \in 0..MaxCrashes
  /\ severed \in [Input -> BOOLEAN]

\* No executor and no recovery is going to settle the event: its input knows
\* nothing of it, or was cut or withdrawn.
Stranded(e) == e \notin carries[evInput[e]] \/ severed[evInput[e]]


\* An event that an input has taken along is with that input while it is open or
\* has failed (and recovery looks for it); no run ends, and no pass, supersession
\* or request happens, that leaves it behind with a settled input.
CarriersAnswerForTheirEvents ==
  \A e \in Event : evStatus[e] = "materialized" =>
    /\ evInput[e] # NoInput
    /\ \/ Open(evInput[e])
       \/ status[evInput[e]] = "FAILED"
       \/ Stranded(e)

\* The events named by the context of an open input are its own when its run
\* settles them: maybeFinalizeMainSessionEvents writes them without looking at
\* their status or their materialized_input_id.  Only an input that was severed
\* from its events makes an exception.
OpenInputsOwnTheirEvents ==
  \A i \in Input : Open(i) => \A e \in carries[i] :
    \/ evStatus[e] = "materialized" /\ evInput[e] = i
    \/ \E j \in Input : severed[j] /\ e \in carries[j]

\* What was delivered or superseded is not told again, whichever input fails, is
\* recovered or is repeated later, unless a severed input carried it.
SettledEventsAreFinal ==
  [][\A e \in Event :
       evStatus[e] \in {"delivered", "superseded"} /\ evStatus'[e] # evStatus[e] =>
         \E i \in Input : severed[i] /\ e \in carries[i]]_vars

\* What an input took along is delivered, superseded or pending again in the
\* end, through throws, crashes and failed runs.
EveryDeliveryEnds ==
  \A e \in Event :
    evStatus[e] = "materialized" ~> evStatus[e] # "materialized" \/ Stranded(e)

\* The plan's delivery contract: a follow-up is materialised only when the turn of
\* the user is over and the session has reached a real pause.
FollowUpsWaitForAPause ==
  [][\A i \in Input : kind[i] = "none" /\ kind'[i] = "batch" =>
       \A j \in Input : ~(kind[j] = "user" /\ status[j] = "CLAIMED")]_vars

================================================================================

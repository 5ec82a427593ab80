----------------------------- MODULE RunnerProcess -----------------------------
(***************************************************************************)
(* One claimed input in the hands of its runner.  executeRunnerRequest     *)
(* spawns the runner, reads its events from a pipe, and kills it when a    *)
(* deadline passes, when it is idle for too long or when the executor's    *)
(* abort signal fires; the terminal event sends it SIGTERM, which it       *)
(* defers while it compacts its session.  The executor makes a verdict of  *)
(* what came through the pipe and of how the run was cut short, and tries  *)
(* once more when the provider ended a long request.  What the executor    *)
(* does with an event, or after the run, may raise: the timers and the     *)
(* listener are taken down, the runner is left alone, and the run has      *)
(* failed.  The streaming endpoint (NativeRunnerExecutor.stream) spawns    *)
(* the same runner for a consumer that may go away, with watchdogs of its  *)
(* own.                                                                    *)
(*                                                                         *)
(* Time is a count of ticks; a timer that is due fires before time passes  *)
(* (an event loop that is blocked is not modelled), and any other callback *)
(* may run before it.  On POSIX the runner leads a process group, so that  *)
(* every signal reaches it.                                                *)
(***************************************************************************)
EXTENDS Integers, Sequences

CONSTANTS
  HardLimit,   \* from the spawn of the runner
  StartLimit,  \* the harness timeout and its grace, from run_started
  IdleLimit,   \* the idle watchdog
  BeatEvery,   \* the heartbeat of the parent
  Grace,       \* how long the runner defers a SIGTERM
  MaxEvents    \* bound: events of progress, and lines that are none, per runner

ASSUME RunnerProcessAssumption ==
  /\ HardLimit \in Nat \ {0}
  /\ StartLimit \in Nat \ {0}
  /\ BeatEvery \in Nat \ {0}
  /\ IdleLimit \in Nat /\ IdleLimit > BeatEvery
  /\ Grace \in Nat \ {0}
  /\ MaxEvents \in Nat

Off == -1

Kind == {"main", "subagent", "stream"}

\* "terminated" is a run_failed whose text says that the provider ended the request.
Terminal == {"run_completed", "run_failed", "terminated"}
Event == Terminal \cup {"run_started", "progress", "noise"}

VARIABLES
  child,     \* the runner: "boot", "turn", "tail" after its terminal event, "exited"
  grace,     \* ticks left of a SIGTERM that it defers
  pipe,      \* its output that the parent has not read
  reader,    \* the loop over the pipe: "reading", the event it handles, "drained", or
             \* "broken" by an exception
  hard, idle, beat,             \* ticks left on the timers of the parent
  kind,                         \* the caller: "main", "subagent", "stream"
  started, saw,                 \* postStartDeadlineApplied, sawTerminal
  timedOut, idleOut, aborted,   \* what cut the run short
  phase,     \* the executor: "starting", "running", "compacting", "done"
  attempt,
  owned,     \* the input is still claimed by this worker, or the stream consumed
  lost,      \* claimOwnershipLost
  reason,    \* the reason of the abort signal
  delivered, \* deferredTerminalEvent
  verdict,
  \* history
  said,      \* lines of progress of this runner
  emitted,   \* the terminal event that this runner wrote
  age,       \* ticks since its spawn, or since a subagent's last event
  raised,    \* an exception of the executor has ended the run
  cut        \* what killed it after its terminal event had been handled

childVars == <<child, grace, cut>>
outputVars == <<pipe, said, emitted>>
timerVars == <<hard, idle, beat>>
parentVars == <<reader, started, saw, timedOut, idleOut, raised>>
signalVars == <<reason, aborted>>
execVars == <<phase, attempt, owned, lost, delivered, verdict>>
vars == <<childVars, outputVars, timerVars, parentVars, signalVars, execVars, kind, age>>

--------------------------------------------------------------------------------
(* The runner *)

Alive == child # "exited"

\* Leaving the loop by an exception destroys the stream.
Open == reader # "broken"

Write(e) == pipe' = IF Open THEN Append(pipe, e) ELSE pipe

Exit == child' = "exited" /\ grace' = Off

ChildStarts ==
  /\ child = "boot"
  /\ child' = "turn"
  /\ Write("run_started")
  /\ UNCHANGED <<grace, cut, said, emitted, timerVars, parentVars, signalVars, execVars,
                 kind, age>>

ChildSpeaks ==
  /\ child \in {"boot", "turn"}
  /\ said < MaxEvents
  /\ said' = said + 1
  /\ \E e \in {"progress", "noise"} : Write(e)
  /\ UNCHANGED <<childVars, emitted, timerVars, parentVars, signalVars, execVars, kind, age>>

\* Its terminal event; a compaction of the session may follow.
ChildEnds ==
  /\ child \in {"boot", "turn"}
  /\ child' = "tail"
  /\ \E e \in Terminal : Write(e) /\ emitted' = IF Open THEN e ELSE emitted
  /\ UNCHANGED <<grace, cut, said, timerVars, parentVars, signalVars, execVars, kind, age>>

\* It leaves when it is done, or dies.
ChildExits ==
  /\ Alive
  /\ Exit
  /\ UNCHANGED <<cut, outputVars, timerVars, parentVars, signalVars, execVars, kind, age>>

GraceDue ==
  /\ grace = 0
  /\ Exit
  /\ cut' = "grace"
  /\ UNCHANGED <<outputVars, timerVars, parentVars, signalVars, execVars, kind, age>>

\* SIGKILL; what the runner wrote stays in the pipe.
Kill(cause) ==
  IF Alive THEN /\ Exit
                /\ cut' = IF child = "tail" /\ saw THEN cause ELSE cut
           ELSE UNCHANGED childVars

\* SIGTERM: deferred while the turn is not settled.
Terminate ==
  /\ \/ ~Alive /\ UNCHANGED <<child, grace>>
     \/ Alive /\ Exit
     \/ Alive /\ child' = child /\ grace' = IF grace = Off THEN Grace ELSE grace
  /\ UNCHANGED cut

--------------------------------------------------------------------------------
(* The abort signal *)

\* The timers and the listener are there until the loop over the pipe is left.
Listening == phase = "running" /\ reader \notin {"drained", "broken"}

\* Mutant: an abort does not look whether the turn has ended.
HeardAlways == Listening /\ ~timedOut /\ ~idleOut /\ ~aborted

\* abortChild does not return early.
Heard == Listening /\ ~saw /\ ~timedOut /\ ~idleOut /\ ~aborted

\* controller.abort(r): the first reason stays, and the listener is called once.
Abort(r) ==
  IF reason # "none" THEN UNCHANGED <<signalVars, childVars>>
  ELSE /\ reason' = r
       /\ IF Heard THEN aborted' = TRUE /\ Kill("abort")
                   ELSE UNCHANGED <<aborted, childVars>>

\* pauseSessionRun.
Pause ==
  /\ kind # "stream"
  /\ phase # "done"
  /\ reason = "none"
  /\ Abort("user_requested_pause")
  /\ UNCHANGED <<outputVars, timerVars, parentVars, execVars, kind, age>>

\* The claim is recovered: by this process, which aborts the run, or by another.
ClaimTaken ==
  /\ kind # "stream"
  /\ phase # "done"
  /\ owned
  /\ owned' = FALSE
  /\ Abort("claim_expired") \/ UNCHANGED <<signalVars, childVars>>
  /\ UNCHANGED <<outputVars, timerVars, parentVars, phase, attempt, lost, delivered, verdict,
                 kind, age>>

StillOwned == owned /\ ~lost

\* renewClaimLease.
Renew ==
  IF StillOwned THEN UNCHANGED <<lost, signalVars, childVars>>
                ELSE lost' = TRUE /\ Abort("claim_lost")

--------------------------------------------------------------------------------
(* The timers of the parent *)

\* The hard deadline.  executeRunnerRequest does not ask whether the turn has ended;
\* the streaming endpoint has cleared its timers by then.
HardDue ==
  /\ hard = 0
  /\ hard' = Off
  /\ timedOut' = TRUE
  /\ Kill("deadline")
  /\ UNCHANGED <<outputVars, idle, beat, reader, started, saw, idleOut, raised, signalVars,
                 execVars, kind, age>>

IdleDue ==
  /\ idle = 0
  /\ idle' = Off
  /\ idleOut' = (idleOut \/ ~saw)
  /\ IF saw THEN UNCHANGED childVars ELSE Kill("idle")
  /\ UNCHANGED <<outputVars, hard, beat, reader, started, saw, timedOut, raised, signalVars,
                 execVars, kind, age>>

\* Mutant: a heartbeat is no sign of life.
IdleAfterBeatKept == idle

IdleAfterBeat == IdleLimit

\* The heartbeat of executeRunnerRequest resets the idle watchdog and renews the
\* claim, or fails to, which is ignored; that of a stream is a ping to the consumer.
BeatDue ==
  /\ beat = 0
  /\ beat' = BeatEvery
  /\ idle' = IdleAfterBeat
  /\ Renew \/ UNCHANGED <<lost, signalVars, childVars>>
  /\ UNCHANGED <<outputVars, hard, parentVars, phase, attempt, owned, delivered, verdict,
                 kind, age>>

\* Output on stderr, which is read until the runner closes it.
Stderr ==
  /\ kind # "stream"
  /\ Alive
  /\ Listening \/ ~Open
  /\ idle' = IdleLimit
  /\ UNCHANGED <<childVars, outputVars, hard, beat, parentVars, signalVars, execVars, kind,
                 age>>

MaxAge == IF kind = "stream" THEN HardLimit + Grace ELSE HardLimit + StartLimit

Less(t) == IF t = Off THEN Off ELSE t - 1

Tick ==
  /\ Listening \/ ~Open
  /\ 0 \notin {hard, idle, beat, grace}
  /\ hard' = Less(hard)
  /\ idle' = Less(idle)
  /\ beat' = Less(beat)
  /\ grace' = Less(grace)
  /\ age' = IF Alive /\ age <= MaxAge THEN age + 1 ELSE age
  /\ UNCHANGED <<child, cut, outputVars, parentVars, signalVars, execVars, kind>>

--------------------------------------------------------------------------------
(* The loop over the pipe *)

\* A new deadline is never earlier than the old one.
Later == IF hard > StartLimit THEN hard ELSE StartLimit

\* Mutant: the first deadline is cleared and none takes its place.
DeadlineCleared(e) == IF e = "run_started" THEN Off ELSE hard

\* Mutant: progress moves the deadline of every run.
DeadlineSlides(e) ==
  IF (e = "run_started" /\ ~started) \/ (started /\ e \notin Terminal) THEN Later ELSE hard

\* refreshPostStartDeadline at run_started, and at every later event of a subagent.
Deadline(e) ==
  IF (e = "run_started" /\ ~started) \/ (started /\ kind = "subagent" /\ e \notin Terminal)
  THEN Later ELSE hard

HasLine == phase = "running" /\ reader = "reading" /\ pipe # <<>>

\* A line that is no event.
Skip ==
  /\ HasLine
  /\ Head(pipe) = "noise"
  /\ pipe' = Tail(pipe)
  /\ UNCHANGED <<childVars, said, emitted, timerVars, parentVars, signalVars, execVars,
                 kind, age>>

\* An event: the timers, then onEvent, which renews the claim, records a terminal
\* event, and is awaited.  A timer that has fired is armed again like any other.
Receive ==
  LET e == Head(pipe) IN
  /\ HasLine
  /\ kind # "stream"
  /\ e # "noise"
  /\ pipe' = Tail(pipe)
  /\ reader' = e
  /\ idle' = IdleLimit
  /\ hard' = Deadline(e)
  /\ started' = (started \/ e = "run_started")
  /\ age' = IF kind = "subagent" THEN 0 ELSE age
  /\ Renew
  /\ delivered' = IF StillOwned /\ e \in Terminal THEN e ELSE delivered
  /\ UNCHANGED <<said, emitted, beat, saw, timedOut, idleOut, raised, phase, attempt, owned,
                 verdict, kind>>

\* onEvent returns; after a terminal event the runner is told to leave.
Handled ==
  /\ phase = "running"
  /\ reader \in Event
  /\ reader' = "reading"
  /\ \/ /\ reader \in Terminal
        /\ saw' = TRUE
        /\ Terminate
     \/ /\ reader \notin Terminal
        /\ UNCHANGED <<saw, childVars>>
  /\ UNCHANGED <<outputVars, timerVars, started, timedOut, idleOut, raised, signalVars,
                 execVars, kind, age>>

\* onEvent raises, at once or after an await (a store that is locked, a relay that
\* fails): the loop is left and its stream destroyed, the timers and the listener are
\* gone, and the runner is not told.
Raises ==
  /\ phase = "running"
  /\ kind # "stream"
  /\ reader \in Event \/ (HasLine /\ Head(pipe) # "noise")
  /\ reader' = "broken"
  /\ raised' = TRUE
  /\ pipe' = <<>>
  /\ hard' = Off /\ idle' = Off /\ beat' = Off
  /\ UNCHANGED <<childVars, said, emitted, started, saw, timedOut, idleOut, signalVars,
                 execVars, kind, age>>

\* clearWatchdogs at the terminal event.
Watch(t, e) == IF e \in Terminal THEN Off ELSE t

\* An event of a stream is passed on at once.
StreamEvent ==
  LET e == Head(pipe) IN
  /\ HasLine
  /\ kind = "stream"
  /\ e # "noise"
  /\ pipe' = Tail(pipe)
  /\ saw' = (saw \/ e \in Terminal)
  /\ delivered' = IF e \in Terminal THEN e ELSE delivered
  /\ idle' = Watch(IdleLimit, e)
  /\ hard' = Watch(hard, e)
  /\ IF e \in Terminal THEN Terminate ELSE UNCHANGED childVars
  /\ UNCHANGED <<said, emitted, beat, reader, started, timedOut, idleOut, raised, signalVars,
                 phase, attempt, owned, lost, verdict, kind, age>>

\* The consumer of a stream goes away, and the runner is told to leave.
ConsumerGone ==
  /\ kind = "stream"
  /\ Listening
  /\ owned
  /\ owned' = FALSE
  /\ hard' = Off /\ idle' = Off
  /\ Terminate
  /\ UNCHANGED <<outputVars, beat, parentVars, signalVars, phase, attempt, lost, delivered,
                 verdict, kind, age>>

\* The end of the pipe: the timers and the listener are gone.
Drained ==
  /\ phase = "running"
  /\ reader = "reading"
  /\ pipe = <<>>
  /\ ~Alive
  /\ reader' = "drained"
  /\ hard' = Off /\ idle' = Off /\ beat' = Off
  /\ UNCHANGED <<childVars, outputVars, started, saw, timedOut, idleOut, raised, signalVars,
                 execVars, kind, age>>

--------------------------------------------------------------------------------
(* The executor *)

\* Mutant: the reason of the abort is the status of the run.
ReasonVerbatim == reason

Paused == IF reason = "user_requested_pause" THEN "paused" ELSE "run_failed"

\* Mutant: a run that was aborted counts as aborted, whatever it has delivered.
OutcomeOfAbort ==
  IF aborted THEN Paused ELSE IF ~saw THEN "run_failed" ELSE delivered

\* What the executor makes of an execution.
Outcome ==
  IF aborted /\ ~saw THEN Paused ELSE IF ~saw THEN "run_failed" ELSE delivered

Finish(v) == phase' = "done" /\ verdict' = v

\* The runner is gone.  A claim, or a consumer, that was lost gets no verdict.
Settle ==
  /\ phase = "running"
  /\ reader = "drained"
  /\ IF ~StillOwned THEN Finish("abandoned")
     ELSE IF kind # "stream" /\ Outcome = "terminated" /\ attempt = 1
     THEN phase' = "compacting" /\ UNCHANGED verdict
     ELSE Finish(Outcome)
  /\ UNCHANGED <<childVars, outputVars, timerVars, parentVars, signalVars, attempt, owned, lost,
                 delivered, kind, age>>

\* The catch of the executor: a failure, whatever the runner has said.
CatchVerdict == IF StillOwned THEN "run_failed" ELSE "abandoned"

Caught ==
  /\ phase = "running"
  /\ reader = "broken"
  /\ Finish(CatchVerdict)
  /\ UNCHANGED <<childVars, outputVars, timerVars, parentVars, signalVars, attempt, owned, lost,
                 delivered, kind, age>>

\* The executor itself raises: as it asks for a runner, as it makes its verdict, or as
\* it compacts the session.
ExecutorRaises ==
  /\ kind # "stream"
  /\ phase \in {"starting", "compacting"} \/ (phase = "running" /\ reader = "drained")
  /\ raised' = TRUE
  /\ Finish(CatchVerdict)
  /\ UNCHANGED <<childVars, outputVars, timerVars, reader, started, saw, timedOut, idleOut,
                 signalVars, attempt, owned, lost, delivered, kind, age>>

\* executeRunnerRequest is called, for the second time when the session has been
\* compacted: another runner, unless the signal says otherwise.
Spawn ==
  /\ kind \in Kind
  /\ phase \in {"starting", "compacting"}
  /\ attempt' = attempt + 1
  /\ delivered' = "none"
  /\ emitted' = "none" /\ said' = 0 /\ age' = 0 /\ cut' = "none"
  /\ reader' = "reading"
  /\ started' = FALSE /\ saw' = FALSE
  /\ timedOut' = FALSE /\ idleOut' = FALSE
  /\ \/ /\ reason = "none"
        /\ phase' = "running"
        /\ child' = "boot"
        /\ aborted' = FALSE
        /\ hard' = HardLimit /\ idle' = IdleLimit
        /\ beat' = IF kind = "stream" THEN Off ELSE BeatEvery
        /\ UNCHANGED verdict
     \/ /\ reason # "none"
        /\ aborted' = TRUE
        /\ Finish(IF StillOwned THEN Paused ELSE "abandoned")
        /\ UNCHANGED <<child, timerVars>>
  /\ UNCHANGED <<grace, pipe, reason, owned, lost, raised, kind>>

\* There was nothing to compact: the failure stands.
NoRetry ==
  /\ phase = "compacting"
  /\ Finish(delivered)
  /\ UNCHANGED <<childVars, outputVars, timerVars, parentVars, signalVars, attempt, owned, lost,
                 delivered, kind, age>>

--------------------------------------------------------------------------------
(* Specification *)

Init ==
  /\ child = "exited" /\ grace = Off /\ pipe = <<>>
  /\ reader = "reading"
  /\ hard = Off /\ idle = Off /\ beat = Off
  /\ kind \in Kind
  /\ started = FALSE /\ saw = FALSE
  /\ timedOut = FALSE /\ idleOut = FALSE /\ aborted = FALSE
  /\ phase = "starting" /\ attempt = 0
  /\ owned = TRUE /\ lost = FALSE
  /\ reason = "none"
  /\ delivered = "none" /\ verdict = "none"
  /\ said = 0 /\ emitted = "none" /\ age = 0 /\ raised = FALSE /\ cut = "none"

ChildStep == ChildStarts \/ ChildSpeaks \/ ChildEnds \/ ChildExits \/ Stderr

Timers == HardDue \/ IdleDue \/ BeatDue \/ GraceDue

ParentStep ==
  Skip \/ Receive \/ StreamEvent \/ Handled \/ Drained \/ Settle \/ Spawn \/ NoRetry \/ Caught

Next ==
  \/ ChildStep \/ Timers \/ Tick \/ ParentStep \/ Pause \/ ClaimTaken \/ ConsumerGone
  \/ Raises \/ ExecutorRaises

\* Time passes, timers fire, and what the parent awaits returns, or raises; the runner
\* owes nothing.
Fairness == WF_vars(Timers) /\ WF_vars(Tick) /\ WF_vars(ParentStep)

Spec == Init /\ [][Next]_vars /\ Fairness

--------------------------------------------------------------------------------
(* Properties *)

Ticks(n) == Off..n
EndOfTurn == Terminal \cup {"none"}

\* The types of the processes and of the history.
TypeOK ==
  /\ child \in {"boot", "turn", "tail", "exited"}
  /\ grace \in Ticks(Grace)
  /\ pipe \in Seq(Event)
  /\ reader \in (Event \ {"noise"}) \cup {"reading", "drained", "broken"}
  /\ hard \in Ticks(HardLimit + StartLimit)
  /\ idle \in Ticks(IdleLimit)
  /\ beat \in Ticks(BeatEvery)
  /\ started \in BOOLEAN /\ saw \in BOOLEAN /\ raised \in BOOLEAN
  /\ timedOut \in BOOLEAN /\ idleOut \in BOOLEAN /\ aborted \in BOOLEAN
  /\ owned \in BOOLEAN /\ lost \in BOOLEAN
  /\ phase \in {"starting", "running", "compacting", "done"}
  /\ attempt \in 0..2
  /\ reason \in {"none", "user_requested_pause", "claim_expired", "claim_lost"}
  /\ delivered \in EndOfTurn
  /\ verdict \in EndOfTurn \cup {"paused", "abandoned"}
  /\ said \in 0..MaxEvents
  /\ emitted \in EndOfTurn
  /\ age \in 0..(MaxAge + 1)
  /\ cut \in {"none", "deadline", "idle", "abort", "grace"}

\* The verdict is what the runner said, if it got to say anything: no deadline, no
\* pause and no heartbeat that comes late makes a failure, or a pause, of a turn
\* whose terminal event was written.  Only an exception does: it fails the run, even a
\* completed or a paused one.  A run is paused for a user's request only.
VerdictIsTruthful ==
  phase = "done" /\ verdict # "abandoned" =>
    IF raised THEN verdict = "run_failed"
    ELSE /\ emitted # "none" => verdict = emitted
         /\ emitted = "none" => verdict \in {"run_failed", "paused"}
         /\ verdict = "paused" => reason = "user_requested_pause"

\* A compaction that the parent knows of is cut short by the runner's own grace or,
\* unless it is a stream's, by the deadline of the run: by no pause, no lost claim
\* and no idle watchdog.
OnlyDeadlinesCutCompaction ==
  cut \in {"none", "grace"} \/ (cut = "deadline" /\ kind # "stream")

\* A runner that says nothing is not taken for dead: only its deadline ends it, as long
\* as the parent reads its events.  (A stream has no claim to renew, and its idle
\* watchdog does end it.)
SilentRunsSurvive == kind # "stream" /\ Open => ~idleOut

\* No runner outlives its deadlines, whatever it writes and whatever becomes of its run;
\* a subagent's is silent for no longer than that.  The one exception is the runner
\* of a handler that raised: it has no deadline left.
RunsAreBounded == Alive /\ Open => age <= MaxAge

\* Every run comes to a verdict, or to the end of its claim, even if the runner hangs.
EveryRunEnds == <>(phase = "done")

================================================================================

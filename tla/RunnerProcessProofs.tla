-------------------------- MODULE RunnerProcessProofs --------------------------
(***************************************************************************)
(* RunnerProcess for every choice of its limits.  Types first; then three  *)
(* invariants that do not need each other: how the terminal event travels  *)
(* from the pipe to the verdict, what the timers of a live runner still    *)
(* hold, and what may kill a runner that compacts its session.             *)
(***************************************************************************)
EXTENDS RunnerProcessRefinement, TLAPS

\* There are two executions at most.
Attempts ==
  /\ phase = "starting" => attempt = 0
  /\ phase = "running" => attempt \in 1..2
  /\ phase = "compacting" => attempt = 1

Typed == TypeOK /\ Attempts

ChildTyped ==
  /\ child \in {"boot", "turn", "tail", "exited"}
  /\ grace \in Ticks(Grace)
  /\ cut \in {"none", "deadline", "idle", "abort", "grace"}

SignalTyped ==
  /\ reason \in {"none", "user_requested_pause", "claim_expired", "claim_lost"}
  /\ aborted \in BOOLEAN

\* A SIGTERM leaves the types of the runner alone.
LEMMA TerminateTypes == ASSUME ChildTyped, Terminate PROVE ChildTyped'
<1> USE RunnerProcessAssumption DEF RunnerProcessAssumption
<1>1. grace' \in Ticks(Grace)
  BY DEF ChildTyped, Terminate, Exit, Ticks, Off
<1> QED
  BY <1>1 DEF ChildTyped, Terminate, Exit

\* So does a SIGKILL.
LEMMA KillTypes ==
  ASSUME ChildTyped, NEW c \in {"deadline", "idle", "abort"}, Kill(c) PROVE ChildTyped'
<1> USE RunnerProcessAssumption DEF RunnerProcessAssumption
<1>1. grace' \in Ticks(Grace)
  BY DEF ChildTyped, Kill, Exit, childVars, Ticks, Off
<1> QED
  BY <1>1 DEF ChildTyped, Kill, Exit, childVars

\* So does an abort, and it keeps the types of the signal.
LEMMA AbortTypes ==
  ASSUME ChildTyped, SignalTyped, Abort("user_requested_pause") \/ Abort("claim_expired")
                                  \/ Abort("claim_lost")
  PROVE  ChildTyped' /\ SignalTyped'
<1>1. SignalTyped'
  BY DEF Abort, SignalTyped, signalVars
<1>2. Kill("abort") \/ UNCHANGED childVars
  BY DEF Abort
<1>3. ASSUME UNCHANGED childVars PROVE ChildTyped'
  BY <1>3 DEF ChildTyped, childVars, Ticks
<1> QED
  BY <1>1, <1>2, <1>3, KillTypes

\* So does the renewal of the claim.
LEMMA RenewTypes ==
  ASSUME ChildTyped, SignalTyped, lost \in BOOLEAN, Renew
  PROVE  ChildTyped' /\ SignalTyped' /\ lost' \in BOOLEAN
<1>1. CASE StillOwned
  BY <1>1 DEF Renew, childVars, signalVars, ChildTyped, SignalTyped, Ticks
<1>2. CASE ~StillOwned
  BY <1>2, AbortTypes DEF Renew
<1> QED BY <1>1, <1>2

\* The initial states have their types.
LEMMA TypedInit == Init => Typed
<1> USE RunnerProcessAssumption DEF RunnerProcessAssumption
<1> SUFFICES ASSUME Init PROVE Typed
  OBVIOUS
<1>1. pipe \in Seq(Event)
  BY DEF Init
<1>2. age \in 0..(MaxAge + 1)
  BY DEF Init, MaxAge
<1>3. Attempts
  BY DEF Init, Attempts
<1>4. started \in BOOLEAN /\ saw \in BOOLEAN /\ timedOut \in BOOLEAN /\ idleOut \in BOOLEAN
    /\ aborted \in BOOLEAN /\ owned \in BOOLEAN /\ lost \in BOOLEAN
    /\ raised \in BOOLEAN
  BY DEF Init
<1>5. grace \in Ticks(Grace) /\ hard \in Ticks(HardLimit + StartLimit)
    /\ idle \in Ticks(IdleLimit) /\ beat \in Ticks(BeatEvery)
  BY DEF Init, Ticks, Off
<1> QED
  BY <1>1, <1>2, <1>3, <1>4, <1>5 DEF Init, Typed, TypeOK, Kind, EndOfTurn

\* So has every state.
LEMMA TypedAlways == Spec => []Typed
<1> USE RunnerProcessAssumption DEF RunnerProcessAssumption
<1>2. Typed /\ [Next]_vars => Typed'
  <2> SUFFICES ASSUME Typed, [Next]_vars PROVE Typed'
    OBVIOUS
  <2> USE DEF Typed, Attempts, TypeOK, Off, Kind, Ticks, EndOfTurn, Terminal, Event, MaxAge,
        Exit, Write, Open
  <2>1. CASE ChildStep
    <3>1. CASE ChildStarts
      BY <3>1 DEF ChildStarts, childVars, timerVars, parentVars, signalVars, execVars
    <3>2. CASE ChildSpeaks
      BY <3>2 DEF ChildSpeaks, childVars, timerVars, parentVars, signalVars, execVars
    <3>3. CASE ChildEnds
      BY <3>3 DEF ChildEnds, childVars, timerVars, parentVars, signalVars, execVars
    <3>4. CASE ChildExits
      BY <3>4 DEF ChildExits, outputVars, timerVars, parentVars, signalVars, execVars
    <3>5. CASE Stderr
      BY <3>5 DEF Stderr, childVars, outputVars, timerVars, parentVars, signalVars, execVars
    <3> QED BY <2>1, <3>1, <3>2, <3>3, <3>4, <3>5 DEF ChildStep
  <2>2. CASE Timers
    <3>1. CASE HardDue
      BY <3>1 DEF HardDue, Kill, Alive, childVars, outputVars, signalVars, execVars
    <3>2. CASE IdleDue
      BY <3>2 DEF IdleDue, Kill, Alive, childVars, outputVars, signalVars, execVars
    <3>3. CASE BeatDue
      <4>1. ChildTyped' /\ SignalTyped' /\ lost' \in BOOLEAN
        <5>1. ASSUME UNCHANGED <<lost, signalVars, childVars>>
              PROVE  ChildTyped' /\ SignalTyped' /\ lost' \in BOOLEAN
          BY <5>1 DEF ChildTyped, SignalTyped, signalVars, childVars
        <5> QED
          BY <3>3, <5>1, RenewTypes DEF BeatDue, ChildTyped, SignalTyped
      <4> QED
        BY <3>3, <4>1 DEF BeatDue, IdleAfterBeat, ChildTyped, SignalTyped, outputVars, parentVars
    <3>4. CASE GraceDue
      BY <3>4 DEF GraceDue, outputVars, timerVars, parentVars, signalVars, execVars
    <3> QED BY <2>2, <3>1, <3>2, <3>3, <3>4 DEF Timers
  <2>3. CASE Tick
    BY <2>3 DEF Tick, Less, outputVars, parentVars, signalVars, execVars
  <2>4. CASE ParentStep
    <3>1. CASE Skip
      BY <3>1 DEF Skip, HasLine, childVars, timerVars, parentVars, signalVars, execVars
    <3>2. CASE Receive
      <4>1. pipe # <<>> /\ Head(pipe) \in Event \ {"noise"} /\ Tail(pipe) \in Seq(Event)
        BY <3>2 DEF Receive, HasLine
      <4>2. ChildTyped' /\ SignalTyped' /\ lost' \in BOOLEAN
        BY <3>2, RenewTypes DEF Receive, ChildTyped, SignalTyped
      <4>3. hard' \in Ticks(HardLimit + StartLimit)
        BY <3>2 DEF Receive, Deadline, Later
      <4>4. started' \in BOOLEAN /\ delivered' \in EndOfTurn
        BY <3>2, <4>1 DEF Receive
      <4> QED
        BY <3>2, <4>1, <4>2, <4>3, <4>4 DEF Receive, ChildTyped, SignalTyped
    <3>3. CASE StreamEvent
      <4>1. pipe # <<>> /\ Head(pipe) \in Event \ {"noise"} /\ Tail(pipe) \in Seq(Event)
        BY <3>3 DEF StreamEvent, HasLine
      <4>2. ChildTyped'
        <5>1. ASSUME UNCHANGED childVars PROVE ChildTyped'
          BY <5>1 DEF ChildTyped, childVars
        <5> QED
          BY <3>3, <5>1, TerminateTypes DEF StreamEvent, ChildTyped
      <4>3. saw' \in BOOLEAN /\ delivered' \in EndOfTurn
        BY <3>3, <4>1 DEF StreamEvent
      <4> QED
        BY <3>3, <4>1, <4>2, <4>3 DEF StreamEvent, Watch, ChildTyped, signalVars
    <3>4. CASE Handled
      <4>1. ChildTyped' /\ saw' \in BOOLEAN
        <5>1. ASSUME UNCHANGED childVars PROVE ChildTyped'
          BY <5>1 DEF ChildTyped, childVars
        <5> QED
          BY <3>4, <5>1, TerminateTypes DEF Handled, ChildTyped
      <4> QED
        BY <3>4, <4>1 DEF Handled, ChildTyped, outputVars, timerVars, signalVars, execVars
    <3>5. CASE Drained
      BY <3>5 DEF Drained, childVars, outputVars, signalVars, execVars
    <3>6. CASE Settle
      BY <3>6 DEF Settle, Finish, Outcome, Paused, childVars, outputVars, timerVars, parentVars,
                  signalVars
    <3>7. CASE Spawn
      <4>1. attempt' \in 0..2 /\ Attempts'
        BY <3>7 DEF Spawn, Finish
      <4>2. started' \in BOOLEAN /\ saw' \in BOOLEAN /\ timedOut' \in BOOLEAN
            /\ idleOut' \in BOOLEAN /\ aborted' \in BOOLEAN
        BY <3>7 DEF Spawn
      <4>3. child' \in {"boot", "turn", "tail", "exited"}
            /\ verdict' \in EndOfTurn \cup {"paused", "abandoned"}
        BY <3>7 DEF Spawn, Finish, Paused
      <4>4. hard' \in Ticks(HardLimit + StartLimit) /\ idle' \in Ticks(IdleLimit)
            /\ beat' \in Ticks(BeatEvery)
        BY <3>7 DEF Spawn, timerVars
      <4>5. pipe' = pipe /\ grace' = grace /\ kind' = kind /\ reason' = reason
            /\ owned' = owned /\ lost' = lost /\ raised' = raised
            /\ reader' = "reading" /\ said' = 0 /\ emitted' = "none" /\ age' = 0
            /\ cut' = "none" /\ delivered' = "none"
        BY <3>7 DEF Spawn
      <4>6. phase' \in {"starting", "running", "compacting", "done"}
        BY <3>7 DEF Spawn, Finish
      <4>7. MaxAge' = MaxAge /\ 0 \in 0..(MaxAge + 1)
        BY <4>5
      <4> QED
        BY <4>1, <4>2, <4>3, <4>4, <4>5, <4>6, <4>7
    <3>8. CASE NoRetry
      BY <3>8 DEF NoRetry, Finish, childVars, outputVars, timerVars, parentVars, signalVars
    <3>9. CASE Caught
      BY <3>9 DEF Caught, Finish, CatchVerdict, childVars, outputVars, timerVars, parentVars,
                  signalVars
    <3> QED BY <2>4, <3>1, <3>2, <3>3, <3>4, <3>5, <3>6, <3>7, <3>8, <3>9 DEF ParentStep
  <2>5. CASE Pause
    <3>1. ChildTyped' /\ SignalTyped'
      <4>1. ChildTyped /\ SignalTyped
        BY DEF ChildTyped, SignalTyped
      <4>2. Abort("user_requested_pause")
        BY <2>5 DEF Pause
      <4> QED BY ONLY <4>1, <4>2, AbortTypes
    <3> QED
      BY <2>5, <3>1 DEF Pause, ChildTyped, SignalTyped, outputVars, timerVars, parentVars, execVars
  <2>6. CASE ClaimTaken
    <3>1. ChildTyped' /\ SignalTyped'
      <4>1. ASSUME UNCHANGED <<signalVars, childVars>> PROVE ChildTyped' /\ SignalTyped'
        BY <4>1 DEF ChildTyped, SignalTyped, signalVars, childVars
      <4>2. ChildTyped /\ SignalTyped
        BY DEF ChildTyped, SignalTyped
      <4>3. Abort("claim_expired") \/ UNCHANGED <<signalVars, childVars>>
        BY <2>6 DEF ClaimTaken
      <4> QED BY <4>1, <4>2, <4>3, AbortTypes
    <3>2. owned' \in BOOLEAN
      BY <2>6 DEF ClaimTaken
    <3> QED
      BY <2>6, <3>1, <3>2 DEF ClaimTaken, ChildTyped, SignalTyped, outputVars, timerVars, parentVars
  <2>7. CASE ConsumerGone
    <3>1. ChildTyped'
      BY <2>7, TerminateTypes DEF ConsumerGone, ChildTyped
    <3>2. owned' \in BOOLEAN
      BY <2>7 DEF ConsumerGone
    <3> QED
      BY <2>7, <3>1, <3>2 DEF ConsumerGone, ChildTyped, outputVars, parentVars, signalVars
  <2>8. CASE UNCHANGED vars
    BY <2>8 DEF vars, childVars, outputVars, timerVars, parentVars, signalVars, execVars
  <2>9. CASE Raises
    BY <2>9 DEF Raises, childVars, signalVars, execVars
  <2>10. CASE ExecutorRaises
    BY <2>10 DEF ExecutorRaises, Finish, CatchVerdict, childVars, outputVars, timerVars, signalVars
  <2> QED BY <2>1, <2>2, <2>3, <2>4, <2>5, <2>6, <2>7, <2>8, <2>9, <2>10 DEF Next
<1> QED BY TypedInit, <1>2, PTL DEF Spec

\* The types of the processes, for every value of the limits.
THEOREM TypeCorrect == Spec => []TypeOK
<1>1. Typed => TypeOK
  BY DEF Typed
<1> QED BY <1>1, TypedAlways, PTL

--------------------------------------------------------------------------------
(* The terminal event on its way from the runner to the verdict *)

\* What the runner has said is in the pipe, in the hands of the loop, or recorded.
Spoken ==
  /\ \A k \in DOMAIN pipe : pipe[k] \in Terminal => pipe[k] = emitted
  /\ delivered # "none" => delivered = emitted
  /\ emitted # "none" => delivered = emitted \/ \E k \in DOMAIN pipe : pipe[k] = emitted
  /\ delivered # "none" <=> (saw \/ reader \in Terminal)

\* A runner whose loop was broken by an exception may be left, with its pipe destroyed.
Places ==
  /\ child \in {"boot", "turn"} /\ Open => emitted = "none"
  /\ Open /\ (phase # "running" \/ reader = "drained") => child = "exited" /\ pipe = <<>>
  /\ ~Open => pipe = <<>> /\ raised /\ phase \in {"running", "done"} /\ kind # "stream"
  /\ raised => ~Open \/ phase = "done"
  /\ phase = "compacting" => emitted # "none" /\ delivered = emitted

VerdictInv ==
  /\ Typed
  /\ Places
  /\ phase = "running" /\ Open /\ StillOwned => Spoken
  /\ VerdictIsTruthful

\* Taking the first event from the pipe.
LEMMA TailFacts ==
  ASSUME NEW s \in Seq(Event), s # <<>>
  PROVE  /\ Tail(s) \in Seq(Event)
         /\ Head(s) \in Event /\ 1 \in DOMAIN s /\ Head(s) = s[1]
         /\ \A k \in DOMAIN Tail(s) : k + 1 \in DOMAIN s /\ Tail(s)[k] = s[k + 1]
         /\ \A k \in DOMAIN s : k = 1 \/ (k - 1 \in DOMAIN Tail(s) /\ Tail(s)[k - 1] = s[k])
OBVIOUS

\* Writing one.
LEMMA AppendFacts ==
  ASSUME NEW s \in Seq(Event), NEW e
  PROVE  /\ \A k \in DOMAIN Append(s, e) :
              \/ k \in DOMAIN s /\ Append(s, e)[k] = s[k]
              \/ k = Len(s) + 1 /\ Append(s, e)[k] = e
         /\ \A k \in DOMAIN s : k \in DOMAIN Append(s, e) /\ Append(s, e)[k] = s[k]
         /\ Len(s) + 1 \in DOMAIN Append(s, e) /\ Append(s, e)[Len(s) + 1] = e
OBVIOUS

\* An abort and a kill leave all but the runner and the signal alone.
LEMMA AbortKeeps ==
  ASSUME NEW r, Abort(r)
  PROVE  /\ child' = child \/ child' = "exited"
         /\ reason # "none" => reason' = reason
<1>1. CASE reason # "none"
  BY <1>1 DEF Abort, signalVars, childVars
<1>2. CASE reason = "none" /\ Kill("abort")
  BY <1>2 DEF Kill, Exit, childVars
<1>3. CASE reason = "none" /\ UNCHANGED childVars
  BY <1>3 DEF childVars
<1> QED BY <1>1, <1>2, <1>3 DEF Abort

LEMMA RenewKeeps ==
  ASSUME Renew
  PROVE  /\ child' = child \/ child' = "exited"
         /\ reason # "none" => reason' = reason
         /\ StillOwned => lost' = lost
         /\ ~StillOwned => lost' = TRUE
BY AbortKeeps DEF Renew, childVars, signalVars

LEMMA TerminateKeeps == Terminate => child' = child \/ child' = "exited"
BY DEF Terminate, Exit

LEMMA KillKeeps == ASSUME NEW c, Kill(c) PROVE child' = child \/ child' = "exited"
BY DEF Kill, Exit, childVars

\* A step of the timers or of the signal: the runner may die, nothing else moves.
LEMMA Aside ==
  ASSUME VerdictInv, Typed', child' = child \/ child' = "exited",
         reason # "none" => reason' = reason,
         UNCHANGED <<pipe, emitted, reader, saw, phase, delivered, verdict, raised, kind>>,
         StillOwned' => StillOwned
  PROVE  VerdictInv'
<1> USE DEF VerdictInv, Open
<1>1. Places'
  BY DEF Places
<1>2. phase' = "running" /\ Open' /\ StillOwned' => Spoken'
  BY DEF Spoken
<1>3. VerdictIsTruthful'
  BY DEF VerdictIsTruthful
<1> QED BY <1>1, <1>2, <1>3

\* The way of the terminal event is the same in every state.
LEMMA VerdictAlways == Spec => []VerdictInv
<1>1. Init => VerdictInv
  <2> SUFFICES ASSUME Init, Typed PROVE VerdictInv
    BY TypedInit
  <2>1. Places
    BY DEF Init, Places, Open
  <2> QED BY <2>1 DEF Init, VerdictInv, VerdictIsTruthful
<1>2. VerdictInv /\ [Next]_vars /\ Typed' => VerdictInv'
  <2> SUFFICES ASSUME VerdictInv, [Next]_vars, Typed' PROVE VerdictInv'
    OBVIOUS
  <2>t. pipe \in Seq(Event) /\ owned \in BOOLEAN /\ lost \in BOOLEAN
    BY DEF VerdictInv, Typed, TypeOK
  <2> USE DEF Open
  <2>1. CASE ChildStep
    <3>1. CASE ChildStarts
      <4>1. Places' /\ phase' = phase /\ verdict' = verdict /\ (StillOwned' <=> StillOwned)
        BY <3>1 DEF ChildStarts, Write, VerdictInv, Places, StillOwned, execVars, parentVars
      <4>2. phase = "running" /\ Open /\ StillOwned => Spoken'
        BY <2>t, <3>1, AppendFacts
           DEF ChildStarts, VerdictInv, Spoken, Write, Terminal, execVars, parentVars
      <4> QED
        BY <3>1, <4>1, <4>2
           DEF ChildStarts, VerdictInv, VerdictIsTruthful, execVars, signalVars, parentVars
    <3>2. CASE ChildSpeaks
      <4>1. Places' /\ phase' = phase /\ verdict' = verdict /\ (StillOwned' <=> StillOwned)
        BY <3>2 DEF ChildSpeaks, Write, VerdictInv, Places, StillOwned, childVars, execVars,
                    parentVars
      <4>2. phase = "running" /\ Open /\ StillOwned => Spoken'
        BY <2>t, <3>2, AppendFacts
           DEF ChildSpeaks, VerdictInv, Spoken, Write, Terminal, execVars, parentVars
      <4> QED
        BY <3>2, <4>1, <4>2
           DEF ChildSpeaks, VerdictInv, VerdictIsTruthful, execVars, signalVars, parentVars
    <3>3. CASE ChildEnds
      <4>1. CASE ~Open
        BY <3>3, <4>1 DEF ChildEnds, Write, VerdictInv, Places, VerdictIsTruthful, execVars,
                          parentVars, signalVars
      <4>2. CASE Open
        <5>1. PICK e \in Terminal : emitted' = e /\ pipe' = Append(pipe, e)
          BY <3>3, <4>2 DEF ChildEnds, Write
        <5>2. emitted = "none" /\ phase = "running" /\ reader # "drained"
          BY <3>3, <4>2 DEF ChildEnds, VerdictInv, Places
        <5>3. Places' /\ phase' = phase /\ (StillOwned' <=> StillOwned)
          BY <3>3, <4>2, <5>2 DEF ChildEnds, VerdictInv, Places, StillOwned, execVars, parentVars
        <5>4. ASSUME StillOwned PROVE Spoken'
          <6>1. Spoken
            BY <4>2, <5>2, <5>4 DEF VerdictInv
          <6>2. \A k \in DOMAIN pipe : pipe[k] \notin Terminal
            BY <6>1, <5>2 DEF Spoken, Terminal
          <6>3. delivered' = "none" /\ saw' = saw /\ reader' = reader
                /\ ~(saw \/ reader \in Terminal)
            BY <3>3, <5>2, <6>1 DEF Spoken, ChildEnds, execVars, parentVars
          <6> QED
            BY <2>t, <5>1, <6>2, <6>3, AppendFacts DEF Spoken
        <5> QED
          BY <5>2, <5>3, <5>4 DEF VerdictInv, VerdictIsTruthful
      <4> QED BY <4>1, <4>2
    <3>4. CASE ChildExits
      BY <3>4, Aside DEF ChildExits, Exit, outputVars, parentVars, signalVars, execVars, StillOwned
    <3>5. CASE Stderr
      BY <3>5, Aside DEF Stderr, childVars, outputVars, parentVars, signalVars, execVars, StillOwned
    <3> QED BY <2>1, <3>1, <3>2, <3>3, <3>4, <3>5 DEF ChildStep
  <2>2. CASE Timers
    <3>1. CASE HardDue
      BY <3>1, Aside, KillKeeps DEF HardDue, outputVars, signalVars, execVars, StillOwned
    <3>2. CASE IdleDue
      BY <3>2, Aside, KillKeeps DEF IdleDue, childVars, outputVars, signalVars, execVars, StillOwned
    <3>3. CASE BeatDue
      <4>1. Renew \/ UNCHANGED <<lost, signalVars, childVars>>
        BY <3>3 DEF BeatDue
      <4>2. CASE Renew
        BY <2>t, <3>3, <4>2, Aside, RenewKeeps DEF BeatDue, outputVars, parentVars, StillOwned
      <4>3. CASE UNCHANGED <<lost, signalVars, childVars>>
        BY <3>3, <4>3, Aside
           DEF BeatDue, outputVars, parentVars, signalVars, childVars, StillOwned
      <4> QED BY <4>1, <4>2, <4>3
    <3>4. CASE GraceDue
      BY <3>4, Aside DEF GraceDue, Exit, outputVars, parentVars, signalVars, execVars, StillOwned
    <3> QED BY <2>2, <3>1, <3>2, <3>3, <3>4 DEF Timers
  <2>3. CASE Tick
    BY <2>3, Aside DEF Tick, outputVars, parentVars, signalVars, execVars, StillOwned
  <2>4. CASE ParentStep
    <3>1. CASE Skip
      <4>1. Places' /\ phase' = phase /\ verdict' = verdict /\ (StillOwned' <=> StillOwned)
        BY <3>1 DEF Skip, HasLine, VerdictInv, Places, StillOwned, childVars, execVars, parentVars
      <4>2. ASSUME phase = "running", StillOwned PROVE Spoken'
        <5>0. Open
          BY <3>1 DEF Skip, HasLine
        <5>1. pipe # <<>> /\ pipe' = Tail(pipe) /\ pipe[1] = "noise" /\ emitted' = emitted
              /\ delivered' = delivered /\ reader' = reader /\ saw' = saw
          BY <2>t, <3>1 DEF Skip, HasLine, execVars, parentVars
        <5>2. Spoken
          BY <4>2, <5>0 DEF VerdictInv
        <5>3. \A k \in DOMAIN pipe' : pipe'[k] \in Terminal => pipe'[k] = emitted'
          BY <2>t, <5>1, <5>2, TailFacts DEF Spoken
        <5>4. emitted' # "none"
              => delivered' = emitted' \/ \E k \in DOMAIN pipe' : pipe'[k] = emitted'
          <6> SUFFICES ASSUME emitted # "none", delivered # emitted
                       PROVE  \E k \in DOMAIN pipe' : pipe'[k] = emitted
            BY <5>1
          <6>1. emitted \in Terminal
            BY DEF VerdictInv, Typed, TypeOK, EndOfTurn
          <6>2. PICK k \in DOMAIN pipe : pipe[k] = emitted
            BY <5>2 DEF Spoken
          <6>3. k # 1
            BY <5>1, <6>1, <6>2 DEF Terminal
          <6> QED
            BY <2>t, <5>1, <6>2, <6>3, TailFacts
        <5> QED BY <5>1, <5>2, <5>3, <5>4 DEF Spoken
      <4> QED
        BY <3>1, <4>1, <4>2
           DEF Skip, VerdictInv, VerdictIsTruthful, execVars, signalVars, parentVars
    <3>2. CASE Receive
      <4>1. phase = "running" /\ reader = "reading" /\ pipe # <<>> /\ pipe' = Tail(pipe)
            /\ reader' = Head(pipe) /\ emitted' = emitted /\ phase' = phase /\ saw' = saw
            /\ Renew /\ owned' = owned /\ raised' = raised /\ reader' # "broken"
            /\ kind' = kind
        BY <3>2 DEF Receive, HasLine, VerdictInv, Typed, TypeOK, Event, Terminal
      <4>2. Places'
        BY <4>1, <2>t, RenewKeeps, TailFacts DEF VerdictInv, Places, Event, Terminal
      <4>3. StillOwned' => StillOwned
        BY <4>1, <2>t, RenewKeeps DEF StillOwned
      <4>4. ASSUME StillOwned PROVE Spoken'
        <5>1. delivered' = IF Head(pipe) \in Terminal THEN Head(pipe) ELSE delivered
          BY <3>2, <4>4 DEF Receive
        <5>2. Spoken
          BY <4>1, <4>4 DEF VerdictInv
        <5>3. \A k \in DOMAIN pipe' : pipe'[k] \in Terminal => pipe'[k] = emitted'
          BY <2>t, <4>1, <5>2, TailFacts DEF Spoken
        <5>4. delivered' # "none" => delivered' = emitted'
          BY <2>t, <4>1, <5>1, <5>2, TailFacts DEF Spoken
        <5>5. emitted' # "none"
                 => delivered' = emitted' \/ \E k \in DOMAIN pipe' : pipe'[k] = emitted'
          <6> SUFFICES ASSUME emitted # "none", delivered' # emitted
                       PROVE  \E k \in DOMAIN pipe' : pipe'[k] = emitted
            BY <4>1
          <6>1. emitted \in Terminal
            BY DEF VerdictInv, Typed, TypeOK, EndOfTurn
          <6>2. delivered # emitted
            BY <2>t, <4>1, <5>1, <5>2, TailFacts DEF Spoken
          <6>3. PICK k \in DOMAIN pipe : pipe[k] = emitted
            BY <5>2, <6>2 DEF Spoken
          <6>4. k # 1
            BY <2>t, <4>1, <5>1, <6>1, <6>3, TailFacts
          <6> QED
            BY <2>t, <4>1, <6>3, <6>4, TailFacts
        <5>6. delivered' # "none" <=> (saw' \/ reader' \in Terminal)
          BY <4>1, <5>1, <5>2 DEF Spoken, Terminal
        <5> QED BY <5>3, <5>4, <5>5, <5>6 DEF Spoken
      <4> QED
        BY <4>1, <4>2, <4>3, <4>4 DEF VerdictInv, VerdictIsTruthful
    <3>3. CASE StreamEvent
      <4>1. phase = "running" /\ reader = "reading" /\ pipe # <<>> /\ pipe' = Tail(pipe)
            /\ reader' = reader /\ emitted' = emitted /\ phase' = phase /\ raised' = raised
            /\ owned' = owned /\ lost' = lost /\ (Terminate \/ UNCHANGED childVars)
            /\ saw' = (saw \/ Head(pipe) \in Terminal)
            /\ delivered' = IF Head(pipe) \in Terminal THEN Head(pipe) ELSE delivered
        BY <3>3 DEF StreamEvent, HasLine
      <4>2. Places'
        BY <4>1, TerminateKeeps DEF VerdictInv, Places, childVars
      <4>4. ASSUME StillOwned PROVE Spoken'
        <5>2. Spoken
          BY <4>1, <4>4 DEF VerdictInv
        <5>3. \A k \in DOMAIN pipe' : pipe'[k] \in Terminal => pipe'[k] = emitted'
          BY <2>t, <4>1, <5>2, TailFacts DEF Spoken
        <5>4. delivered' # "none" => delivered' = emitted'
          BY <2>t, <4>1, <5>2, TailFacts DEF Spoken
        <5>5. emitted' # "none"
                 => delivered' = emitted' \/ \E k \in DOMAIN pipe' : pipe'[k] = emitted'
          <6> SUFFICES ASSUME emitted # "none", delivered' # emitted
                       PROVE  \E k \in DOMAIN pipe' : pipe'[k] = emitted
            BY <4>1
          <6>1. emitted \in Terminal
            BY DEF VerdictInv, Typed, TypeOK, EndOfTurn
          <6>2. delivered # emitted
            BY <2>t, <4>1, <5>2, TailFacts DEF Spoken
          <6>3. PICK k \in DOMAIN pipe : pipe[k] = emitted
            BY <5>2, <6>2 DEF Spoken
          <6>4. k # 1
            BY <2>t, <4>1, <6>1, <6>3, TailFacts
          <6> QED
            BY <2>t, <4>1, <6>3, <6>4, TailFacts
        <5>6. delivered' # "none" <=> (saw' \/ reader' \in Terminal)
          BY <4>1, <5>2 DEF Spoken, Terminal
        <5> QED BY <5>3, <5>4, <5>5, <5>6 DEF Spoken
      <4> QED
        BY <4>1, <4>2, <4>4 DEF VerdictInv, VerdictIsTruthful, StillOwned
    <3>4. CASE Handled
      <4>1. phase = "running" /\ reader \in Event /\ reader' = "reading"
            /\ (Terminate \/ UNCHANGED childVars)
            /\ (saw' <=> (saw \/ reader \in Terminal))
        BY <3>4 DEF Handled, childVars
      <4>2. UNCHANGED <<pipe, emitted, phase, owned, lost, delivered, verdict, reason, raised>>
        BY <3>4 DEF Handled, outputVars, execVars, signalVars
      <4>3. Places'
        BY <4>1, <4>2, TerminateKeeps DEF VerdictInv, Places, childVars, Event, Terminal
      <4>4. StillOwned => Spoken'
        BY <4>1, <4>2 DEF VerdictInv, Spoken, Event, Terminal
      <4> QED
        BY <4>1, <4>2, <4>3, <4>4 DEF VerdictInv, VerdictIsTruthful, StillOwned
    <3>5. CASE Drained
      <4>1. phase = "running" /\ reader = "reading" /\ reader' = "drained" /\ pipe = <<>>
            /\ child = "exited"
        BY <3>5 DEF Drained, Alive
      <4>2. UNCHANGED <<child, pipe, emitted, phase, owned, lost, delivered, verdict, reason, saw,
                        raised>>
        BY <3>5 DEF Drained, childVars, outputVars, execVars, signalVars
      <4>3. Places'
        BY <4>1, <4>2 DEF VerdictInv, Places
      <4>4. StillOwned => Spoken'
        BY <4>1, <4>2 DEF VerdictInv, Spoken, Terminal
      <4> QED
        BY <4>1, <4>2, <4>3, <4>4 DEF VerdictInv, VerdictIsTruthful, StillOwned
    <3>6. CASE Settle
      <4>1. phase = "running" /\ reader = "drained" /\ child = "exited" /\ pipe = <<>> /\ ~raised
        BY <3>6 DEF Settle, VerdictInv, Places
      <4>2. UNCHANGED <<child, pipe, emitted, reader, owned, lost, delivered, reason, saw, aborted,
                        raised>>
        BY <3>6 DEF Settle, childVars, outputVars, parentVars, signalVars
      <4>3. CASE ~StillOwned
        <5>1. phase' = "done" /\ verdict' = "abandoned"
          BY <3>6, <4>3 DEF Settle, Finish
        <5> QED
          BY <4>1, <4>2, <5>1 DEF VerdictInv, Places, VerdictIsTruthful
      <4>4. CASE StillOwned
        <5>1. Spoken
          BY <4>1, <4>4 DEF VerdictInv
        <5>2. delivered = emitted /\ (saw <=> emitted # "none")
          BY <4>1, <5>1 DEF Spoken, Terminal
        <5>3. emitted # "none" => Outcome = emitted
          BY <5>2 DEF Outcome
        <5>4. emitted = "none" => Outcome \in {"run_failed", "paused"}
          BY <5>2 DEF Outcome, Paused
        <5>5. Outcome = "paused" => reason = "user_requested_pause"
          BY <5>2 DEF Outcome, Paused, VerdictInv, Typed, TypeOK, EndOfTurn, Terminal
        <5>6. \/ phase' = "compacting" /\ Outcome = "terminated"
              \/ phase' = "done" /\ verdict' = Outcome
          BY <3>6, <4>4 DEF Settle, Finish
        <5> QED
          BY <4>1, <4>2, <5>2, <5>3, <5>4, <5>5, <5>6 DEF VerdictInv, Places, VerdictIsTruthful
      <4> QED BY <4>3, <4>4
    <3>7. CASE Spawn
      <4>1. emitted' = "none" /\ delivered' = "none" /\ saw' = FALSE /\ reader' = "reading"
            /\ UNCHANGED <<pipe, reason, owned, lost, raised>>
        BY <3>7 DEF Spawn
      <4>2. child = "exited" /\ pipe = <<>> /\ ~raised
        BY <3>7 DEF Spawn, VerdictInv, Places
      <4>3. CASE phase' = "running"
        <5>1. Places' /\ Spoken'
          BY <4>1, <4>2, <4>3 DEF Places, Spoken, Terminal
        <5> QED
          BY <4>3, <5>1 DEF VerdictInv, VerdictIsTruthful
      <4>4. CASE child' = child /\ Finish(IF StillOwned THEN Paused ELSE "abandoned")
        <5>1. Places'
          BY <4>1, <4>2, <4>4 DEF Places, Finish
        <5>2. VerdictIsTruthful'
          BY <4>1, <4>2, <4>4 DEF VerdictIsTruthful, Finish, Paused
        <5> QED
          BY <4>4, <5>1, <5>2 DEF VerdictInv, Finish
      <4> QED
        BY <3>7, <4>3, <4>4 DEF Spawn
    <3>8. CASE NoRetry
      <4>1. phase = "compacting" /\ emitted # "none" /\ delivered = emitted
            /\ child = "exited" /\ pipe = <<>> /\ ~raised /\ reader # "broken"
        BY <3>8 DEF NoRetry, VerdictInv, Places
      <4>2. UNCHANGED <<child, pipe, emitted, reader, delivered, reason, raised>> /\ phase' = "done"
            /\ verdict' = delivered
        BY <3>8 DEF NoRetry, Finish, childVars, outputVars, parentVars, signalVars
      <4>3. emitted \in Terminal
        BY <4>1 DEF VerdictInv, Typed, TypeOK, EndOfTurn
      <4> QED
        BY <4>1, <4>2, <4>3 DEF VerdictInv, Places, VerdictIsTruthful, Terminal
    <3>9. CASE Caught
      BY <3>9 DEF Caught, Finish, CatchVerdict, VerdictInv, Places, VerdictIsTruthful, childVars,
                  outputVars, parentVars, signalVars
    <3> QED BY <2>4, <3>1, <3>2, <3>3, <3>4, <3>5, <3>6, <3>7, <3>8, <3>9 DEF ParentStep
  <2>5. CASE Pause
    BY <2>5, Aside, AbortKeeps DEF Pause, outputVars, parentVars, execVars, StillOwned
  <2>6. CASE ClaimTaken
    <3>1. (child' = child \/ child' = "exited") /\ (reason # "none" => reason' = reason)
      BY <2>6, AbortKeeps DEF ClaimTaken, childVars, signalVars
    <3> QED
      BY <2>6, <3>1, Aside DEF ClaimTaken, outputVars, parentVars, StillOwned
  <2>7. CASE ConsumerGone
    BY <2>7, Aside, TerminateKeeps DEF ConsumerGone, outputVars, parentVars, signalVars, StillOwned
  <2>8. CASE UNCHANGED vars
    BY <2>8, Aside DEF vars, childVars, outputVars, parentVars, signalVars, execVars, StillOwned
  <2>9. CASE Raises
    BY <2>9 DEF Raises, VerdictInv, Places, VerdictIsTruthful, childVars, execVars, signalVars
  <2>10. CASE ExecutorRaises
    BY <2>10 DEF ExecutorRaises, Finish, CatchVerdict, VerdictInv, Places, VerdictIsTruthful,
                 childVars, outputVars, signalVars
  <2> QED BY <2>1, <2>2, <2>3, <2>4, <2>5, <2>6, <2>7, <2>8, <2>9, <2>10 DEF Next
<1> QED BY <1>1, <1>2, TypedAlways, PTL DEF Spec

\* The verdict is what the runner said, or that of a failure if an exception ended the
\* run, for every value of the limits.
THEOREM Truthful == Spec => []VerdictIsTruthful
<1>1. VerdictInv => VerdictIsTruthful
  BY DEF VerdictInv
<1> QED BY <1>1, VerdictAlways, PTL

--------------------------------------------------------------------------------
(* What may cut a compaction *)

\* A stream has no deadline left once it has seen the terminal event, and passes its
\* events on at once.
CutInv ==
  /\ Typed
  /\ OnlyDeadlinesCutCompaction
  /\ kind = "stream" => reader \in {"reading", "drained"}
  /\ kind = "stream" /\ saw => hard = Off

\* An abort never cuts a runner short that has told its terminal event.
LEMMA AbortCuts == ASSUME NEW r, Abort(r) PROVE cut' = cut
BY DEF Abort, Heard, Kill, childVars

LEMMA RenewCuts == Renew => cut' = cut
BY AbortCuts DEF Renew, childVars

\* Only deadlines cut a compaction, for every value of the limits.
THEOREM CompactionIsKept == Spec => []OnlyDeadlinesCutCompaction
<1>1. Init => CutInv
  <2> SUFFICES ASSUME Init, Typed PROVE CutInv
    BY TypedInit
  <2> QED BY DEF Init, CutInv, OnlyDeadlinesCutCompaction
<1>2. CutInv /\ [Next]_vars /\ Typed' => CutInv'
  <2> SUFFICES ASSUME CutInv, [Next]_vars, Typed' PROVE CutInv'
    OBVIOUS
  <2> USE DEF CutInv, OnlyDeadlinesCutCompaction
  <2>1. CASE /\ cut' = cut /\ kind' = kind /\ saw' = saw /\ (hard' = hard \/ hard' = Off)
             /\ reader' = reader \/ reader' = "drained"
    BY <2>1
  <2>2. CASE ChildStep
    <3>1. cut' = cut /\ kind' = kind /\ hard' = hard
      BY <2>2 DEF ChildStep, ChildStarts, ChildSpeaks, ChildEnds, ChildExits, Stderr, childVars,
                  timerVars
    <3>2. UNCHANGED parentVars
      BY <2>2 DEF ChildStep, ChildStarts, ChildSpeaks, ChildEnds, ChildExits, Stderr
    <3> QED BY <2>1, <3>1, <3>2 DEF parentVars
  <2>3. CASE HardDue
    <3>1. cut' = cut \/ (cut' = "deadline" /\ saw)
      BY <2>3 DEF HardDue, Kill, childVars
    <3>2. kind' = kind /\ reader' = reader /\ hard = 0 /\ hard' = Off
      BY <2>3 DEF HardDue
    <3> QED BY <3>1, <3>2 DEF Off
  <2>4. CASE IdleDue
    <3>1. cut' = cut
      BY <2>4 DEF IdleDue, Kill, childVars
    <3> QED BY <2>1, <2>4, <3>1 DEF IdleDue
  <2>5. CASE BeatDue
    BY <2>1, <2>5, RenewCuts DEF BeatDue, parentVars, childVars
  <2>6. CASE GraceDue
    BY <2>6 DEF GraceDue, timerVars, parentVars
  <2>7. CASE Tick
    BY <2>1, <2>7 DEF Tick, Less, parentVars, Off
  <2>8. CASE Skip
    BY <2>1, <2>8 DEF Skip, childVars, timerVars, parentVars
  <2>9. CASE Receive
    BY <2>9, RenewCuts DEF Receive
  <2>10. CASE StreamEvent
    BY <2>10 DEF StreamEvent, Terminate, Watch, childVars
  <2>11. CASE Handled
    <3>1. cut' = cut /\ kind' = kind /\ hard' = hard
      BY <2>11 DEF Handled, Terminate, childVars, timerVars
    <3>2. kind # "stream"
      BY <2>11 DEF Handled, Event, Terminal
    <3> QED BY <3>1, <3>2
  <2>12. CASE Drained
    BY <2>1, <2>12 DEF Drained, childVars
  <2>13. CASE Settle
    BY <2>1, <2>13 DEF Settle, childVars, timerVars, parentVars
  <2>14. CASE Spawn
    BY <2>14 DEF Spawn
  <2>15. CASE NoRetry
    BY <2>1, <2>15 DEF NoRetry, childVars, timerVars, parentVars
  <2>16. CASE Pause
    BY <2>1, <2>16, AbortCuts DEF Pause, timerVars, parentVars
  <2>17. CASE ClaimTaken
    BY <2>1, <2>17, AbortCuts DEF ClaimTaken, childVars, timerVars, parentVars
  <2>18. CASE ConsumerGone
    BY <2>1, <2>18 DEF ConsumerGone, Terminate, parentVars
  <2>19. CASE UNCHANGED vars
    BY <2>1, <2>19 DEF vars, childVars, timerVars, parentVars
  <2>20. CASE Raises
    BY <2>20 DEF Raises, childVars
  <2>21. CASE Caught \/ ExecutorRaises
    BY <2>1, <2>21 DEF Caught, ExecutorRaises, childVars, timerVars, parentVars
  <2> QED
    BY <2>2, <2>3, <2>4, <2>5, <2>6, <2>7, <2>8, <2>9, <2>10, <2>11, <2>12, <2>13, <2>14, <2>15,
       <2>16, <2>17, <2>18, <2>19, <2>20, <2>21 DEF Next, Timers, ParentStep
<1>3. CutInv => OnlyDeadlinesCutCompaction
  BY DEF CutInv
<1> QED BY <1>1, <1>2, <1>3, TypedAlways, PTL DEF Spec

--------------------------------------------------------------------------------
(* What the timers of a live runner still hold *)

\* As long as the pipe is read, the idle watchdog has longer to go than the heartbeat
\* that sets it back.  What is written on stderr sets it once more when the loop is broken.
SilentInv ==
  /\ Typed
  /\ SilentRunsSurvive
  /\ kind # "stream" =>
       IF Listening THEN beat # Off /\ idle > beat ELSE beat = Off /\ (Open => idle = Off)

\* A runner that says nothing is not taken for dead, for every value of the limits.
THEOREM SilenceIsNoDeath == Spec => []SilentRunsSurvive
<1> USE RunnerProcessAssumption DEF RunnerProcessAssumption, Off
<1>1. Init => SilentInv
  <2> SUFFICES ASSUME Init, Typed PROVE SilentInv
    BY TypedInit
  <2> QED BY DEF Init, SilentInv, SilentRunsSurvive, Listening
<1>2. SilentInv /\ VerdictInv /\ [Next]_vars /\ Typed' => SilentInv'
  <2> SUFFICES ASSUME SilentInv, VerdictInv, [Next]_vars, Typed', kind # "stream" PROVE SilentInv'
    BY DEF SilentInv, SilentRunsSurvive, Next, ChildStep, ChildStarts, ChildSpeaks, ChildEnds,
           ChildExits, Stderr, Timers, HardDue, IdleDue, BeatDue, GraceDue, Tick, ParentStep, Skip,
           Receive, StreamEvent, Handled, Drained, Settle, Spawn, NoRetry, Pause, ClaimTaken,
           ConsumerGone, Raises, Caught, ExecutorRaises, vars
  <2>t. idle \in -1..IdleLimit /\ beat \in -1..BeatEvery
        /\ (reader \in Event => reader \notin {"drained", "broken"})
        /\ (Open \/ phase \in {"running", "done"})
    BY DEF SilentInv, VerdictInv, Places, Typed, TypeOK, Ticks, Event, Terminal
  <2> USE DEF SilentInv, SilentRunsSurvive, Listening, Open
  <2>1. CASE UNCHANGED <<kind, idleOut, idle, beat, phase, reader>>
    BY <2>1
  <2>2. CASE ChildStep
    <3>1. UNCHANGED <<kind, parentVars, execVars, beat>> /\ (idle' = idle \/ Stderr)
      BY <2>2 DEF ChildStep, ChildStarts, ChildSpeaks, ChildEnds, ChildExits, Stderr, timerVars
    <3>2. CASE idle' = idle
      BY <2>1, <3>1, <3>2 DEF parentVars, execVars
    <3>3. CASE Stderr
      BY <2>t, <3>1, <3>3 DEF Stderr, parentVars, execVars
    <3> QED BY <3>1, <3>2, <3>3
  <2>3. CASE HardDue
    BY <2>1, <2>3 DEF HardDue, execVars
  <2>4. CASE IdleDue
    BY <2>t, <2>4 DEF IdleDue
  <2>5. CASE BeatDue
    BY <2>t, <2>5 DEF BeatDue, IdleAfterBeat, parentVars
  <2>6. CASE GraceDue
    BY <2>1, <2>6 DEF GraceDue, timerVars, parentVars, execVars
  <2>7. CASE Tick
    BY <2>t, <2>7 DEF Tick, Less, parentVars, execVars
  <2>8. CASE Skip
    BY <2>1, <2>8 DEF Skip, timerVars, parentVars, execVars
  <2>9. CASE Receive
    <3>1. reader' \in Event /\ reader = "reading" /\ phase = "running"
      BY <2>9 DEF Receive, HasLine, SilentInv, Typed, TypeOK
    <3>2. reader' \notin {"drained", "broken"}
      BY <3>1 DEF Event, Terminal
    <3> QED BY <2>t, <2>9, <3>1, <3>2 DEF Receive
  <2>10. CASE StreamEvent
    BY <2>10 DEF StreamEvent
  <2>11. CASE Handled
    BY <2>t, <2>11 DEF Handled, timerVars, execVars
  <2>12. CASE Drained
    BY <2>12 DEF Drained, execVars
  <2>13. CASE Settle
    BY <2>13 DEF Settle, Finish, timerVars, parentVars
  <2>14. CASE Spawn
    BY <2>t, <2>14 DEF Spawn, Finish, timerVars
  <2>15. CASE NoRetry
    BY <2>15 DEF NoRetry, Finish, timerVars, parentVars
  <2>16. CASE Pause
    BY <2>1, <2>16 DEF Pause, timerVars, parentVars, execVars
  <2>17. CASE ClaimTaken
    BY <2>1, <2>17 DEF ClaimTaken, timerVars, parentVars
  <2>18. CASE ConsumerGone
    BY <2>18 DEF ConsumerGone
  <2>19. CASE UNCHANGED vars
    BY <2>1, <2>19 DEF vars, timerVars, parentVars, execVars
  <2>20. CASE Raises
    BY <2>20 DEF Raises, execVars
  <2>21. CASE Caught \/ ExecutorRaises
    BY <2>t, <2>21 DEF Caught, ExecutorRaises, Finish, timerVars, parentVars
  <2> QED
    BY <2>2, <2>3, <2>4, <2>5, <2>6, <2>7, <2>8, <2>9, <2>10, <2>11, <2>12, <2>13, <2>14, <2>15,
       <2>16, <2>17, <2>18, <2>19, <2>20, <2>21 DEF Next, Timers, ParentStep
<1>3. SilentInv => SilentRunsSurvive
  BY DEF SilentInv
<1> QED BY <1>1, <1>2, <1>3, TypedAlways, VerdictAlways, PTL DEF Spec

\* A live runner has a deadline left that comes in time; a stream that was told to leave
\* has the grace of its runner.
InTime ==
  IF kind # "stream"
  THEN hard # Off /\ age + hard <= HardLimit + StartLimit /\ (~started => age + hard <= HardLimit)
  ELSE IF grace = Off THEN hard # Off /\ age + hard <= HardLimit
  ELSE age + grace <= HardLimit + Grace

BoundInv ==
  /\ ~Alive => grace = Off
  /\ Alive /\ Open => InTime
  /\ Alive /\ ~Open => hard = Off

\* What moves a timer leaves a later one, or the runner has gone.
LEMMA BoundAlways == Spec => [](VerdictInv /\ BoundInv)
<1> USE RunnerProcessAssumption DEF RunnerProcessAssumption, Off, Open
<1>1. Init => BoundInv
  BY DEF Init, BoundInv, Alive
<1>2. VerdictInv /\ BoundInv /\ [Next]_vars /\ Typed' => BoundInv'
  <2> SUFFICES ASSUME VerdictInv, BoundInv, [Next]_vars, Typed' PROVE BoundInv'
    OBVIOUS
  <2>t. /\ hard \in -1..(HardLimit + StartLimit) /\ grace \in -1..Grace /\ age \in Nat
        /\ Places /\ started \in BOOLEAN
    BY DEF VerdictInv, Typed, TypeOK, Ticks, MaxAge
  <2>u. hard' \in -1..(HardLimit + StartLimit) /\ started' \in BOOLEAN
    BY DEF Typed, TypeOK, Ticks
  <2>1. CASE (Alive' <=> Alive) /\ (Open' <=> Open) /\ grace' = grace /\ hard' = hard
             /\ age' = age /\ kind' = kind /\ (started' <=> started)
    BY <2>1 DEF BoundInv, InTime
  <2>2. CASE child' = "exited" /\ grace' = -1
    BY <2>2 DEF BoundInv, Alive
  <2>3. ASSUME NEW c, Kill(c) PROVE child' = "exited" /\ grace' = -1
    BY <2>3 DEF Kill, Exit, childVars, BoundInv, Alive
  <2>4. ASSUME Abort("user_requested_pause") \/ Abort("claim_expired") \/ Abort("claim_lost")
        PROVE  (child' = "exited" /\ grace' = -1) \/ (child' = child /\ grace' = grace)
    BY <2>3, <2>4 DEF Abort, childVars
  <2>5. ASSUME Renew
        PROVE  (child' = "exited" /\ grace' = -1) \/ (child' = child /\ grace' = grace)
    BY <2>4, <2>5 DEF Renew, childVars
  <2>6. Alive /\ Open => phase = "running"
    BY <2>t DEF Places, Alive
  <2>7. CASE ChildStep
    <3>1. CASE ChildExits
      BY <2>2, <3>1 DEF ChildExits, Exit
    <3>2. CASE ChildStarts \/ ChildSpeaks \/ ChildEnds \/ Stderr
      <4>1. grace' = grace /\ hard' = hard /\ age' = age /\ kind' = kind /\ Alive /\ Alive'
        BY <3>2 DEF ChildStarts, ChildSpeaks, ChildEnds, Stderr, Alive, childVars, timerVars
      <4>2. UNCHANGED parentVars
        BY <3>2 DEF ChildStarts, ChildSpeaks, ChildEnds, Stderr
      <4> QED BY <2>1, <2>6, <4>1, <4>2 DEF parentVars
    <3> QED BY <2>7, <3>1, <3>2 DEF ChildStep
  <2>8. CASE HardDue
    BY <2>2, <2>3, <2>8 DEF HardDue
  <2>9. CASE IdleDue
    <3>1. UNCHANGED childVars \/ Kill("idle")
      BY <2>9 DEF IdleDue
    <3> QED
      BY <2>1, <2>2, <2>3, <2>6, <2>9, <3>1 DEF IdleDue, childVars, Alive
  <2>10. CASE BeatDue
    <3>1. Renew \/ UNCHANGED <<lost, signalVars, childVars>>
      BY <2>10 DEF BeatDue
    <3> QED BY <2>1, <2>2, <2>5, <2>10, <3>1 DEF BeatDue, parentVars, childVars, Alive
  <2>11. CASE GraceDue
    BY <2>2, <2>11 DEF GraceDue, Exit
  <2>12. CASE Tick
    <3>1. kind' = kind /\ started' = started /\ child' = child /\ reader' = reader
      BY <2>12 DEF Tick, parentVars, execVars
    <3>2. hard # 0 /\ grace # 0 /\ hard' = (IF hard = -1 THEN -1 ELSE hard - 1)
          /\ grace' = (IF grace = -1 THEN -1 ELSE grace - 1) /\ (age' = age + 1 \/ age' = age)
      BY <2>12 DEF Tick, Less
    <3> QED BY <2>t, <3>1, <3>2 DEF BoundInv, InTime, Alive
  <2>13. CASE Skip
    BY <2>1, <2>6, <2>13 DEF Skip, childVars, timerVars, parentVars, Alive
  <2>14. CASE Receive
    <3>0. Open /\ Open'
      BY <2>14 DEF Receive, HasLine, VerdictInv, Typed, TypeOK, Event, Terminal
    <3>1. kind' = kind /\ kind # "stream" /\ Renew
          /\ age' = (IF kind = "subagent" THEN 0 ELSE age) /\ hard' = Deadline(Head(pipe))
          /\ (started' <=> (started \/ Head(pipe) = "run_started"))
      BY <2>14 DEF Receive
    <3>2. CASE child' = child /\ grace' = grace
      <4>1. ASSUME Alive PROVE InTime'
        <5>1. hard # -1 /\ age + hard <= HardLimit + StartLimit
              /\ (~started => age + hard <= HardLimit)
          BY <3>0, <3>1, <4>1 DEF BoundInv, InTime
        <5>2. hard' # -1 /\ age' + hard' <= HardLimit + StartLimit
          BY <2>t, <2>u, <3>1, <5>1 DEF Deadline, Later
        <5>3. ~started' => hard' = hard
          BY <3>1 DEF Deadline
        <5> QED BY <2>t, <3>1, <5>1, <5>2, <5>3 DEF InTime
      <4> QED BY <3>0, <3>2, <4>1 DEF BoundInv, Alive
    <3> QED BY <2>2, <2>5, <3>1, <3>2
  <2>15. CASE StreamEvent
    <3>1. kind' = kind /\ kind = "stream" /\ age' = age /\ Open /\ Open'
          /\ IF Head(pipe) \in Terminal THEN Terminate ELSE hard' = hard /\ UNCHANGED childVars
      BY <2>15 DEF StreamEvent, Watch, HasLine
    <3> QED
      BY <2>t, <3>1 DEF BoundInv, InTime, Terminate, Exit, Alive, childVars
  <2>16. CASE Handled
    <3>1. kind' = kind /\ age' = age /\ hard' = hard /\ Open /\ Open' /\ (started' <=> started)
          /\ (Terminate \/ UNCHANGED childVars)
      BY <2>16 DEF Handled, timerVars, execVars, Event, Terminal
    <3> QED
      BY <2>t, <3>1 DEF BoundInv, InTime, Terminate, Exit, Alive, childVars
  <2>17. CASE Drained
    BY <2>17 DEF Drained, BoundInv, Alive, childVars
  <2>18. CASE Settle
    BY <2>1, <2>6, <2>18 DEF Settle, childVars, timerVars, parentVars, Alive
  <2>19. CASE Spawn
    <3>1. child = "exited" /\ grace' = -1 /\ kind' = kind /\ age' = 0 /\ ~started'
      BY <2>t, <2>19 DEF Spawn, Places, BoundInv, Alive
    <3>2. child' = "exited" \/ hard' = HardLimit
      BY <2>19, <3>1 DEF Spawn, Finish
    <3>3. Open'
      BY <2>19 DEF Spawn
    <3> QED BY <3>1, <3>2, <3>3 DEF BoundInv, InTime, Alive
  <2>20. CASE NoRetry
    BY <2>1, <2>6, <2>20 DEF NoRetry, childVars, timerVars, parentVars, Alive
  <2>21. CASE Pause
    BY <2>1, <2>2, <2>4, <2>6, <2>21 DEF Pause, timerVars, parentVars, Alive
  <2>22. CASE ClaimTaken
    BY <2>1, <2>2, <2>4, <2>6, <2>22
       DEF ClaimTaken, signalVars, childVars, timerVars, parentVars, Alive
  <2>23. CASE ConsumerGone
    <3>1. kind' = kind /\ kind = "stream" /\ age' = age /\ reader' = reader /\ Open /\ Terminate
      BY <2>23 DEF ConsumerGone, Listening, parentVars
    <3> QED BY <2>t, <3>1 DEF BoundInv, InTime, Terminate, Exit, Alive
  <2>24. CASE UNCHANGED vars
    BY <2>1, <2>6, <2>24 DEF vars, childVars, timerVars, parentVars, Alive
  <2>25. CASE Raises
    BY <2>25 DEF Raises, BoundInv, Alive, childVars
  <2>26. CASE Caught \/ ExecutorRaises
    BY <2>1, <2>26 DEF Caught, ExecutorRaises, childVars, timerVars, parentVars, Alive
  <2> QED
    BY <2>7, <2>8, <2>9, <2>10, <2>11, <2>12, <2>13, <2>14, <2>15, <2>16, <2>17, <2>18, <2>19,
       <2>20, <2>21, <2>22, <2>23, <2>24, <2>25, <2>26 DEF Next, Timers, ParentStep
<1> QED BY <1>1, <1>2, TypedAlways, VerdictAlways, PTL DEF Spec

\* No runner outlives its deadlines, for every value of the limits, unless the handler
\* of one of its events raised.
THEOREM Bounded == Spec => []RunsAreBounded
<1>1. Typed /\ BoundInv => RunsAreBounded
  <2> USE RunnerProcessAssumption DEF RunnerProcessAssumption, Off
  <2> SUFFICES ASSUME Typed, BoundInv, Alive, Open PROVE age <= MaxAge
    BY DEF RunsAreBounded
  <2>1. hard \in -1..(HardLimit + StartLimit) /\ grace \in -1..Grace /\ age \in Nat
    BY DEF Typed, TypeOK, Ticks, MaxAge
  <2> QED BY <2>1 DEF BoundInv, InTime, MaxAge
<1> QED BY <1>1, BoundAlways, TypedAlways, PTL

\* What is alive will be ended: its deadline is set or, once it was told to leave,
\* its grace.  A runner whose loop was broken by an exception has no deadline: at most
\* the idle watchdog that its own output on stderr has set.
LiveRunnersHaveADeadline ==
  Alive => IF Open THEN hard # Off \/ grace # Off ELSE hard = Off /\ beat = Off /\ raised

\* The timers of the parent run while it reads the pipe.
TimersInv == ~Listening => hard = Off /\ beat = Off /\ (Open => idle = Off)

LEMMA TimersNext == TimersInv /\ VerdictInv /\ [Next]_vars => TimersInv'
<1> SUFFICES ASSUME TimersInv, VerdictInv, [Next]_vars PROVE TimersInv'
  OBVIOUS
<1> USE DEF TimersInv, Listening, Open
<1>1. CASE UNCHANGED <<phase, reader, timerVars>>
  BY <1>1 DEF timerVars
<1>2. CASE Listening' /\ Listening
  BY <1>2
<1>3. CASE ChildStarts \/ ChildSpeaks \/ ChildEnds \/ ChildExits \/ Skip \/ GraceDue \/ Pause \/ ClaimTaken
  BY <1>1, <1>3 DEF ChildStarts, ChildSpeaks, ChildEnds, ChildExits, Skip, GraceDue, Pause,
                    ClaimTaken, parentVars, execVars
<1>4. CASE HardDue \/ IdleDue \/ BeatDue
  BY <1>4 DEF HardDue, IdleDue, BeatDue, Off, parentVars, execVars
<1>5. CASE Stderr \/ Tick \/ ConsumerGone
  BY <1>5 DEF Stderr, Tick, Less, ConsumerGone, parentVars, execVars
<1>6. CASE Receive \/ StreamEvent
  <2>1. phase' = "running" /\ reader' \in Event \cup {"reading"}
    BY <1>6 DEF Receive, StreamEvent, HasLine, VerdictInv, Typed, TypeOK
  <2> QED BY <2>1 DEF Event, Terminal
<1>7. CASE Handled
  BY <1>7 DEF Handled, execVars, timerVars, Event, Terminal
<1>8. CASE Drained
  BY <1>8 DEF Drained, execVars
<1>9. CASE Settle \/ NoRetry \/ Caught \/ ExecutorRaises
  BY <1>9 DEF Settle, NoRetry, Caught, ExecutorRaises, Finish, timerVars, parentVars
<1>10. CASE Spawn
  BY <1>10 DEF Spawn, Finish, timerVars, VerdictInv, Places
<1>11. CASE UNCHANGED vars
  BY <1>1, <1>11 DEF vars, parentVars, execVars
<1>12. CASE Raises
  BY <1>12 DEF Raises
<1> QED
  BY <1>3, <1>4, <1>5, <1>6, <1>7, <1>8, <1>9, <1>10, <1>11, <1>12
     DEF Next, ChildStep, Timers, ParentStep

LEMMA TimersAlways == Spec => [](VerdictInv /\ TimersInv)
<1>1. Init => TimersInv
  BY DEF Init, TimersInv
<1> QED BY <1>1, TimersNext, VerdictAlways, PTL DEF Spec

\* No state has a live runner that nothing will end, but the one that a raising handler
\* leaves: without a deadline, the wait for the end of the pipe would have none either.
THEOREM DeadlinesAreSet == Spec => []LiveRunnersHaveADeadline
<1>1. VerdictInv /\ BoundInv /\ TimersInv => LiveRunnersHaveADeadline
  <2> SUFFICES ASSUME VerdictInv, BoundInv, TimersInv, Alive
               PROVE  IF Open THEN hard # Off \/ grace # Off ELSE hard = Off /\ beat = Off /\ raised
    BY DEF LiveRunnersHaveADeadline
  <2>1. CASE Open
    BY <2>1 DEF BoundInv, InTime
  <2>2. CASE ~Open
    BY <2>2 DEF VerdictInv, Places, TimersInv, Listening, Open
  <2> QED BY <2>1, <2>2
<1> QED BY <1>1, BoundAlways, TimersAlways, PTL

\* A run that is not being executed leaves nothing behind: no runner, no output that
\* nobody read, and no timer that could fire into the next execution.  A run broken by
\* an exception may leave its runner, and with it the idle watchdog.
NothingOutlivesTheRun ==
  phase # "running" =>
    /\ pipe = <<>> /\ {hard, beat} = {Off}
    /\ Open => ~Alive /\ {idle, grace} = {Off}

\* When a run has ended, been given up or is between two runners, its output and its
\* deadlines are gone, and so is the runner, unless the run was broken by an exception.
THEOREM NothingIsLeft == Spec => []NothingOutlivesTheRun
<1>1. VerdictInv /\ BoundInv /\ TimersInv => NothingOutlivesTheRun
  BY DEF VerdictInv, Places, BoundInv, TimersInv, Listening, Alive, Open, NothingOutlivesTheRun
<1> QED BY <1>1, BoundAlways, TimersAlways, PTL

--------------------------------------------------------------------------------
(* The outcome of a run *)

\* The projection of the state that RunOutcome knows.
outcomeVars == <<phase, attempt, emitted, raised, verdict>>

LEMMA ChildOutcome ==
  ASSUME VerdictInv, ChildEnds PROVE Run!Next \/ UNCHANGED outcomeVars
<1> SUFFICES ASSUME Open PROVE Run!Next
  BY DEF ChildEnds, outcomeVars, parentVars, execVars
<1>1. PICK e \in Terminal : emitted' = e
  BY DEF ChildEnds
<1>2. phase = "running" /\ emitted = "none" /\ ~raised
      /\ UNCHANGED <<phase, attempt, raised, verdict>>
  BY DEF ChildEnds, VerdictInv, Places, Open, execVars, parentVars
<1>3. Run!Say(e)
  BY <1>1, <1>2 DEF Run!Say
<1> QED BY <1>3 DEF Run!Next

\* What the executor makes of an execution is what the runner said.
LEMMA OutcomeIsTruthful ==
  ASSUME VerdictInv, phase = "running", reader = "drained", StillOwned PROVE Run!Truthful(Outcome)
<1>1. pipe = <<>> /\ Spoken /\ (delivered # "none" <=> saw)
  BY DEF VerdictInv, Places, Open, Spoken, Terminal
<1>2. saw => Outcome = emitted /\ emitted # "none"
  BY <1>1 DEF Spoken, Outcome
<1>3. ~saw => emitted = "none" /\ Outcome \in {"run_failed", "paused"}
  BY <1>1 DEF Spoken, Outcome, Paused
<1> QED BY <1>2, <1>3 DEF Run!Truthful

LEMMA SettleOutcome == ASSUME VerdictInv, Settle PROVE Run!Next
<1>1. phase = "running" /\ reader = "drained" /\ ~raised /\ UNCHANGED <<attempt, emitted, raised>>
  BY DEF Settle, VerdictInv, Places, Open, outputVars, parentVars
<1>2. CASE ~StillOwned
  <2>1. Run!End("abandoned")
    BY <1>1, <1>2 DEF Settle, Finish, Run!End
  <2> QED BY <2>1 DEF Run!Next
<1>3. CASE StillOwned /\ phase' = "compacting"
  <2>1. Outcome = "terminated" /\ attempt = 1 /\ UNCHANGED verdict
    BY <1>1, <1>3 DEF Settle, Finish
  <2>2. emitted = "terminated"
    BY <1>1, <1>3, <2>1, OutcomeIsTruthful DEF Run!Truthful
  <2>3. Run!Compact
    BY <1>1, <1>3, <2>1, <2>2 DEF Run!Compact
  <2> QED BY <2>3 DEF Run!Next
<1>4. CASE StillOwned /\ phase' # "compacting"
  <2>1. phase' = "done" /\ verdict' = Outcome
    BY <1>1, <1>4 DEF Settle, Finish
  <2>2. Run!Truthful(Outcome)
    BY <1>1, <1>4, OutcomeIsTruthful
  <2> DEFINE v == Outcome
  <2>3. v \in Terminal \cup {"run_failed", "paused"}
    BY <2>2 DEF Run!Truthful, VerdictInv, Typed, TypeOK, EndOfTurn
  <2>4. Run!End(v)
    BY <1>1, <2>1, <2>2 DEF Run!End
  <2> QED BY <2>3, <2>4 DEF Run!Next
<1> QED BY <1>2, <1>3, <1>4

LEMMA SpawnOutcome == ASSUME VerdictInv, Spawn PROVE Run!Next
<1>1. Run!Untried /\ attempt' = attempt + 1 /\ emitted' = "none" /\ raised' = raised
  BY DEF Spawn, Run!Untried
<1>2. CASE reason = "none"
  <2>1. Run!Try
    BY <1>1, <1>2 DEF Spawn, Run!Try
  <2> QED BY <2>1 DEF Run!Next
<1>3. CASE reason # "none"
  <2>1. phase' = "done" /\ verdict' \in {"run_failed", "paused", "abandoned"}
    BY <1>3 DEF Spawn, Finish, Paused
  <2>2. PICK v \in {"run_failed", "paused", "abandoned"} : verdict' = v
    BY <2>1
  <2>3. Run!Forgo(v)
    BY <1>1, <2>1, <2>2 DEF Run!Forgo
  <2> QED BY <2>3 DEF Run!Next
<1> QED BY <1>2, <1>3

LEMMA NoRetryOutcome == ASSUME VerdictInv, NoRetry PROVE Run!Next
<1>1. phase = "compacting" /\ delivered = emitted /\ emitted \in Terminal /\ ~raised
  BY DEF NoRetry, VerdictInv, Places, Typed, TypeOK, EndOfTurn
<1>2. Run!End(emitted)
  BY <1>1 DEF NoRetry, Finish, outputVars, parentVars, Run!End
<1> QED BY <1>1, <1>2 DEF Run!Next

\* An exception breaks the run, at once or in the catch of the executor.
LEMMA RaisedOutcome ==
  ASSUME VerdictInv, Raises \/ Caught \/ ExecutorRaises PROVE Run!Next
<1>1. CASE Raises
  BY <1>1 DEF Raises, execVars, Run!Break, Run!Next
<1>2. CASE Caught \/ ExecutorRaises
  <2>1. phase # "done" /\ phase' = "done" /\ raised' = TRUE /\ UNCHANGED <<attempt, emitted>>
        /\ verdict' \in {"run_failed", "abandoned"}
    BY <1>2 DEF Caught, ExecutorRaises, Finish, CatchVerdict, VerdictInv, Places, Open, outputVars,
                parentVars
  <2>2. PICK v \in {"run_failed", "abandoned"} : verdict' = v
    BY <2>1
  <2>3. Run!BrokenEnd(v)
    BY <2>1, <2>2 DEF Run!BrokenEnd
  <2> QED BY <2>3 DEF Run!Next
<1> QED BY <1>1, <1>2

LEMMA OtherOutcome ==
  ASSUME [Next]_vars
  PROVE  \/ ChildEnds \/ Settle \/ Spawn \/ NoRetry
         \/ Raises \/ Caught \/ ExecutorRaises \/ UNCHANGED outcomeVars
<1> USE DEF outcomeVars, execVars, outputVars, parentVars
<1>1. CASE ChildStep
  BY <1>1 DEF ChildStep, ChildStarts, ChildSpeaks, ChildExits, Stderr
<1>2. CASE Timers
  BY <1>2 DEF Timers, HardDue, IdleDue, BeatDue, GraceDue
<1>3. CASE ParentStep
  BY <1>3 DEF ParentStep, Skip, Receive, StreamEvent, Handled, Drained
<1>4. CASE Tick \/ Pause \/ ClaimTaken \/ ConsumerGone \/ UNCHANGED vars
  BY <1>4 DEF Tick, Pause, ClaimTaken, ConsumerGone, vars
<1> QED BY <1>1, <1>2, <1>3, <1>4 DEF Next

\* An execution comes to one verdict, that of its last runner's last word or, if an
\* exception breaks it, that of a failure, and tries a
\* second runner only after a first that was ended by the provider: RunnerProcess
\* implements RunOutcome, for every value of the limits.
THEOREM RunsHaveOneOutcome == Spec => ImplementsOutcome
<1>1. Init => Run!Init
  BY DEF Init, Run!Init
<1>2. VerdictInv /\ [Next]_vars => [Run!Next]_(Run!vars)
  BY OtherOutcome, ChildOutcome, SettleOutcome, SpawnOutcome, NoRetryOutcome, RaisedOutcome
     DEF outcomeVars, Run!vars
<1> QED BY <1>1, <1>2, VerdictAlways, PTL DEF Spec, ImplementsOutcome, Run!Spec

================================================================================

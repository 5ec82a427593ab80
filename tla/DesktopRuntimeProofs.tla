-------------------------- MODULE DesktopRuntimeProofs --------------------------
(***************************************************************************)
(* DesktopRuntime for any number of children, callers and restarts.  Types *)
(* first, by the groups of variables that a helper of the module assigns   *)
(* together; then that no child is lost; then that the children fill one   *)
(* slot; then that restarts reach every child.                             *)
(***************************************************************************)
EXTENDS DesktopRuntimeRefinement, TLAPS

StateTyped ==
  /\ status \in Status
  /\ lastError \in Error
  /\ record \in [pid : Runtime \cup {NoChild}, ours : BOOLEAN]

QueueTyped ==
  /\ lock \in Seq(Job)
  /\ at \in [Actor -> ActorPlace]

PlaceTyped ==
  /\ QueueTyped
  /\ job \in Step
  /\ told \in [Asker -> [status : Status, error : Error]]

ChildTyped ==
  /\ life \in [Runtime -> {"none", "launched", "unready", "healthy", "killed"}]
  /\ outdated \subseteq Child
  /\ exit \in [Runtime -> {"none", "event", "clean", "crashed", "refresh"}]

HandleTyped ==
  /\ handle \in Child \cup {NoChild}
  /\ intent \subseteq Child

RestTyped ==
  /\ tried \subseteq Asker
  /\ deferred \in BOOLEAN /\ timer \in BOOLEAN /\ late \in BOOLEAN
  /\ events \in 0..MaxEvents

\* The groups are the type invariant.
LEMMA Groups ==
  TypeOK <=> StateTyped /\ PlaceTyped /\ ChildTyped /\ HandleTyped /\ RestTyped
  BY DEF TypeOK, StateTyped, PlaceTyped, QueueTyped, ChildTyped, HandleTyped, RestTyped

\* So they are after a step.
LEMMA GroupsNext ==
  ASSUME StateTyped', PlaceTyped', ChildTyped', HandleTyped', RestTyped' PROVE TypeOK'
  BY DEF TypeOK, StateTyped, PlaceTyped, QueueTyped, ChildTyped, HandleTyped, RestTyped

\* The groups survive what leaves their variables alone.
LEMMA StateKept == ASSUME StateTyped, UNCHANGED stateVars PROVE StateTyped'
  BY DEF StateTyped, stateVars

\* As above, for the lock and the callers.
LEMMA PlaceKept ==
  ASSUME PlaceTyped, UNCHANGED <<lock, job, at, told>> PROVE PlaceTyped'
  BY DEF PlaceTyped, QueueTyped

\* As above, for the processes.
LEMMA ChildKept == ASSUME ChildTyped, UNCHANGED <<life, outdated, exit>> PROVE ChildTyped'
  BY DEF ChildTyped

\* As above, for the handle.
LEMMA HandleKept == ASSUME HandleTyped, UNCHANGED <<handle, intent>> PROVE HandleTyped'
  BY DEF HandleTyped

\* The number of mishaps stays bounded.
LEMMA EventsTyped ==
  ASSUME RestTyped, Event \/ UNCHANGED events PROVE events' \in 0..MaxEvents
  BY DesktopRuntimeAssumption DEF RestTyped, Event, DesktopRuntimeAssumption

\* A step that leaves requests, restarts and quit alone.
LEMMA RestKept ==
  ASSUME RestTyped, UNCHANGED <<tried, deferVars, late>>, Event \/ UNCHANGED events
  PROVE  RestTyped'
  BY EventsTyped DEF RestTyped, deferVars

--------------------------------------------------------------------------------
(* What the helpers assign has its type *)

\* refreshRuntimeStatus.
LEMMA RefreshTypes == ASSUME TypeOK, Refreshed PROVE StateTyped'
<1>1. Served \in Runtime \cup {NoChild}
  BY DEF TypeOK, Served, Runtime
<1>2. Unavailable \in Status
  BY DEF Unavailable, Status
<1>3. CASE Healthy /\ status' = "running" /\ lastError' = "none" /\ Persisted(Served)
  BY <1>1, <1>3 DEF Persisted, StateTyped, Status, Error
<1>4. CASE status' = Unavailable /\ lastError' \in {"none", lastError} /\ UNCHANGED record
  BY <1>2, <1>4 DEF TypeOK, StateTyped, Error
<1> QED
  BY <1>3, <1>4 DEF Refreshed

\* The status after a failure.
LEMMA FailedTypes ==
  ASSUME NEW e \in Error, NEW pid \in Runtime \cup {NoChild}, Failed(e, pid) PROVE StateTyped'
  BY DEF Failed, Persisted, StateTyped, Status

\* The status after a stop.
LEMMA HaltedTypes == ASSUME Halted PROVE StateTyped'
  BY DEF Halted, Persisted, StateTyped, Status, Error

\* A job ends.
LEMMA DoneTypes == ASSUME PlaceTyped, StateTyped', lock # <<>>, Done PROVE PlaceTyped'
<1>1. lock' \in Seq(Job)
  BY DEF PlaceTyped, QueueTyped, Done
<1>2. job' \in Step
  BY DEF Done, Step, NoStep
<1>3. at' \in [Actor -> ActorPlace]
  BY DEF PlaceTyped, QueueTyped, Done, ActorPlace
<1>4. told' \in [Asker -> [status : Status, error : Error]]
  BY DEF PlaceTyped, StateTyped, Done
<1> QED
  BY <1>1, <1>2, <1>3, <1>4 DEF PlaceTyped, QueueTyped

\* A job goes on.
LEMMA GotoTypes == ASSUME PlaceTyped, NEW s \in Step, Goto(s) PROVE PlaceTyped'
  BY DEF PlaceTyped, QueueTyped, Goto

\* The phases that the jobs enter.
LEMMA StepTypes ==
  ASSUME TypeOK
  PROVE  /\ \A s \in {"refresh", "preflight", "relaunch", "spawn", "boot", "booted",
                      "probe", "signalled"} :
              \A c \in Runtime \cup {NoChild} : Begun(s, c) \in Step
         /\ \A p \in {"preflight", "relaunch", "stop"} : Detached(p) \in Step
         /\ \A s \in {"drain", "listener", "killed"} : [job EXCEPT !.at = s] \in Step
         /\ NoChild \in Runtime \cup {NoChild} /\ handle \in Runtime \cup {NoChild}
         /\ job.child \in Runtime \cup {NoChild}
  BY DEF TypeOK, Begun, Detached, Step, Runtime

\* A job is queued.
LEMMA EnqueueTypes ==
  ASSUME QueueTyped, NEW k \in {"start", "stop"}, NEW a \in Actor, Enqueue(k, a)
  PROVE  QueueTyped'
  BY DEF QueueTyped, Enqueue, Queued, Job, ActorPlace

\* A process ends.
LEMMA GoneTypes == ASSUME ChildTyped, NEW c \in Runtime, Gone(c) PROVE ChildTyped'
  BY DEF ChildTyped, Gone

--------------------------------------------------------------------------------
(* Types *)

\* The initial states have their types.
LEMMA TypesInit == Init => TypeOK
<1> USE DesktopRuntimeAssumption DEF DesktopRuntimeAssumption
<1> SUFFICES ASSUME Init PROVE TypeOK
  OBVIOUS
<1>1. ChildTyped
  BY DEF Init, ChildTyped, Runtime
<1>2. StateTyped
  BY DEF Init, StateTyped, Status, Error, Runtime
<1>3. lock \in Seq(Job)
  BY DEF Init, Job
<1>4. job \in Step
  BY DEF Init, Step, NoStep
<1>5. PlaceTyped
  BY <1>3, <1>4 DEF Init, PlaceTyped, QueueTyped, ActorPlace, Untold, Status, Error
<1>6. HandleTyped /\ RestTyped
  <2>1. events \in {0, 1} /\ late = FALSE /\ deferred = FALSE /\ timer = FALSE
    BY DEF Init
  <2>2. handle = NoChild /\ intent = {} /\ tried = {}
    BY DEF Init
  <2>3. events \in 0..MaxEvents
    BY <2>1
  <2> QED BY <2>1, <2>2, <2>3 DEF HandleTyped, RestTyped
<1> QED
  BY <1>1, <1>2, <1>5, <1>6
  DEF TypeOK, StateTyped, PlaceTyped, QueueTyped, ChildTyped, HandleTyped, RestTyped

\* The steps of processes and windows keep the types.
LEMMA TypesOfProcesses ==
  ASSUME TypeOK,
         \/ \E c \in Runtime : Listen(c) \/ Ready(c) \/ Falter(c) \/ Exits(c)
         \/ \E c \in Child : ExitEvent(c) \/ ExitHandled(c)
         \/ Look
  PROVE  TypeOK'
<1> USE Groups, GroupsNext
<1>1. ASSUME NEW c \in Runtime, Listen(c) \/ Ready(c) \/ Falter(c) \/ Exits(c) PROVE TypeOK'
  <2>1. ChildTyped'
    <3>1. CASE Gone(c)
      BY <3>1, GoneTypes
    <3>2. CASE ~Gone(c)
      BY <1>1, <3>2 DEF Listen, Ready, Falter, Exits, ChildTyped
    <3> QED BY <3>1, <3>2
  <2>2. StateTyped' /\ PlaceTyped' /\ HandleTyped'
    BY <1>1, StateKept, PlaceKept, HandleKept
    DEF Listen, Ready, Falter, Exits, ChildOnly, lockVars, callVars
  <2>3. RestTyped'
    <3>1. Event \/ UNCHANGED events
      BY <1>1 DEF Listen, Ready, Falter, Exits
    <3> QED
      BY <1>1, <3>1, RestKept DEF Listen, Ready, Falter, Exits, ChildOnly, callVars
  <2> QED BY <2>1, <2>2, <2>3
<1>2. ASSUME NEW c \in Child, ExitEvent(c) PROVE TypeOK'
  <2>1. ChildTyped'
    BY <1>2 DEF ExitEvent, ChildTyped
  <2>2. HandleTyped'
    BY <1>2 DEF ExitEvent, Dropped, HandleTyped
  <2> QED
    BY <1>2, <2>1, <2>2, StateKept, PlaceKept, RestKept DEF ExitEvent, lockVars, callVars
<1>3. ASSUME NEW c \in Child, ExitHandled(c) PROVE TypeOK'
  <2>1. ChildTyped'
    BY <1>3 DEF ExitHandled, ChildTyped
  <2>2. StateTyped'
    <3>1. Refreshed \/ Halted \/ Failed("other", NoChild) \/ UNCHANGED stateVars
      BY <1>3 DEF ExitHandled
    <3> QED
      BY <3>1, RefreshTypes, HaltedTypes, FailedTypes, StateKept DEF Error
  <2> QED
    BY <1>3, <2>1, <2>2, PlaceKept, HandleKept, RestKept DEF ExitHandled, lockVars, callVars
<1>4. CASE Look
  BY <1>4, RefreshTypes, PlaceKept, ChildKept, HandleKept, RestKept
  DEF Look, childVars, lockVars, callVars
<1> QED
  BY <1>1, <1>2, <1>3, <1>4

\* The steps of starts and stops keep the types.
LEMMA TypesOfJobs == ASSUME TypeOK, JobStep PROVE TypeOK'
<1> USE Groups, GroupsNext
<1> DEFINE Steady == UNCHANGED <<life, outdated, handle>> /\ LockOnly
           Quiet == (Event \/ UNCHANGED events) /\ UNCHANGED late
<1>1. ASSUME Steady PROVE ChildTyped' /\ HandleTyped'
  BY <1>1, ChildKept, HandleKept DEF LockOnly
<1>2. ASSUME LockOnly, Quiet PROVE RestTyped'
  BY <1>2, RestKept DEF LockOnly
<1>3. CASE StartBegins
  <2>1. PlaceTyped'
    BY <1>3, GotoTypes, StepTypes DEF StartBegins
  <2> QED BY <1>1, <1>2, <1>3, <2>1, StateKept DEF StartBegins
<1>4. CASE StartRefreshes
  <2>1. StateTyped'
    BY <1>4, RefreshTypes DEF StartRefreshes
  <2>2. PlaceTyped'
    BY <1>4, <2>1, DoneTypes DEF StartRefreshes, Holds
  <2> QED BY <1>1, <1>2, <1>4, <2>1, <2>2 DEF StartRefreshes
<1>5. ASSUME NEW phase, Available(phase), Persisted(NoChild) \/ UNCHANGED record
      PROVE  StateTyped' /\ PlaceTyped'
  <2>1. StateTyped'
    <3>1. StateTyped
      BY Groups
    <3>2. record' \in [pid : Runtime \cup {NoChild}, ours : BOOLEAN]
      <4>1. CASE Persisted(NoChild)
        BY <4>1 DEF Persisted
      <4>2. CASE UNCHANGED record
        BY <3>1, <4>2 DEF StateTyped
      <4> QED BY <1>5, <4>1, <4>2
    <3>3. status' \in Status /\ lastError' \in Error
      BY <1>5, <3>1 DEF Available, StateTyped, Status, Error
    <3> QED BY <3>2, <3>3 DEF StateTyped
  <2>2. PlaceTyped'
    BY <1>5, GotoTypes, StepTypes DEF Available
  <2> QED BY <2>1, <2>2
<1>6. ASSUME NEW phase \in {"preflight", "relaunch"}, ProbePort(phase) PROVE TypeOK'
  <2>1. StateTyped' /\ PlaceTyped'
    <3>1. CASE Available(phase) /\ UNCHANGED record
      BY <1>5, <3>1
    <3>2. CASE Healthy /\ UNCHANGED stateVars
      BY <1>6, <3>2, GotoTypes, StepTypes, StateKept DEF ProbePort
    <3> QED BY <1>6, <3>1, <3>2 DEF ProbePort
  <2> QED BY <1>1, <1>2, <1>6, <2>1 DEF ProbePort
<1>7. CASE StartFails
  <2>1. StateTyped'
    BY <1>7, FailedTypes DEF StartFails, Error
  <2>2. PlaceTyped'
    BY <1>7, <2>1, DoneTypes DEF StartFails, Holds
  <2> QED BY <1>1, <1>2, <1>7, <2>1, <2>2 DEF StartFails
<1>8. CASE Spawn
  <2> DEFINE c == CHOOSE d \in Free : TRUE
  <2>1. c \in Child /\ c \in Runtime
    BY <1>8 DEF Spawn, Free, Runtime
  <2> HIDE DEF c
  <2>2. life' = [life EXCEPT ![c] = "launched"] /\ handle' = c /\ Persisted(c)
        /\ Goto(Begun("boot", c))
    BY <1>8 DEF Spawn, c
  <2>3. StateTyped'
    <3>1. StateTyped
      BY Groups
    <3>2. record' \in [pid : Runtime \cup {NoChild}, ours : BOOLEAN]
      BY <2>1, <2>2 DEF Persisted
    <3>3. status' \in Status /\ lastError' \in Error
      BY <1>8, <3>1 DEF Spawn, StateTyped, Status
    <3> QED BY <3>2, <3>3 DEF StateTyped
  <2>4. PlaceTyped'
    BY <2>1, <2>2, GotoTypes, StepTypes
  <2>5. ChildTyped' /\ HandleTyped'
    BY <1>8, <2>1, <2>2 DEF Spawn, LockOnly, ChildTyped, HandleTyped
  <2>6. RestTyped'
    BY <1>8 DEF Spawn, LockOnly, deferVars, RestTyped
  <2> QED BY <2>3, <2>4, <2>5, <2>6
<1>9. CASE BootHealthy
  <2>1. PlaceTyped'
    BY <1>9, GotoTypes, StepTypes DEF BootHealthy
  <2> QED BY <1>1, <1>2, <1>9, <2>1, StateKept DEF BootHealthy
<1>10. CASE BootFails
  <2>1. StateTyped'
    BY <1>10, FailedTypes, StepTypes DEF BootFails, Error
  <2>2. PlaceTyped'
    BY <1>10, <2>1, DoneTypes DEF BootFails, Holds
  <2> QED BY <1>1, <1>2, <1>10, <2>1, <2>2 DEF BootFails
<1>11. CASE StopBegins
  <2>1. PlaceTyped'
    BY <1>11, GotoTypes, StepTypes DEF StopBegins
  <2>2. HandleTyped'
    BY <1>11 DEF StopBegins, HandleTyped
  <2> QED BY <1>11, <2>1, <2>2, StateKept, ChildKept, RestKept DEF StopBegins, childVars
<1>12. CASE StopProbed
  <2>1. StateTyped'
    <3>1. CASE status' = "stopped" /\ Persisted(NoChild) /\ UNCHANGED lastError
      BY <3>1 DEF Persisted, StateTyped, Status
    <3>2. CASE UNCHANGED stateVars
      BY <3>2, StateKept
    <3> QED BY <1>12, <3>1, <3>2 DEF StopProbed
  <2>2. PlaceTyped'
    BY <1>12, <2>1, DoneTypes, GotoTypes, StepTypes DEF StopProbed, Holds
  <2> QED BY <1>1, <1>2, <1>12, <2>1, <2>2 DEF StopProbed
<1>13. CASE StopKills
  <2>1. PlaceTyped'
    BY <1>13, GotoTypes, StepTypes DEF StopKills
  <2>2. ChildTyped'
    BY <1>13 DEF StopKills, LockOnly, ChildTyped
  <2>3. HandleTyped'
    BY <1>13, HandleKept DEF StopKills, LockOnly
  <2> QED BY <1>2, <1>13, <2>1, <2>2, <2>3, StateKept DEF StopKills
<1>14. CASE StopSettles
  <2>1. StateTyped'
    BY <1>14, StateKept DEF StopSettles
  <2>2. PlaceTyped'
    BY <1>14, <2>1, DoneTypes DEF StopSettles, Holds
  <2> QED BY <1>1, <1>2, <1>14, <2>1, <2>2 DEF StopSettles
<1>15. CASE KillRecorded
  <2>1. PlaceTyped'
    BY <1>15, GotoTypes, StepTypes DEF KillRecorded
  <2>2. ChildTyped'
    BY <1>15 DEF KillRecorded, LockOnly, ChildTyped
  <2>3. HandleTyped'
    BY <1>15, HandleKept DEF KillRecorded, LockOnly
  <2> QED BY <1>2, <1>15, <2>1, <2>2, <2>3, StateKept DEF KillRecorded
<1>16. CASE Drained
  <2>1. StateTyped' /\ PlaceTyped'
    <3>1. CASE Halted /\ Done
      BY <1>16, <3>1, HaltedTypes, DoneTypes DEF Drained
    <3>2. CASE Persisted(NoChild) /\ Available(job.next)
      BY <1>5, <3>2
    <3>3. CASE Goto([job EXCEPT !.at = "listener"]) /\ UNCHANGED stateVars
      BY <3>3, GotoTypes, StepTypes, StateKept
    <3>4. CASE Failed("other", NoChild) /\ Done
      BY <1>16, <3>4, FailedTypes, DoneTypes DEF Drained, Error
    <3> QED BY <1>16, <3>1, <3>2, <3>3, <3>4 DEF Drained
  <2> QED BY <1>1, <1>2, <1>16, <2>1 DEF Drained
<1> QED
  BY <1>3, <1>4, <1>6, <1>7, <1>8, <1>9, <1>10, <1>11, <1>12, <1>13, <1>14, <1>15, <1>16
  DEF JobStep

\* The steps of callers keep the types.
LEMMA TypesOfCallers ==
  ASSUME TypeOK,
         \/ \E a \in Asker : Ask(a) \/ AskerStep(a)
         \/ \E r \in Restarter : Change(r)
         \/ \E r \in Restarter \cup {Ticker} : Decide(r) \/ Resume(r)
         \/ TimerFires \/ Quit
  PROVE  TypeOK'
<1> USE Groups, GroupsNext
<1>1. ASSUME UNCHANGED stateVars \/ Refreshed PROVE StateTyped'
  BY <1>1, StateKept, RefreshTypes
<1>2. ASSUME CallOnly, UNCHANGED outdated PROVE ChildTyped' /\ HandleTyped'
  BY <1>2, ChildKept, HandleKept DEF CallOnly, childVars
<1>3. ASSUME CallOnly, UNCHANGED told, QueueTyped' PROVE PlaceTyped'
  BY <1>3 DEF CallOnly, PlaceTyped
<1>4. ASSUME CallOnly, UNCHANGED <<tried, deferVars>> PROVE RestTyped'
  BY <1>4, RestKept DEF CallOnly
<1>5. ASSUME NEW a \in Actor, NEW p \in ActorPlace, at' = [at EXCEPT ![a] = p], UNCHANGED lock
      PROVE  QueueTyped'
  BY <1>5 DEF PlaceTyped, QueueTyped
<1>6. ASSUME NEW a \in Actor, NEW k \in {"start", "stop"}, Enqueue(k, a) PROVE QueueTyped'
  BY <1>6, EnqueueTypes DEF PlaceTyped
<1>7. ASSUME NEW a \in Asker, Ask(a) \/ AskerRetries(a) PROVE TypeOK'
  <2>1. a \in Actor
    BY DEF Actor
  <2>2. QueueTyped'
    BY <1>6, <1>7, <2>1 DEF Ask, AskerRetries
  <2> QED
    BY <1>1, <1>2, <1>3, <1>4, <1>7, <2>2 DEF Ask, AskerRetries
<1>8. ASSUME NEW a \in Asker, AskerStarted(a) \/ AskerWaited(a) PROVE TypeOK'
  <2>1. a \in Actor
    BY DEF Actor
  <2>2. \E p \in ActorPlace : at' = [at EXCEPT ![a] = p]
    <3>1. CASE AskerStarted(a)
      BY <3>1 DEF AskerStarted, ActorPlace
    <3>2. CASE AskerWaited(a)
      BY <3>2 DEF AskerWaited, ActorPlace
    <3> QED BY <1>8, <3>1, <3>2
  <2>3. QueueTyped'
    BY <1>5, <1>8, <2>1, <2>2 DEF AskerStarted, AskerWaited
  <2> QED
    BY <1>1, <1>2, <1>3, <1>4, <1>8, <2>3 DEF AskerStarted, AskerWaited
<1>9. ASSUME NEW a \in Asker, AskerRefreshed(a) PROVE TypeOK'
  <2>1. a \in Actor /\ {"ok", "failed"} \subseteq ActorPlace
    BY DEF Actor, ActorPlace
  <2>2. QueueTyped'
    <3>1. CASE Enqueue("stop", a)
      BY <1>6, <2>1, <3>1
    <3>2. CASE UNCHANGED lock /\ \E p \in {"ok", "failed"} : at' = [at EXCEPT ![a] = p]
      BY <1>5, <2>1, <3>2
    <3> QED BY <1>9, <3>1, <3>2 DEF AskerRefreshed
  <2>3. told' \in [Asker -> [status : Status, error : Error]]
    BY <1>9 DEF AskerRefreshed, PlaceTyped, Untold, Status, Error
  <2>4. PlaceTyped'
    BY <1>9, <2>2, <2>3 DEF AskerRefreshed, CallOnly, PlaceTyped
  <2>5. RestTyped'
    BY <1>9 DEF AskerRefreshed, CallOnly, deferVars, RestTyped
  <2> QED
    BY <1>1, <1>2, <1>9, <2>4, <2>5 DEF AskerRefreshed
<1>10. ASSUME NEW r \in Restarter, Change(r) PROVE TypeOK'
  <2>1. r \in Actor /\ "probe" \in ActorPlace
    BY DEF Actor, ActorPlace
  <2>2. QueueTyped'
    BY <1>5, <1>10, <2>1 DEF Change
  <2>3. ChildTyped' /\ HandleTyped'
    BY <1>10, HandleKept DEF Change, CallOnly, childVars, ChildTyped
  <2> QED
    BY <1>1, <1>3, <1>4, <1>10, <2>2, <2>3 DEF Change
<1>11. ASSUME NEW r \in Restarter \cup {Ticker}, Decide(r) PROVE TypeOK'
  <2>1. r \in Actor /\ {"new", "done"} \subseteq ActorPlace
    BY DEF Actor, ActorPlace
  <2>2. QueueTyped' /\ deferred' \in BOOLEAN /\ timer' \in BOOLEAN
    <3>1. CASE Defers(r)
      <4>1. \E p \in {"new", "done"} : at' = [at EXCEPT ![r] = p]
        BY <3>1 DEF Defers
      <4> QED
        BY <1>5, <2>1, <3>1, <4>1 DEF Defers, deferVars, RestTyped
    <3>2. CASE deferred' = FALSE /\ timer' = FALSE /\ Enqueue("stop", r)
      BY <1>6, <2>1, <3>2
    <3> QED BY <1>11, <3>1, <3>2 DEF Decide
  <2>3. RestTyped'
    BY <1>11, <2>2 DEF Decide, CallOnly, RestTyped
  <2> QED
    BY <1>1, <1>2, <1>3, <1>11, <2>2, <2>3 DEF Decide
<1>12. ASSUME NEW r \in Restarter \cup {Ticker}, Resume(r) PROVE TypeOK'
  <2>1. r \in Actor
    BY DEF Actor
  <2>2. lock' \in Seq(Job)
    BY <1>12 DEF Resume, Queued, Job, PlaceTyped, QueueTyped
  <2>3. at' \in [Actor -> ActorPlace]
    BY <1>12, <2>1 DEF Resume, PlaceTyped, QueueTyped, ActorPlace
  <2> QED
    BY <1>1, <1>2, <1>3, <1>4, <1>12, <2>2, <2>3 DEF Resume, QueueTyped
<1>13. CASE TimerFires
  <2>1. Ticker \in Actor /\ "probe" \in ActorPlace
    BY DEF Actor, ActorPlace
  <2>2. QueueTyped'
    BY <1>5, <1>13, <2>1 DEF TimerFires
  <2> QED
    BY <1>1, <1>2, <1>3, <1>4, <1>13, <2>2 DEF TimerFires
<1>14. CASE Quit
  <2>1. QueueTyped'
    BY <1>6, <1>14 DEF Quit, Actor
  <2> QED
    BY <1>1, <1>2, <1>3, <1>4, <1>14, <2>1 DEF Quit
<1> QED
  BY <1>7, <1>8, <1>9, <1>10, <1>11, <1>12, <1>13, <1>14 DEF AskerStep

\* A step that changes nothing.
LEMMA TypesOfStutter == ASSUME TypeOK, UNCHANGED vars PROVE TypeOK'
<1> USE Groups, GroupsNext
<1> QED
  BY StateKept, PlaceKept, ChildKept, HandleKept, RestKept
  DEF vars, childVars, lockVars, callVars

\* Every variable of the desktop keeps its type, for any number of children,
\* requests and restarts.
THEOREM TypeCorrect == Spec => []TypeOK
<1>1. TypeOK /\ [Next]_vars => TypeOK'
  BY TypesOfProcesses, TypesOfJobs, TypesOfCallers, TypesOfStutter DEF Next
<1> QED
  BY <1>1, TypesInit, PTL DEF Spec

--------------------------------------------------------------------------------
(* No child is lost *)

\* The stop that holds the lock has signalled this child.
Signalled(c) == Holds("stop", "signalled") /\ job.child = c

ExitsAreEnds == \A c \in Child : exit[c] = "event" => life[c] = "none"

Tracked == \A c \in Child : Living(c) => handle = c \/ Signalled(c)

\* While a job may spawn or has taken the handle, there is none.
Unheld ==
  /\ lock = <<>> => job.at = "queued"
  /\ lock # <<>> /\ Head(lock).kind = "stop" /\ job.at # "queued" => handle = NoChild
  /\ job.at \in {"preflight", "relaunch", "spawn", "kill", "drain", "listener"} =>
       handle = NoChild

NoneAfterQuit == at[Quitter] = "stopped" /\ ~late => \A c \in Child : ~Living(c)

LostInv == TypeOK /\ ExitsAreEnds /\ Tracked /\ Unheld /\ NoneAfterQuit

\* The part of the invariant that is not about types.
Safe == ExitsAreEnds /\ Tracked /\ Unheld /\ NoneAfterQuit

\* NoChild is no child.
LEMMA NoChildIsNone == NoChild \notin Child
  BY DesktopRuntimeAssumption DEF DesktopRuntimeAssumption, Runtime

\* A stop that has begun leaves at most the child it signalled.
LEMMA StopLeavesNone ==
  ASSUME LostInv, lock # <<>>, Head(lock).kind = "stop", job.at # "queued",
         Holds("stop", "signalled") => ~Living(job.child)
  PROVE  \A c \in Child : ~Living(c)
  BY NoChildIsNone DEF LostInv, Tracked, Unheld, Signalled

\* A job ends that has not left a child it signalled.
LEMMA DoneIsSafe ==
  ASSUME LostInv, lock # <<>>, Done, UNCHANGED <<life, exit, handle, late>>,
         Head(lock).kind = "stop" => job.at # "queued",
         Holds("stop", "signalled") => ~Living(job.child)
  PROVE  Safe'
<1>1. ExitsAreEnds'
  BY DEF LostInv, ExitsAreEnds
<1>2. Tracked'
  BY DEF LostInv, Tracked, Signalled, Living
<1>3. Unheld'
  BY DEF Done, NoStep, Unheld
<1>4. NoneAfterQuit'
  <2>1. CASE Head(lock).kind = "stop"
    BY <2>1, StopLeavesNone DEF NoneAfterQuit, Living
  <2>2. CASE Head(lock).kind # "stop"
    <3>1. Quitter \in Actor
      BY DEF Actor
    <3>2. at'[Quitter] = "stopped" => at[Quitter] = "stopped"
      <4>1. Head(lock) \in Job
        BY DEF LostInv, TypeOK
      <4>2. Head(lock).kind = "start"
        BY <2>2, <4>1 DEF Job
      <4> QED BY <3>1, <4>2 DEF Done
    <3> QED BY <3>2 DEF LostInv, NoneAfterQuit, Living
  <2> QED BY <2>1, <2>2
<1> QED
  BY <1>1, <1>2, <1>3, <1>4 DEF Safe

\* A job goes on without a new child.
LEMMA GotoIsSafe ==
  ASSUME LostInv, lock # <<>>, NEW s, Goto(s), UNCHANGED <<exit, late>>,
         handle' \in {handle, NoChild},
         \A c \in Child : Living(c)' => Living(c),
         \A c \in Child : life[c] = "none" => life'[c] = "none",
         \A c \in Child : Living(c)' => handle' = c \/ Signalled(c)',
         Head(lock).kind = "stop" /\ s.at # "queued" => handle' = NoChild,
         s.at \in {"preflight", "relaunch", "spawn", "kill", "drain", "listener"} =>
           handle' = NoChild
  PROVE  Safe'
<1>1. ExitsAreEnds'
  BY DEF LostInv, ExitsAreEnds
<1>2. Tracked'
  BY DEF Tracked
<1>3. Unheld'
  BY DEF Unheld, Goto
<1>4. NoneAfterQuit'
  BY DEF LostInv, NoneAfterQuit, Goto
<1> QED
  BY <1>1, <1>2, <1>3, <1>4 DEF Safe

\* The initial states are safe.
LEMMA SafeInit == Init => Safe
<1> SUFFICES ASSUME Init PROVE Safe
  OBVIOUS
<1>1. \A c \in Child : life[c] = "none" /\ exit[c] = "none"
  BY DesktopRuntimeAssumption DEF Init, DesktopRuntimeAssumption, Runtime
<1>2. job.at = "queued"
  BY DEF Init, NoStep
<1> QED
  BY <1>1, <1>2 DEF Safe, ExitsAreEnds, Tracked, Unheld, NoneAfterQuit, Living

\* Processes and windows do not lose a child.
LEMMA ProcessesAreSafe ==
  ASSUME LostInv,
         \/ \E c \in Runtime : Listen(c) \/ Ready(c) \/ Falter(c) \/ Exits(c)
         \/ \E c \in Child : ExitEvent(c) \/ ExitHandled(c)
         \/ Look
  PROVE  Safe'
<1>1. ASSUME NEW c \in Runtime, Listen(c) \/ Ready(c) \/ Falter(c) \/ Exits(c) PROVE Safe'
  <2>1. UNCHANGED <<handle, lock, job, at, late>>
    BY <1>1 DEF Listen, Ready, Falter, Exits, ChildOnly, lockVars, callVars
  <2>2. Living(c)' => Living(c)
    <3>1. CASE Gone(c)
      BY <3>1 DEF Gone, Living, LostInv, TypeOK
    <3>2. CASE life' = [life EXCEPT ![c] = "unready"] \/ life' = [life EXCEPT ![c] = "healthy"]
      BY <1>1, <3>2 DEF Listen, Ready, Falter, Exits, Gone, Living, LostInv, TypeOK
    <3> QED BY <1>1, <3>1, <3>2 DEF Listen, Ready, Falter, Exits
  <2>3. \A d \in Child : Living(d)' => Living(d)
    <3>1. \E l \in {"none", "unready", "healthy"} : life' = [life EXCEPT ![c] = l]
      BY <1>1 DEF Listen, Ready, Falter, Exits, Gone
    <3> QED BY <2>2, <3>1 DEF Living, LostInv, TypeOK, Runtime
  <2>4. ExitsAreEnds'
    <3>1. CASE Gone(c)
      BY <3>1 DEF Gone, ExitsAreEnds, LostInv, TypeOK
    <3>2. CASE /\ life[c] # "none" /\ UNCHANGED exit
               /\ \E l \in {"unready", "healthy"} : life' = [life EXCEPT ![c] = l]
      BY <3>2 DEF ExitsAreEnds, LostInv, TypeOK
    <3> QED BY <1>1, <3>1, <3>2 DEF Listen, Ready, Falter, Exits
  <2> QED
    BY <2>1, <2>3, <2>4
    DEF Safe, LostInv, Tracked, Unheld, NoneAfterQuit, Signalled, Holds
<1>2. ASSUME NEW c \in Child, ExitEvent(c) PROVE Safe'
  <2>1. UNCHANGED <<life, lock, job, at, late>> /\ life[c] = "none"
    BY <1>2 DEF ExitEvent, lockVars, callVars, LostInv, ExitsAreEnds
  <2>2. ExitsAreEnds'
    BY <1>2, <2>1 DEF ExitEvent, ExitsAreEnds, LostInv, TypeOK
  <2>3. \A d \in Child : Living(d) => d # c
    BY <2>1 DEF Living
  <2>4. Tracked'
    BY <1>2, <2>1, <2>3
    DEF ExitEvent, Dropped, Tracked, LostInv, Signalled, Holds, Living
  <2>5. Unheld'
    BY <1>2, <2>1 DEF ExitEvent, Dropped, Unheld, LostInv
  <2> QED
    BY <2>1, <2>2, <2>4, <2>5 DEF Safe, LostInv, NoneAfterQuit, Living
<1>3. ASSUME NEW c \in Child, ExitHandled(c) PROVE Safe'
  <2>1. UNCHANGED <<life, handle, lock, job, at, late>>
    BY <1>3 DEF ExitHandled, lockVars, callVars
  <2>2. ExitsAreEnds'
    <3>1. \E e \in {"none", "refresh"} : exit' = [exit EXCEPT ![c] = e]
      BY <1>3 DEF ExitHandled
    <3> QED BY <2>1, <3>1 DEF ExitsAreEnds, LostInv, TypeOK, Runtime
  <2> QED
    BY <2>1, <2>2
    DEF Safe, LostInv, Tracked, Unheld, NoneAfterQuit, Signalled, Holds, Living
<1>4. CASE Look
  BY <1>4
  DEF Look, childVars, lockVars, callVars, Safe, LostInv, ExitsAreEnds, Tracked, Unheld,
      NoneAfterQuit, Signalled, Holds, Living
<1> QED
  BY <1>1, <1>2, <1>3, <1>4

\* Jobs do not lose a child.
LEMMA JobsAreSafe == ASSUME LostInv, JobStep PROVE Safe'
<1> USE NoChildIsNone
<1>1. Tracked /\ Unheld /\ TypeOK
  BY DEF LostInv
<1>2. ASSUME NEW k, NEW p, Holds(k, p)
      PROVE  lock # <<>> /\ Head(lock).kind = k /\ job.at = p
  BY <1>2 DEF Holds
<1>3. ASSUME UNCHANGED <<life, handle>>, handle = NoChild,
             ~Holds("stop", "signalled")
      PROVE  \A c \in Child : ~Living(c) /\ ~Living(c)'
  BY <1>1, <1>3 DEF Tracked, Signalled, Living
<1>4. CASE StartBegins
  <2>1. \A c \in Child : Living(c)' => handle' = c
    BY <1>1, <1>4 DEF StartBegins, Tracked, Signalled, Holds, Living
  <2> QED
    BY <1>4, <2>1, GotoIsSafe DEF StartBegins, Holds, LockOnly, Begun, Living
<1>5. CASE StartRefreshes
  BY <1>5, DoneIsSafe DEF StartRefreshes, Holds, LockOnly
<1>6. ASSUME NEW phase \in {"preflight", "relaunch"}, ProbePort(phase) PROVE Safe'
  <2>1. handle = NoChild /\ UNCHANGED <<life, handle>>
    BY <1>1, <1>6 DEF ProbePort, Unheld, Holds
  <2>2. \A c \in Child : ~Living(c) /\ ~Living(c)'
    BY <1>3, <1>6, <2>1 DEF ProbePort, Holds
  <2>3. \E s : Goto(s)
    BY <1>6 DEF ProbePort, Available
  <2> QED
    BY <1>6, <2>1, <2>2, <2>3, GotoIsSafe DEF ProbePort, Holds, LockOnly, Living
<1>7. CASE StartFails
  BY <1>7, DoneIsSafe DEF StartFails, Holds, LockOnly
<1>8. CASE Spawn
  <2> DEFINE c == CHOOSE d \in Free : TRUE
  <2>1. c \in Free
    BY <1>8 DEF Spawn
  <2> HIDE DEF c
  <2>2. life' = [life EXCEPT ![c] = "launched"] /\ handle' = c /\ Goto(Begun("boot", c))
    BY <1>8 DEF Spawn, c
  <2>3. c \in Child /\ life[c] = "none" /\ exit[c] = "none"
    BY <2>1 DEF Free
  <2>4. \A d \in Child : ~Living(d)
    BY <1>1, <1>8 DEF Spawn, Tracked, Unheld, Signalled, Holds
  <2>5. Tracked'
    <3>1. ASSUME NEW d \in Child, Living(d)' PROVE handle' = d
      <4>1. d # c => life'[d] = life[d]
        BY <1>1, <2>2, <2>3 DEF LostInv, TypeOK, Runtime
      <4> QED BY <2>2, <2>4, <3>1, <4>1 DEF Living
    <3> QED BY <3>1 DEF Tracked
  <2>6. ExitsAreEnds'
    <3>1. exit' = exit
      BY <1>8 DEF Spawn, LockOnly
    <3>2. ASSUME NEW d \in Child, exit'[d] = "event" PROVE life'[d] = "none"
      <4>1. d # c /\ life[d] = "none"
        BY <2>3, <3>1, <3>2 DEF LostInv, ExitsAreEnds
      <4> QED BY <1>1, <2>2, <2>3, <4>1 DEF TypeOK, Runtime
    <3> QED BY <3>2 DEF ExitsAreEnds
  <2>7. Unheld'
    BY <1>8, <2>2 DEF Spawn, Holds, Unheld, Goto, Begun
  <2>8. NoneAfterQuit'
    BY <1>8, <2>2, <2>4 DEF Spawn, NoneAfterQuit, Goto
  <2> QED
    BY <2>5, <2>6, <2>7, <2>8 DEF Safe
<1>9. CASE BootHealthy
  <2>1. \A c \in Child : Living(c)' => handle' = c
    BY <1>1, <1>9 DEF BootHealthy, Tracked, Signalled, Holds, Living
  <2> QED
    BY <1>9, <2>1, GotoIsSafe DEF BootHealthy, Holds, LockOnly, Begun, Living
<1>10. CASE BootFails
  BY <1>10, DoneIsSafe DEF BootFails, Holds, LockOnly
<1>11. CASE StopBegins
  <2> DEFINE s == Begun(IF handle # NoChild THEN "signalled" ELSE "probe", handle)
  <2>1. Goto(s) /\ handle' = NoChild /\ UNCHANGED <<life, exit, late>>
    BY <1>11 DEF StopBegins, childVars
  <2>2. \A c \in Child : Living(c) => handle = c
    BY <1>1, <1>11 DEF StopBegins, Tracked, Signalled, Holds
  <2>3. \A c \in Child : Living(c)' => Signalled(c)'
    BY <1>11, <2>1, <2>2 DEF StopBegins, Signalled, Holds, Living, Goto, Begun
  <2> QED
    BY <1>11, <2>1, <2>3, GotoIsSafe DEF StopBegins, Holds, Living
<1>12. CASE StopProbed
  <2>1. CASE Done
    BY <1>12, <2>1, DoneIsSafe DEF StopProbed, Holds, LockOnly
  <2>2. CASE Goto(Detached("stop"))
    <3>1. handle = NoChild /\ UNCHANGED <<life, handle>>
      BY <1>1, <1>12 DEF StopProbed, Unheld, Holds
    <3>2. \A c \in Child : ~Living(c) /\ ~Living(c)'
      BY <1>3, <1>12, <3>1 DEF StopProbed, Holds
    <3> QED
      BY <1>12, <2>2, <3>1, <3>2, GotoIsSafe DEF StopProbed, Holds, LockOnly, Living
  <2> QED BY <1>12, <2>1, <2>2 DEF StopProbed
<1>13. CASE StopKills
  <2>1. handle = NoChild /\ handle' = NoChild
    BY <1>1, <1>13 DEF StopKills, Unheld, Holds
  <2>2. \A c \in Child : life'[c] \in {life[c], "killed"} /\ (life[c] = "none" => life'[c] = "none")
    BY <1>1, <1>13 DEF StopKills, TypeOK, Runtime
  <2>3. \A c \in Child : ~Living(c)'
    BY <1>1, <1>13, <2>1, <2>2 DEF StopKills, Tracked, Signalled, Living, TypeOK, Runtime
  <2> QED
    BY <1>13, <2>1, <2>2, <2>3, GotoIsSafe DEF StopKills, Holds, LockOnly
<1>14. CASE StopSettles
  <2>1. Holds("stop", "signalled") => ~Living(job.child)
    BY <1>14 DEF StopSettles, Holds, Living
  <2> QED
    BY <1>14, <2>1, DoneIsSafe DEF StopSettles, Holds, LockOnly
<1>15. CASE KillRecorded
  <2>1. handle = NoChild /\ handle' = NoChild
    BY <1>1, <1>15 DEF KillRecorded, Unheld
  <2>2. \A c \in Child : life'[c] \in {life[c], "killed"} /\ (life[c] = "none" => life'[c] = "none")
    BY <1>1, <1>15 DEF KillRecorded, TypeOK, Runtime
  <2>3. \A c \in Child : ~Living(c)
    BY <1>1, <1>15, <2>1 DEF KillRecorded, Tracked, Signalled, Holds
  <2>4. \A c \in Child : ~Living(c)'
    BY <2>2, <2>3 DEF Living
  <2> QED
    BY <1>15, <2>1, <2>2, <2>4, GotoIsSafe DEF KillRecorded, LockOnly
<1>16. CASE Drained
  <2>1. CASE Done
    BY <1>16, <2>1, DoneIsSafe DEF Drained, Holds, LockOnly
  <2>2. CASE ~Done
    <3>1. handle = NoChild /\ UNCHANGED <<life, handle>>
      BY <1>1, <1>16 DEF Drained, Unheld
    <3>2. \A c \in Child : ~Living(c) /\ ~Living(c)'
      BY <1>3, <1>16, <3>1 DEF Drained, Holds
    <3>3. \E s : Goto(s)
      BY <1>16, <2>2 DEF Drained, Available
    <3> QED
      BY <1>16, <3>1, <3>2, <3>3, GotoIsSafe DEF Drained, LockOnly, Living
  <2> QED BY <2>1, <2>2
<1> QED
  BY <1>4, <1>5, <1>6, <1>7, <1>8, <1>9, <1>10, <1>11, <1>12, <1>13, <1>14, <1>15, <1>16
  DEF JobStep

\* A job that is queued leaves the first one in its place.
LEMMA QueueKeepsHead ==
  ASSUME NEW S, NEW s \in Seq(S), s # <<>>, NEW x
  PROVE  Append(s, x) # <<>> /\ Head(Append(s, x)) = Head(s)
  OBVIOUS

\* Callers only queue jobs.
LEMMA CallersAreSafe ==
  ASSUME LostInv,
         \/ \E a \in Asker : Ask(a) \/ AskerStep(a)
         \/ \E r \in Restarter : Change(r)
         \/ \E r \in Restarter \cup {Ticker} : Decide(r) \/ Resume(r)
         \/ TimerFires \/ Quit
  PROVE  Safe'
<1>1. CallOnly
  BY DEF Ask, AskerStep, AskerStarted, AskerWaited, AskerRefreshed, AskerRetries, Change,
         Decide, Resume, TimerFires, Quit
<1>2. lock' = lock \/ \E x : lock' = Append(lock, x)
  BY DEF Ask, AskerStep, AskerStarted, AskerWaited, AskerRefreshed, AskerRetries, Change,
         Decide, Defers, Resume, TimerFires, Quit, Enqueue, Queued
<1>3. lock # <<>> => lock' # <<>> /\ Head(lock') = Head(lock)
  BY <1>2, QueueKeepsHead DEF LostInv, TypeOK
<1>4. UNCHANGED <<life, exit, handle, job, late>>
  BY <1>1 DEF CallOnly, childVars
<1>5. ExitsAreEnds'
  BY <1>4 DEF LostInv, ExitsAreEnds
<1>6. Tracked'
  BY <1>3, <1>4 DEF LostInv, Tracked, Signalled, Holds, Living
<1>7. Unheld'
  BY <1>3, <1>4 DEF LostInv, Unheld
<1>8. at'[Quitter] = "stopped" => at[Quitter] = "stopped"
  <2> USE DesktopRuntimeAssumption DEF DesktopRuntimeAssumption
  <2>1. ASSUME NEW a \in Asker, Ask(a) \/ AskerStep(a) PROVE at'[Quitter] = at[Quitter]
    BY <2>1 DEF Ask, AskerStep, AskerStarted, AskerWaited, AskerRefreshed, AskerRetries,
                Enqueue, LostInv, TypeOK, Actor
  <2>2. ASSUME NEW r \in Restarter \cup {Ticker}, Change(r) \/ Decide(r) \/ Resume(r)
        PROVE  at'[Quitter] = at[Quitter]
    BY <2>2 DEF Change, Decide, Defers, Resume, Enqueue, LostInv, TypeOK, Actor
  <2>3. CASE TimerFires
    BY <2>3 DEF TimerFires, LostInv, TypeOK, Actor
  <2>4. CASE Quit
    BY <2>4 DEF Quit, Enqueue, LostInv, TypeOK, Actor
  <2> QED BY <2>1, <2>2, <2>3, <2>4
<1>9. NoneAfterQuit'
  BY <1>4, <1>8 DEF LostInv, NoneAfterQuit, Living
<1> QED
  BY <1>5, <1>6, <1>7, <1>9 DEF Safe

\* The invariant holds always.
LEMMA LostInvAlways == Spec => []LostInv
<1>1. LostInv /\ [Next]_vars => LostInv'
  <2> SUFFICES ASSUME LostInv, [Next]_vars PROVE LostInv'
    OBVIOUS
  <2>1. TypeOK'
    BY TypesOfProcesses, TypesOfJobs, TypesOfCallers, TypesOfStutter DEF Next, LostInv
  <2>2. Safe'
    <3>1. CASE UNCHANGED vars
      BY <3>1
      DEF vars, childVars, lockVars, callVars, Safe, LostInv, ExitsAreEnds, Tracked, Unheld,
          NoneAfterQuit, Signalled, Holds, Living
    <3> QED
      BY <3>1, ProcessesAreSafe, JobsAreSafe, CallersAreSafe DEF Next
  <2> QED BY <2>1, <2>2 DEF LostInv, Safe
<1>2. Init => LostInv
  BY TypesInit, SafeInit DEF LostInv, Safe
<1> QED
  BY <1>1, <1>2, PTL DEF Spec

\* Whatever overtakes what, a child that is alive is the one the desktop holds or
\* the one that the stop under way has signalled, and the cleanup before the
\* quit leaves none but that of a start queued behind it.
THEOREM NoneIsLost == Spec => []NoRuntimeIsLost
<1>1. LostInv => NoRuntimeIsLost
  BY DEF LostInv, Tracked, Signalled, NoneAfterQuit, NoRuntimeIsLost
<1> QED
  BY <1>1, LostInvAlways, PTL

\* Two runtimes of one desktop never work on the databases at a time; one that was hit
\* by SIGKILL does nothing any more, and the orphan is of an earlier desktop.
OneRuntimeLives == \A c, d \in Child : Living(c) /\ Living(d) => c = d

\* Whatever overtakes what, a runtime is spawned only when its predecessor is gone: a stop
\* that has signalled a child has taken the handle, and keeps the lock until it is gone.
THEOREM RuntimesDoNotOverlap == Spec => []OneRuntimeLives
<1>1. LostInv => OneRuntimeLives
  <2> SUFFICES ASSUME LostInv, NEW c \in Child, NEW d \in Child, Living(c), Living(d)
               PROVE  c = d
    BY DEF OneRuntimeLives
  <2>1. /\ handle = c \/ Signalled(c)
        /\ handle = d \/ Signalled(d)
    BY DEF LostInv, Tracked
  <2>2. ASSUME NEW e \in Child, Signalled(e) PROVE handle = NoChild /\ job.child = e
    BY <2>2 DEF Signalled, Holds, LostInv, Unheld
  <2> QED BY <2>1, <2>2, NoChildIsNone
<1> QED
  BY <1>1, LostInvAlways, PTL

--------------------------------------------------------------------------------
(* The runtime is one process *)

\* Nobody is launched, dies or is let go of.
LEMMA SlotKept ==
  ASSUME \A d \in Child : (Living(d)' <=> Living(d)),
         \A d \in Child : Living(d) => (handle' = d <=> handle = d)
  PROVE  UNCHANGED Slot!vars
<1>1. {d \in Child : Living(d) /\ handle = d}' = {d \in Child : Living(d) /\ handle = d}
  <2>1. \A d \in Child : (Living(d)' /\ handle' = d <=> Living(d) /\ handle = d)
    OBVIOUS
  <2> QED BY <2>1
<1>2. {d \in Child : Living(d) /\ handle # d}' = {d \in Child : Living(d) /\ handle # d}
  <2>1. \A d \in Child : (Living(d)' /\ handle' # d <=> Living(d) /\ handle # d)
    OBVIOUS
  <2> QED BY <2>1
<1> QED BY <1>1, <1>2 DEF Slot!vars

\* A process dies, if it lived.
LEMMA SlotDied ==
  ASSUME NEW c, ~Living(c)', handle' = handle,
         \A d \in Child : d # c => (Living(d)' <=> Living(d))
  PROVE  [Slot!Next]_(Slot!vars)
<1>1. CASE c \in Child /\ Living(c)
  <2>1. Slot!Die(c)
    BY <1>1 DEF Slot!Die
  <2> QED BY <1>1, <2>1 DEF Slot!Next
<1>2. CASE ~(c \in Child /\ Living(c))
  <2>1. \A d \in Child : (Living(d)' <=> Living(d))
    BY <1>2
  <2> QED BY <2>1, SlotKept
<1> QED BY <1>1, <1>2

LEMMA SlotProcesses ==
  ASSUME LostInv,
         \/ \E c \in Runtime : Listen(c) \/ Ready(c) \/ Falter(c) \/ Exits(c)
         \/ \E c \in Child : ExitEvent(c) \/ ExitHandled(c)
         \/ Look
  PROVE  [Slot!Next]_(Slot!vars)
<1>1. ASSUME NEW c \in Runtime, Listen(c) \/ Ready(c) \/ Falter(c) \/ Exits(c)
      PROVE  [Slot!Next]_(Slot!vars)
  <2>1. handle' = handle
    BY <1>1 DEF Listen, Ready, Falter, Exits, ChildOnly
  <2>2. PICK l : life' = [life EXCEPT ![c] = l] /\ (l = "none" \/ (Living(c) /\ Living(c)'))
    BY <1>1 DEF Listen, Ready, Falter, Exits, Gone, Living, LostInv, TypeOK
  <2>3. \A d \in Child : d # c => (Living(d)' <=> Living(d))
    BY <2>2 DEF Living, LostInv, TypeOK, Runtime
  <2>4. CASE ~Living(c)'
    BY <2>1, <2>3, <2>4, SlotDied
  <2>5. CASE Living(c)'
    <3>1. Living(c)
      BY <2>2, <2>5 DEF Living, LostInv, TypeOK
    <3>2. \A d \in Child : (Living(d)' <=> Living(d))
      BY <2>3, <2>5, <3>1
    <3> QED BY <2>1, <3>2, SlotKept
  <2> QED BY <2>4, <2>5
<1>2. ASSUME NEW c \in Child, ExitEvent(c) PROVE [Slot!Next]_(Slot!vars)
  <2>1. ~Living(c) /\ life' = life
    BY <1>2 DEF ExitEvent, LostInv, ExitsAreEnds, Living
  <2>2. handle' \in {handle, NoChild} /\ (handle # c => handle' = handle)
    BY <1>2 DEF ExitEvent, Dropped
  <2>3. /\ \A d \in Child : (Living(d)' <=> Living(d))
        /\ \A d \in Child : Living(d) => (handle' = d <=> handle = d)
    BY <2>1, <2>2, NoChildIsNone DEF Living
  <2> QED BY <2>3, SlotKept
<1>3. ASSUME UNCHANGED <<life, handle>> PROVE [Slot!Next]_(Slot!vars)
  BY <1>3, SlotKept DEF Living
<1> QED BY <1>1, <1>2, <1>3 DEF ExitHandled, Look, childVars

LEMMA SlotJobs == ASSUME LostInv, JobStep PROVE [Slot!Next]_(Slot!vars)
<1> USE NoChildIsNone
<1>1. ASSUME UNCHANGED <<life, handle>> PROVE [Slot!Next]_(Slot!vars)
  BY <1>1, SlotKept DEF Living
<1>2. ASSUME NEW k, NEW p, Holds(k, p)
      PROVE  lock # <<>> /\ Head(lock).kind = k /\ job.at = p
  BY <1>2 DEF Holds
<1>3. CASE Spawn
  <2>1. PICK c \in Free : life' = [life EXCEPT ![c] = "launched"] /\ handle' = c
    BY <1>3 DEF Spawn
  <2>2. \A d \in Child : ~Living(d)
    BY <1>3 DEF LostInv, Spawn, Tracked, Unheld, Signalled, Holds
  <2>3. c \in Child /\ Living(c)' /\ \A d \in Child : d # c => ~Living(d)'
    BY <2>1, <2>2 DEF Free, Living, LostInv, TypeOK, Runtime
  <2>4. Slot!Launch(c)
    BY <2>1, <2>2, <2>3 DEF Slot!Launch
  <2> QED BY <2>3, <2>4 DEF Slot!Next
<1>4. CASE StopBegins
  <2>1. handle' = NoChild /\ life' = life
    BY <1>4 DEF StopBegins, childVars
  <2>2. \A d \in Child : (Living(d)' <=> Living(d))
    BY <2>1 DEF Living
  <2>3. CASE handle \in Child /\ Living(handle)
    <3>1. PICK c \in Child : c = handle /\ Living(c)
      BY <2>3
    <3>2. Slot!GiveUp(c)
      BY <2>1, <2>2, <3>1 DEF Slot!GiveUp
    <3> QED BY <3>2 DEF Slot!Next
  <2>4. CASE ~(handle \in Child /\ Living(handle))
    BY <2>1, <2>2, <2>4, SlotKept
  <2> QED BY <2>3, <2>4
<1>5. CASE StopKills
  <2>1. /\ handle' = handle
        /\ life' = [life EXCEPT ![job.child] = IF @ = "none" THEN "none" ELSE "killed"]
    BY <1>5 DEF StopKills
  <2>2. \A d \in Child : /\ d # job.child => life'[d] = life[d]
                        /\ d = job.child => ~Living(d)'
    BY <2>1 DEF LostInv, TypeOK, Runtime, Living
  <2>3. CASE job.child \in Child
    BY <2>1, <2>2, <2>3, SlotDied DEF Living
  <2>4. CASE job.child \notin Child
    BY <2>1, <2>2, <2>4, SlotKept DEF Living
  <2> QED BY <2>3, <2>4
<1>6. CASE KillRecorded
  <2>1. handle = NoChild /\ handle' = NoChild /\ ~Holds("stop", "signalled")
    BY <1>6 DEF KillRecorded, LostInv, Unheld, Holds
  <2>2. \A d \in Child : ~Living(d)
    BY <2>1 DEF LostInv, Tracked, Signalled
  <2>3. \A d \in Child : ~Living(d)'
    BY <1>6, <2>2 DEF KillRecorded, Living, Runtime
  <2> QED BY <2>2, <2>3, SlotKept
<1> QED
  BY <1>1, <1>3, <1>4, <1>5, <1>6
     DEF JobStep, StartBegins, StartRefreshes, ProbePort, StartFails, BootHealthy, BootFails,
         StopProbed, StopSettles, Drained

\* Callers only queue jobs.
LEMMA SlotCallers ==
  ASSUME \/ \E a \in Asker : Ask(a) \/ AskerStep(a)
         \/ \E r \in Restarter : Change(r)
         \/ \E r \in Restarter \cup {Ticker} : Decide(r) \/ Resume(r)
         \/ TimerFires \/ Quit
  PROVE  [Slot!Next]_(Slot!vars)
<1>1. CallOnly
  BY DEF Ask, AskerStep, AskerStarted, AskerWaited, AskerRefreshed, AskerRetries, Change,
         Decide, Resume, TimerFires, Quit
<1>2. UNCHANGED <<life, handle>>
  BY <1>1 DEF CallOnly, childVars
<1> QED BY <1>2, SlotKept DEF Living

\* The desktop runs one runtime: it launches one when nothing that it has let go of lives,
\* and takes none back, whatever starts, stops, restarts, exits and the quit do at once.
THEOREM RuntimesFillOneSlot == Spec => ImplementsSlot
<1>1. Init => Slot!Init
  <2> SUFFICES ASSUME Init PROVE Slot!Init
    OBVIOUS
  <2>1. \A c \in Child : life[c] = "none"
    BY DesktopRuntimeAssumption DEF Init, DesktopRuntimeAssumption, Runtime
  <2> QED BY <2>1 DEF Slot!Init, Living
<1>2. LostInv /\ [Next]_vars => [Slot!Next]_(Slot!vars)
  <2> SUFFICES ASSUME LostInv, [Next]_vars PROVE [Slot!Next]_(Slot!vars)
    OBVIOUS
  <2>1. ASSUME UNCHANGED <<life, handle>> PROVE [Slot!Next]_(Slot!vars)
    BY <2>1, SlotKept DEF Living
  <2>2. CASE UNCHANGED vars
    BY <2>1, <2>2 DEF vars, childVars
  <2> QED BY <2>2, SlotProcesses, SlotJobs, SlotCallers DEF Next
<1> QED
  BY <1>1, <1>2, LostInvAlways, PTL DEF Spec, ImplementsSlot, Slot!Spec

--------------------------------------------------------------------------------
(* Every change of the configuration reaches the runtime *)

\* No restart waits for a start.
Unawaited ==
  lock \in Seq({j \in Job : j.kind = "start" => j.who \notin Restarter \cup {Ticker}})

OldAlive == \A c \in outdated : life[c] # "none"

ChangeInv == Unawaited /\ OldAlive /\ ChangesReachTheRuntime

\* The job of a start that ends is not one that a restart waits for.
LEMMA StartHasNoRestart ==
  ASSUME Unawaited, lock # <<>>, Head(lock).kind # "stop"
  PROVE  Head(lock).kind = "start" /\ Head(lock).who \notin Restarter \cup {Ticker}
<1>1. Head(lock) \in {j \in Job : j.kind = "start" => j.who \notin Restarter \cup {Ticker}}
  BY DEF Unawaited
<1> QED BY <1>1 DEF Job

\* A stop that ends leaves no child alive, and a start no restart behind.
LEMMA DoneReaches ==
  ASSUME LostInv, ChangeInv, lock # <<>>, Done, UNCHANGED <<life, outdated, deferVars>>,
         Head(lock).kind = "stop" => job.at # "queued",
         Holds("stop", "signalled") => ~Living(job.child)
  PROVE  ChangeInv'
<1>1. Unawaited'
  BY DEF ChangeInv, Unawaited, Done
<1>2. OldAlive'
  BY DEF ChangeInv, OldAlive
<1>3. ChangesReachTheRuntime'
  <2>1. CASE Head(lock).kind = "stop"
    <3>1. \A c \in outdated : ~Living(c)
      BY <2>1, StopLeavesNone DEF LostInv, TypeOK
    <3> QED BY <3>1 DEF ChangesReachTheRuntime, Living
  <2>2. CASE Head(lock).kind # "stop"
    <3>1. \A r \in Restarter \cup {Ticker} : at'[r] = at[r]
      BY <2>2, StartHasNoRestart DEF Done, ChangeInv, Actor
    <3> QED BY <3>1 DEF ChangeInv, ChangesReachTheRuntime, Living, deferVars
  <2> QED BY <2>1, <2>2
<1> QED BY <1>1, <1>2, <1>3 DEF ChangeInv

\* A step that changes nothing but the first job and the children.
LEMMA GotoReaches ==
  ASSUME ChangeInv, UNCHANGED <<lock, at, outdated, deferVars>>,
         \A c \in outdated : Living(c)' => Living(c),
         \A c \in outdated : life[c] # "none" => life'[c] # "none"
  PROVE  ChangeInv'
<1>1. Unawaited'
  BY DEF ChangeInv, Unawaited
<1>2. OldAlive'
  BY DEF ChangeInv, OldAlive
<1>3. ChangesReachTheRuntime'
  BY DEF ChangeInv, ChangesReachTheRuntime, deferVars
<1> QED BY <1>1, <1>2, <1>3 DEF ChangeInv

\* Processes come to no change, and those that exit are forgotten.
LEMMA ProcessesReach ==
  ASSUME LostInv, ChangeInv,
         \/ \E c \in Runtime : Listen(c) \/ Ready(c) \/ Falter(c) \/ Exits(c)
         \/ \E c \in Child : ExitEvent(c) \/ ExitHandled(c)
         \/ Look
  PROVE  ChangeInv'
<1>1. UNCHANGED <<lock, at, deferVars>>
  BY DEF Listen, Ready, Falter, Exits, ChildOnly, ExitEvent, ExitHandled, Look, lockVars,
         callVars
<1>2. life \in [Runtime -> {"none", "launched", "unready", "healthy", "killed"}]
      /\ outdated \subseteq Runtime
  BY DEF LostInv, TypeOK, Runtime
<1>3. outdated' \subseteq outdated
  BY DEF Listen, Ready, Falter, Exits, Gone, ExitEvent, ExitHandled, Look
<1>4. \A c \in outdated' : (Living(c)' => Living(c)) /\ (life[c] # "none" => life'[c] # "none")
  <2>1. ASSUME NEW c \in Runtime, Gone(c) PROVE \A d \in outdated' : life'[d] = life[d]
    BY <1>2, <2>1 DEF Gone
  <2>2. ASSUME NEW c \in Runtime, Listen(c) \/ Ready(c) \/ Falter(c), ~Gone(c)
        PROVE  /\ life[c] \in {"launched", "unready", "healthy"}
               /\ \E l \in {"unready", "healthy"} : life' = [life EXCEPT ![c] = l]
    BY <2>2 DEF Listen, Ready, Falter
  <2>3. CASE UNCHANGED life
    BY <2>3 DEF Living
  <2>4. CASE \E c \in Runtime : Listen(c) \/ Ready(c) \/ Falter(c) \/ Exits(c)
    <3>1. PICK c \in Runtime : Listen(c) \/ Ready(c) \/ Falter(c) \/ Exits(c)
      BY <2>4
    <3>2. CASE Gone(c)
      BY <1>2, <2>1, <3>2 DEF Living
    <3>3. CASE ~Gone(c)
      <4>1. Listen(c) \/ Ready(c) \/ Falter(c)
        BY <3>1, <3>3 DEF Exits
      <4> QED BY <1>2, <1>3, <2>2, <3>3, <4>1 DEF Living
    <3> QED BY <3>2, <3>3
  <2> QED
    BY <2>3, <2>4 DEF ExitEvent, ExitHandled, Look, childVars
<1>5. Unawaited'
  BY <1>1 DEF ChangeInv, Unawaited
<1>6. OldAlive'
  BY <1>3, <1>4 DEF ChangeInv, OldAlive
<1>7. ChangesReachTheRuntime'
  BY <1>1, <1>3, <1>4 DEF ChangeInv, ChangesReachTheRuntime, deferVars
<1> QED BY <1>5, <1>6, <1>7 DEF ChangeInv

\* Jobs keep the restarts that are under way until no old child is alive.
LEMMA JobsReach == ASSUME LostInv, ChangeInv, JobStep PROVE ChangeInv'
<1>1. TypeOK
  BY DEF LostInv
<1>2. CASE StartRefreshes \/ StartFails \/ BootFails
  BY <1>2, DoneReaches DEF StartRefreshes, StartFails, BootFails, Holds, LockOnly
<1>3. CASE StartBegins \/ BootHealthy \/ StopBegins
  BY <1>3, GotoReaches
  DEF StartBegins, BootHealthy, StopBegins, LockOnly, Goto, Living, childVars
<1>4. ASSUME NEW phase \in {"preflight", "relaunch"}, ProbePort(phase) PROVE ChangeInv'
  BY <1>4, GotoReaches DEF ProbePort, Available, LockOnly, Goto, Living
<1>5. CASE Spawn
  <2> DEFINE c == CHOOSE d \in Free : TRUE
  <2>1. c \in Free
    BY <1>5 DEF Spawn
  <2>2. life' = [life EXCEPT ![c] = "launched"] /\ life[c] = "none"
    BY <1>5, <2>1 DEF Spawn, Free
  <2> HIDE DEF c
  <2>3. \A d \in outdated : d # c /\ d \in Runtime
    BY <1>1, <2>2 DEF ChangeInv, OldAlive, TypeOK, Runtime
  <2>4. \A d \in outdated : life'[d] = life[d]
    BY <1>1, <2>2, <2>3 DEF TypeOK
  <2> QED
    BY <1>5, <2>4, GotoReaches DEF Spawn, LockOnly, Goto, Living
<1>6. CASE StopProbed
  <2>1. CASE Done
    BY <1>6, <2>1, DoneReaches DEF StopProbed, Holds, LockOnly
  <2>2. CASE Goto(Detached("stop"))
    BY <1>6, <2>2, GotoReaches DEF StopProbed, LockOnly, Goto, Living
  <2> QED BY <1>6, <2>1, <2>2 DEF StopProbed
<1>7. CASE StopKills
  <2>1. \A c \in Child : life'[c] \in {life[c], "killed"}
                      /\ (life[c] = "none" <=> life'[c] = "none")
    BY <1>1, <1>7 DEF StopKills, TypeOK, Runtime
  <2> QED
    BY <1>1, <1>7, <2>1, GotoReaches DEF StopKills, LockOnly, Goto, Living, TypeOK
<1>8. CASE StopSettles
  <2>1. Holds("stop", "signalled") => ~Living(job.child)
    BY <1>8 DEF StopSettles, Holds, Living
  <2> QED
    BY <1>8, <2>1, DoneReaches DEF StopSettles, Holds, LockOnly
<1>9. CASE KillRecorded
  <2>1. \A c \in Child : life'[c] \in {life[c], "killed"}
                      /\ (life[c] = "none" <=> life'[c] = "none")
    BY <1>1, <1>9 DEF KillRecorded, TypeOK, Runtime
  <2> QED
    BY <1>1, <1>9, <2>1, GotoReaches DEF KillRecorded, LockOnly, Goto, Living, TypeOK
<1>10. CASE Drained
  <2>1. CASE Done
    BY <1>10, <2>1, DoneReaches DEF Drained, Holds, LockOnly
  <2>2. CASE ~Done
    <3>1. \E s : Goto(s)
      BY <1>10, <2>2 DEF Drained, Available
    <3> QED
      BY <1>10, <3>1, GotoReaches DEF Drained, LockOnly, Goto, Living
  <2> QED BY <2>1, <2>2
<1> QED
  BY <1>2, <1>3, <1>4, <1>5, <1>6, <1>7, <1>8, <1>9, <1>10 DEF JobStep

\* Queueing a job that is no start of a restart.
LEMMA EnqueueUnawaited ==
  ASSUME Unawaited, NEW kind \in {"start", "stop"}, NEW a \in Actor \cup {Nobody},
         kind = "start" => a \notin Restarter \cup {Ticker}, lock' = Queued(kind, a)
  PROVE  Unawaited'
  BY DEF Unawaited, Queued, Job

\* A restart ends only when it has stopped the runtime or is deferred.
LEMMA CallersReach ==
  ASSUME LostInv, ChangeInv,
         \/ \E a \in Asker : Ask(a) \/ AskerStep(a)
         \/ \E r \in Restarter : Change(r)
         \/ \E r \in Restarter \cup {Ticker} : Decide(r) \/ Resume(r)
         \/ TimerFires \/ Quit
  PROVE  ChangeInv'
<1> USE DesktopRuntimeAssumption DEF DesktopRuntimeAssumption
<1>1. life' = life
  BY DEF Ask, AskerStep, AskerStarted, AskerWaited, AskerRefreshed, AskerRetries, Change,
         Decide, Resume, TimerFires, Quit, CallOnly, childVars
<1>2. at \in [Actor -> ActorPlace]
  BY DEF LostInv, TypeOK
<1>3. CASE \E a \in Asker : Ask(a) \/ AskerStep(a)
  <2>1. PICK a \in Asker : Ask(a) \/ AskerStep(a)
    BY <1>3
  <2>2. a \in Actor /\ a \notin Restarter \cup {Ticker}
    BY DEF Actor
  <2>3. UNCHANGED <<outdated, deferVars>>
    BY <2>1 DEF Ask, AskerStep, AskerStarted, AskerWaited, AskerRefreshed, AskerRetries
  <2>4. lock' = lock \/ \E kind \in {"start", "stop"} : lock' = Queued(kind, a)
    BY <2>1
    DEF Ask, AskerStep, AskerStarted, AskerWaited, AskerRefreshed, AskerRetries, Enqueue
  <2>5. Unawaited'
    BY <2>2, <2>4, EnqueueUnawaited DEF ChangeInv, Unawaited
  <2>6. \A r \in Restarter \cup {Ticker} : at'[r] = at[r]
    BY <1>2, <2>1, <2>2
    DEF Ask, AskerStep, AskerStarted, AskerWaited, AskerRefreshed, AskerRetries, Enqueue,
        Actor
  <2>7. ChangesReachTheRuntime'
    BY <1>1, <2>3, <2>6 DEF ChangeInv, ChangesReachTheRuntime, Living, deferVars
  <2> QED
    BY <1>1, <2>3, <2>5, <2>7 DEF ChangeInv, OldAlive
<1>4. ASSUME NEW r \in Restarter, Change(r) PROVE ChangeInv'
  <2>1. at'[r] = "probe"
    BY <1>2, <1>4 DEF Change, Actor
  <2> QED
    BY <1>1, <1>4, <2>1
    DEF Change, ChangeInv, Unawaited, OldAlive, ChangesReachTheRuntime
<1>5. ASSUME NEW r \in Restarter \cup {Ticker}, Decide(r) PROVE ChangeInv'
  <2>1. r \in Actor /\ outdated' = outdated
    BY <1>5 DEF Decide, Actor
  <2>2. OldAlive'
    BY <1>1, <2>1 DEF ChangeInv, OldAlive
  <2>3. CASE Defers(r)
    <3>1. Unawaited'
      BY <2>3 DEF Defers, ChangeInv, Unawaited
    <3>2. ASSUME r # Ticker PROVE ChangesReachTheRuntime'
      BY <2>3, <3>2 DEF Defers, ChangesReachTheRuntime
    <3>3. ASSUME r = Ticker PROVE ChangesReachTheRuntime'
      <4>1. at[Ticker] = "probe" /\ \A q \in Restarter : at'[q] = at[q]
        BY <1>2, <1>5, <2>3, <3>3 DEF Decide, Defers, Actor
      <4> QED
        BY <1>1, <2>1, <2>3, <3>3, <4>1
        DEF Defers, ChangeInv, ChangesReachTheRuntime, Living, deferVars
    <3>4. ChangesReachTheRuntime'
      BY <3>2, <3>3
    <3> QED BY <2>2, <3>1, <3>4 DEF ChangeInv
  <2>4. CASE Enqueue("stop", r)
    <3>1. Unawaited'
      BY <2>1, <2>4, EnqueueUnawaited DEF Enqueue, ChangeInv
    <3>2. at'[r] = "stop"
      BY <1>2, <2>1, <2>4 DEF Enqueue
    <3> QED
      BY <2>2, <3>1, <3>2 DEF ChangeInv, ChangesReachTheRuntime
  <2> QED BY <1>5, <2>3, <2>4 DEF Decide
<1>6. ASSUME NEW r \in Restarter \cup {Ticker}, Resume(r) PROVE ChangeInv'
  <2>1. UNCHANGED <<outdated, deferVars>> /\ at[r] = "stopped"
    BY <1>6 DEF Resume
  <2>2. Unawaited'
    BY <1>6, EnqueueUnawaited DEF Resume, ChangeInv, Actor
  <2>3. \A q \in (Restarter \cup {Ticker}) \ {r} : at'[q] = at[q]
    BY <1>2, <1>6 DEF Resume, Actor
  <2>4. ChangesReachTheRuntime'
    BY <1>1, <2>1, <2>3 DEF ChangeInv, ChangesReachTheRuntime, Living, deferVars
  <2> QED
    BY <1>1, <2>1, <2>2, <2>4 DEF ChangeInv, OldAlive
<1>7. CASE TimerFires
  <2>1. at[Ticker] = "new" /\ \A q \in Restarter : at'[q] = at[q]
    BY <1>2, <1>7 DEF TimerFires, Actor
  <2> QED
    BY <1>1, <1>7, <2>1
    DEF TimerFires, ChangeInv, Unawaited, OldAlive, ChangesReachTheRuntime, Living, deferVars
<1>8. CASE Quit
  <2>1. \A q \in Restarter \cup {Ticker} : at'[q] = at[q]
    BY <1>2, <1>8 DEF Quit, Enqueue, Actor
  <2>2. Unawaited'
    BY <1>8, EnqueueUnawaited DEF Quit, Enqueue, ChangeInv, Actor
  <2> QED
    BY <1>1, <1>8, <2>1, <2>2
    DEF Quit, ChangeInv, OldAlive, ChangesReachTheRuntime, Living, deferVars
<1> QED
  BY <1>3, <1>4, <1>5, <1>6, <1>7, <1>8

\* No child that was there before the last change of the configuration is kept,
\* however restarts, the watcher of a deferred one and the jobs overtake each
\* other.
THEOREM ChangesReach == Spec => []ChangesReachTheRuntime
<1>1. Init => ChangeInv
  <2>1. Init => Unawaited
    <3> SUFFICES ASSUME Init PROVE Unawaited
      OBVIOUS
    <3>1. Nobody \notin Restarter \cup {Ticker}
      BY DesktopRuntimeAssumption DEF DesktopRuntimeAssumption, Actor
    <3> QED BY <3>1 DEF Init, Unawaited, Job
  <2> QED BY <2>1 DEF Init, ChangeInv, OldAlive, ChangesReachTheRuntime
<1>2. LostInv /\ ChangeInv /\ [Next]_vars => ChangeInv'
  <2> SUFFICES ASSUME LostInv, ChangeInv, [Next]_vars PROVE ChangeInv'
    OBVIOUS
  <2>1. CASE UNCHANGED vars
    BY <2>1, GotoReaches DEF vars, childVars, lockVars, callVars, Living
  <2> QED
    BY <2>1, ProcessesReach, JobsReach, CallersReach DEF Next
<1>3. ChangeInv => ChangesReachTheRuntime
  BY DEF ChangeInv
<1> QED
  BY <1>1, <1>2, <1>3, LostInvAlways, PTL DEF Spec

--------------------------------------------------------------------------------
(* Every call that waits for the lock has its job *)

Waits == {"start", "stop"}

JobsIn(q, a) == {k \in DOMAIN q : q[k].who = a}

\* The jobs that caller a has in q when it is at p.
OneJob(q, p, a) ==
  IF p \in Waits THEN \E k \in DOMAIN q : q[k].kind = p /\ JobsIn(q, a) = {k}
  ELSE JobsIn(q, a) = {}

\* enqueueRuntimeLifecycle: who waits for a start or a stop has one job in the chain,
\* of that kind, and who does not wait has none: no caller is forgotten, and none is
\* answered by the job of an earlier call.
CallersHaveOneJob == \A a \in Actor : OneJob(lock, at[a], a)

\* The queue is left alone, and so are those that wait.
LEMMA SameJobs ==
  ASSUME CallersHaveOneJob, lock' = lock,
         \A a \in Actor : at'[a] = at[a] \/ (at[a] \notin Waits /\ at'[a] \notin Waits)
  PROVE  CallersHaveOneJob'
BY DEF CallersHaveOneJob, OneJob

\* A job is queued for a caller that waits for none, or for nobody.
LEMMA OneMoreJob ==
  ASSUME TypeOK, CallersHaveOneJob, NEW kind \in Waits, NEW b \in Actor \cup {Nobody},
         lock' = Queued(kind, b),
         b \in Actor => at[b] \notin Waits /\ at'[b] = kind,
         \A a \in Actor \ {b} : at'[a] = at[a] \/ (at[a] \notin Waits /\ at'[a] \notin Waits)
  PROVE  CallersHaveOneJob'
<1> DEFINE n == Len(lock) + 1
<1>1. /\ Len(lock) \in Nat /\ DOMAIN lock = 1..Len(lock) /\ DOMAIN lock' = 1..n
      /\ \A k \in DOMAIN lock : lock'[k] = lock[k]
      /\ lock'[n] = [kind |-> kind, who |-> b]
  BY DEF TypeOK, Queued
<1>2. n \in DOMAIN lock' /\ n \notin DOMAIN lock /\ DOMAIN lock' = DOMAIN lock \cup {n}
      /\ lock'[n].who = b /\ lock'[n].kind = kind
  BY <1>1
<1> HIDE DEF n
<1>3. \A a \in Actor \ {b} : JobsIn(lock', a) = JobsIn(lock, a)
  BY <1>1, <1>2 DEF JobsIn
<1>4. ASSUME NEW a \in Actor \ {b} PROVE OneJob(lock', at'[a], a)
  BY <1>1, <1>2, <1>3, <1>4 DEF CallersHaveOneJob, OneJob
<1>5. ASSUME b \in Actor PROVE OneJob(lock', at'[b], b)
  <2>1. JobsIn(lock, b) = {}
    BY <1>5 DEF CallersHaveOneJob, OneJob
  <2>2. \A k \in DOMAIN lock : lock'[k].who # b
    BY <1>1, <2>1 DEF JobsIn
  <2>3. JobsIn(lock', b) = {n} /\ at'[b] = kind
    BY <1>2, <1>5, <2>2 DEF JobsIn
  <2> QED BY <1>2, <2>3 DEF OneJob
<1> QED BY <1>4, <1>5 DEF CallersHaveOneJob

\* The first job is done, and its caller goes on.
LEMMA OneJobLess ==
  ASSUME TypeOK, CallersHaveOneJob, lock # <<>>, Done PROVE CallersHaveOneJob'
<1> DEFINE w == Head(lock).who
<1>1. /\ DOMAIN lock = 1..Len(lock) /\ Len(lock) \in Nat \ {0} /\ Head(lock) = lock[1]
      /\ lock' = Tail(lock) /\ DOMAIN lock' = 1..(Len(lock) - 1)
      /\ \A k \in DOMAIN lock' : lock'[k] = lock[k + 1]
  BY DEF TypeOK, Done
<1>2. \A a \in Actor : IF a = w THEN at'[a] \notin Waits ELSE at'[a] = at[a]
  BY DEF Done, Waits
<1>3. w = lock[1].who /\ 1 \in DOMAIN lock
  BY <1>1
<1> HIDE DEF w
<1>4. ASSUME NEW a, NEW k
      PROVE  k \in JobsIn(lock', a) <=> k \in 1..(Len(lock) - 1) /\ k + 1 \in JobsIn(lock, a)
  BY <1>1 DEF JobsIn
<1>5. ASSUME w \in Actor PROVE OneJob(lock', at'[w], w)
  <2>1. 1 \in JobsIn(lock, w)
    BY <1>3 DEF JobsIn
  <2>2. JobsIn(lock, w) = {1}
    BY <1>5, <2>1 DEF CallersHaveOneJob, OneJob
  <2>3. \A k \in 1..(Len(lock) - 1) : k + 1 # 1
    BY <1>1
  <2>4. JobsIn(lock', w) = {}
    BY <1>4, <2>2, <2>3
  <2> QED BY <1>2, <1>5, <2>4 DEF OneJob
<1>6. ASSUME NEW a \in Actor \ {w}, at[a] \notin Waits PROVE OneJob(lock', at'[a], a)
  <2>1. JobsIn(lock, a) = {}
    BY <1>6 DEF CallersHaveOneJob, OneJob
  <2>2. JobsIn(lock', a) = {}
    BY <1>4, <2>1
  <2> QED BY <1>2, <1>6, <2>2 DEF OneJob
<1>7. ASSUME NEW a \in Actor \ {w}, at[a] \in Waits PROVE OneJob(lock', at'[a], a)
  <2>1. PICK k \in DOMAIN lock : lock[k].kind = at[a] /\ JobsIn(lock, a) = {k}
    BY <1>7 DEF CallersHaveOneJob, OneJob
  <2>2. k # 1
    BY <1>3, <2>1 DEF JobsIn
  <2> DEFINE n == k - 1
  <2>3. n \in DOMAIN lock' /\ n \in 1..(Len(lock) - 1) /\ n + 1 = k
    BY <1>1, <2>1, <2>2
  <2>4. \A m \in 1..(Len(lock) - 1) : m + 1 = k => m = n
    BY <1>1, <2>1
  <2>5. lock'[n].kind = at[a]
    BY <1>1, <2>1, <2>3
  <2> HIDE DEF n
  <2>6. JobsIn(lock', a) = {n}
    BY <1>4, <2>1, <2>3, <2>4
  <2> QED BY <1>2, <1>7, <2>3, <2>5, <2>6 DEF OneJob
<1> QED BY <1>5, <1>6, <1>7 DEF CallersHaveOneJob

LEMMA JobsKeepCallers == ASSUME TypeOK, CallersHaveOneJob, JobStep PROVE CallersHaveOneJob'
<1>1. lock # <<>>
  BY DEF JobStep, StartBegins, StartRefreshes, StartFails, BootHealthy, BootFails, ProbePort,
         Spawn, StopBegins, StopProbed, StopKills, StopSettles, KillRecorded, Drained, Holds
<1>2. Done \/ UNCHANGED <<lock, at>>
  <2>1. CASE \/ StartBegins \/ StartRefreshes \/ StartFails \/ BootHealthy \/ BootFails \/ Spawn
             \/ \E phase \in {"preflight", "relaunch"} : ProbePort(phase)
    BY <2>1 DEF StartBegins, StartRefreshes, StartFails, BootHealthy, BootFails, Spawn, ProbePort,
                Available, Goto
  <2>2. CASE StopBegins \/ StopProbed \/ StopKills \/ StopSettles \/ KillRecorded \/ Drained
    BY <2>2 DEF StopBegins, StopProbed, StopKills, StopSettles, KillRecorded, Drained, Available,
                Goto
  <2> QED BY <2>1, <2>2 DEF JobStep
<1>3. CASE UNCHANGED <<lock, at>>
  BY <1>3, SameJobs
<1> QED BY <1>1, <1>2, <1>3, OneJobLess

LEMMA AskersKeepJobs ==
  ASSUME TypeOK, CallersHaveOneJob, NEW a \in Asker, Ask(a) \/ AskerStep(a)
  PROVE  CallersHaveOneJob'
<1>1. a \in Actor /\ at \in [Actor -> ActorPlace] /\ at[a] \notin Waits
  BY DEF Actor, TypeOK, Waits, Ask, AskerStep, AskerStarted, AskerWaited, AskerRefreshed,
         AskerRetries
<1>2. CASE Ask(a) \/ AskerRetries(a) \/ (AskerRefreshed(a) /\ Enqueue("stop", a))
  <2>1. PICK kind \in Waits : Enqueue(kind, a)
    BY <1>2 DEF Ask, AskerRetries, Waits
  <2>2. lock' = Queued(kind, a) /\ at' = [at EXCEPT ![a] = kind]
    BY <2>1 DEF Enqueue
  <2> QED BY <1>1, <2>2, OneMoreJob
<1>3. CASE AskerStarted(a) \/ AskerWaited(a) \/ (AskerRefreshed(a) /\ UNCHANGED lock)
  <2>1. CASE AskerStarted(a) \/ AskerWaited(a)
    <3>1. lock' = lock /\ \A b \in Actor \ {a} : at'[b] = at[b]
      BY <1>1, <2>1 DEF AskerStarted, AskerWaited
    <3>2. at[a] \notin Waits /\ at'[a] \notin Waits
      BY <1>1, <2>1 DEF AskerStarted, AskerWaited, Waits
    <3> QED BY <3>1, <3>2, SameJobs
  <2>2. CASE AskerRefreshed(a) /\ UNCHANGED lock
    <3>1. lock' = lock /\ at[a] \notin Waits
      BY <2>2 DEF AskerRefreshed, Waits
    <3>2. (\E p \in {"ok", "failed"} : at' = [at EXCEPT ![a] = p]) \/ Enqueue("stop", a)
      BY <2>2 DEF AskerRefreshed
    <3>3. CASE \E p \in {"ok", "failed"} : at' = [at EXCEPT ![a] = p]
      BY <1>1, <3>1, <3>3, SameJobs DEF Waits
    <3>4. CASE Enqueue("stop", a)
      BY <1>2, <2>2, <3>4
    <3> QED BY <3>2, <3>3, <3>4
  <2> QED BY <1>3, <2>1, <2>2
<1> QED BY <1>2, <1>3 DEF AskerStep, AskerRefreshed

LEMMA RestartsKeepJobs ==
  ASSUME TypeOK, CallersHaveOneJob,
         \/ \E r \in Restarter : Change(r)
         \/ \E r \in Restarter \cup {Ticker} : Decide(r) \/ Resume(r)
         \/ TimerFires \/ Quit
  PROVE  CallersHaveOneJob'
<1> USE DEF Waits
<1>1. at \in [Actor -> ActorPlace] /\ Restarter \cup {Ticker, Quitter} \subseteq Actor
      /\ Nobody \notin Actor
  BY DesktopRuntimeAssumption DEF TypeOK, Actor, DesktopRuntimeAssumption
<1>2. ASSUME NEW r \in Actor, at[r] \notin Waits, Enqueue("stop", r) PROVE CallersHaveOneJob'
  <2>1. lock' = Queued("stop", r) /\ at' = [at EXCEPT ![r] = "stop"]
    BY <1>2 DEF Enqueue
  <2> QED BY <1>1, <1>2, <2>1, OneMoreJob
<1>3. ASSUME NEW r \in Actor, at[r] \notin Waits, lock' = lock,
             NEW p \in ActorPlace \ Waits, at' = [at EXCEPT ![r] = p]
      PROVE  CallersHaveOneJob'
  BY <1>1, <1>3, SameJobs
<1>4. ASSUME NEW r \in Restarter, Change(r) PROVE CallersHaveOneJob'
  <2>1. r \in Actor /\ at[r] \notin Waits /\ lock' = lock /\ at' = [at EXCEPT ![r] = "probe"]
    BY <1>1, <1>4 DEF Change
  <2> QED BY <1>3, <2>1 DEF ActorPlace
<1>5. ASSUME NEW r \in Restarter \cup {Ticker}, Decide(r) PROVE CallersHaveOneJob'
  <2>1. r \in Actor /\ at[r] \notin Waits
    BY <1>1, <1>5 DEF Decide
  <2>2. CASE Defers(r)
    <3>1. PICK p \in {"new", "done"} : at' = [at EXCEPT ![r] = p] /\ lock' = lock
      BY <2>2 DEF Defers
    <3> QED BY <1>3, <2>1, <3>1 DEF ActorPlace
  <2> QED BY <1>2, <1>5, <2>1, <2>2 DEF Decide
<1>6. ASSUME NEW r \in Restarter \cup {Ticker}, Resume(r) PROVE CallersHaveOneJob'
  <2>1. r \in Actor /\ at[r] = "stopped" /\ lock' = Queued("start", Nobody)
    BY <1>1, <1>6 DEF Resume
  <2>2. PICK p \in {"new", "done"} : at' = [at EXCEPT ![r] = p]
    BY <1>6 DEF Resume
  <2>3. \A a \in Actor : at'[a] = at[a] \/ (at[a] \notin Waits /\ at'[a] \notin Waits)
    BY <1>1, <2>1, <2>2
  <2> QED BY <1>1, <2>1, <2>3, OneMoreJob
<1>7. CASE TimerFires
  BY <1>1, <1>3, <1>7 DEF TimerFires, ActorPlace
<1>8. CASE Quit
  BY <1>1, <1>2, <1>8 DEF Quit
<1> QED BY <1>4, <1>5, <1>6, <1>7, <1>8

\* However calls, restarts, the watcher and the quit overtake each other, each call that
\* waits for the lock has one job in it, and no other has any.
THEOREM CallersAreQueued == Spec => []CallersHaveOneJob
<1>1. Init => CallersHaveOneJob
  <2> SUFFICES ASSUME Init PROVE CallersHaveOneJob
    OBVIOUS
  <2>1. Nobody \notin Actor
    BY DesktopRuntimeAssumption DEF DesktopRuntimeAssumption
  <2>2. \A k \in DOMAIN lock : lock[k].who = Nobody
    BY DEF Init
  <2>3. \A a \in Actor : at[a] \notin Waits
    BY DEF Init, Waits
  <2> QED BY <2>1, <2>2, <2>3 DEF CallersHaveOneJob, OneJob, JobsIn
<1>2. TypeOK /\ CallersHaveOneJob /\ [Next]_vars => CallersHaveOneJob'
  <2> SUFFICES ASSUME TypeOK, CallersHaveOneJob, [Next]_vars PROVE CallersHaveOneJob'
    OBVIOUS
  <2>1. CASE UNCHANGED <<lock, at>>
    BY <2>1, SameJobs
  <2>2. ASSUME NEW c \in Runtime, \/ Listen(c) \/ Ready(c) \/ Falter(c) \/ Exits(c)
                                  \/ ExitEvent(c) \/ ExitHandled(c)
        PROVE  CallersHaveOneJob'
    BY <2>1, <2>2 DEF Listen, Ready, Falter, Exits, ExitEvent, ExitHandled, ChildOnly, lockVars,
                      callVars
  <2>3. CASE Look \/ UNCHANGED vars
    BY <2>1, <2>3 DEF Look, vars, lockVars, callVars
  <2> QED
    BY <2>2, <2>3, JobsKeepCallers, AskersKeepJobs, RestartsKeepJobs DEF Next, Runtime
<1> QED BY <1>1, <1>2, TypeCorrect, PTL DEF Spec

================================================================================

----------------------------- MODULE DesktopRuntime -----------------------------
(***************************************************************************)
(* The desktop's main process and the runtime it embeds.  Starting and     *)
(* stopping the runtime goes through a lock, a chain of promises; what     *)
(* wants a start or a stop queues a job and is overtaken at every await:   *)
(* requests that need a runtime and recover it once, restarts that wait    *)
(* until no session is busy, the exit handler of a child, and the cleanup  *)
(* before the application quits.  A row that survives the application      *)
(* names the runtime's process and the launch that wrote it.               *)
(*                                                                         *)
(* POSIX, a complete bundle, one profile.  Whatever answers the health     *)
(* probe is one of the processes below.                                    *)
(***************************************************************************)
EXTENDS Integers, Sequences

CONSTANTS
  Child,     \* bound: the children of this launch that exist at a time
  Orphan,    \* the runtime that an earlier launch may have left
  NoChild,
  Asker,     \* bound: the calls of ensureRuntimeReady
  Restarter, \* bound: the changes of the configuration, each with a restart
  Ticker,    \* the timer of a deferred restart
  Quitter,   \* the cleanup before the application quits
  Nobody,    \* a start that nobody waits for
  MaxEvents  \* bound: an orphan, crashes, lapses and refusals to die of processes,
             \* failing starts and refreshes by a window, together

Runtime == Child \cup {Orphan}
Actor == Asker \cup Restarter \cup {Ticker, Quitter}

ASSUME DesktopRuntimeAssumption ==
  /\ Orphan \notin Child /\ NoChild \notin Runtime
  /\ Asker \cap Restarter = {} /\ Ticker # Quitter /\ Nobody \notin Actor
  /\ {Ticker, Quitter} \cap (Asker \cup Restarter) = {}
  /\ MaxEvents \in Nat \ {0}

VARIABLES
  life,      \* the operating system: what each process does
  outdated,  \* the children that the last change of the configuration found (history)
  exit,      \* the exit event of a child: pending, or its handler awaits a probe
  handle,    \* runtimeProcess
  intent,    \* intentionallyStoppedRuntimeProcesses
  status,    \* runtimeStatus.status
  lastError, \* runtimeStatus.lastError
  record,    \* runtime_process_state: pid, and whether launch_id is this launch's
  lock,      \* runtimeLifecycleChain: the jobs, the first one holds the lock
  job,       \* where the first job awaits
  at,        \* where each actor awaits
  told,      \* what the start returned to an asker
  tried,     \* the askers with attemptedRecovery
  deferred,  \* deferredRuntimeRestartReason is set
  timer,     \* deferredRuntimeRestartTimer is set
  \* history
  late,      \* a start was served after the quit's stop
  events

childVars == <<life, exit>>
stateVars == <<status, lastError, record>>
lockVars == <<lock, job>>
callVars == <<at, told, tried>>
deferVars == <<deferred, timer>>
vars == <<childVars, outdated, handle, intent, stateVars, lockVars, callVars, deferVars,
          late, events>>

--------------------------------------------------------------------------------
(* Values *)

Status == {"stopped", "starting", "running", "error"}

\* "health" is the message that the health checks were not passed.
Error == {"none", "health", "other"}

Job == [kind : {"start", "stop"}, who : Actor \cup {Nobody}]
Step == [at : {"queued", "refresh", "preflight", "relaunch", "spawn", "boot", "booted",
               "probe", "kill", "drain", "listener", "signalled", "killed"},
         next : {"none", "preflight", "relaunch", "stop"},
         child : Runtime \cup {NoChild}]
Untold == [status |-> "starting", error |-> "none"]
NoStep == [at |-> "queued", next |-> "none", child |-> NoChild]

\* runtimeStartupInFlight: a refresh that is returned, not awaited, runs after it.
StartInFlight ==
  lock # <<>> /\ Head(lock).kind = "start" /\ job.at \notin {"queued", "refresh"}

\* isRuntimeHealthy at the moment its probe is answered.
Healthy == \E c \in Runtime : life[c] = "healthy"

--------------------------------------------------------------------------------
(* Processes *)

Event == events < MaxEvents /\ events' = events + 1

Gone(c) ==
  /\ life' = [life EXCEPT ![c] = "none"]
  /\ exit' = [exit EXCEPT ![c] = IF c \in Child THEN "event" ELSE "none"]
  /\ outdated' = outdated \ {c}

ChildOnly ==
  /\ UNCHANGED <<handle, intent, stateVars, lockVars, callVars, deferVars, late>>

\* The runtime binds its port, or exits because the port is taken.
Listen(c) ==
  /\ life[c] = "launched"
  /\ \/ /\ \A d \in Runtime : life[d] \notin {"unready", "healthy"}
        /\ life' = [life EXCEPT ![c] = "unready"]
        /\ UNCHANGED <<exit, outdated>>
     \/ /\ \E d \in Runtime : life[d] \in {"unready", "healthy", "killed"}
        /\ Gone(c)
  /\ UNCHANGED events
  /\ ChildOnly

Ready(c) ==
  /\ life[c] = "unready"
  /\ life' = [life EXCEPT ![c] = "healthy"]
  /\ UNCHANGED <<exit, outdated, events>>
  /\ ChildOnly

Falter(c) ==
  /\ life[c] = "healthy"
  /\ Event
  /\ life' = [life EXCEPT ![c] = "unready"]
  /\ UNCHANGED <<exit, outdated>>
  /\ ChildOnly

\* SIGTERM of a stop or for the listener of the port, or SIGKILL.
Asked(c) == c \in intent \/ job.at = "listener" \/ life[c] = "killed"

\* It crashes, or does what it was asked to.
Exits(c) ==
  /\ life[c] # "none"
  /\ Gone(c)
  /\ IF Asked(c) THEN UNCHANGED events ELSE Event
  /\ ChildOnly

--------------------------------------------------------------------------------
(* Status *)

UnavailableMissing == IF StartInFlight \/ handle # NoChild THEN "starting" ELSE "missing"

\* runtimeUnavailableStatus.
Unavailable == IF StartInFlight \/ handle # NoChild THEN "starting" ELSE "stopped"

\* persistRuntimeProcessState stamps every write with this launch.
Persisted(pid) == record' = [pid |-> pid, ours |-> TRUE]

Served == IF handle # NoChild THEN handle ELSE IF record.ours THEN record.pid ELSE NoChild

Refreshed ==
  \/ /\ Healthy
     /\ status' = "running"
     /\ lastError' = "none"
     /\ Persisted(Served)
  \/ /\ ~Healthy
     /\ status' = Unavailable
     /\ lastError' = IF StartInFlight THEN "none" ELSE lastError
     /\ UNCHANGED record

Failed(error, pid) ==
  /\ status' = "error"
  /\ lastError' = error
  /\ Persisted(pid)

Halted ==
  /\ status' = "stopped"
  /\ lastError' = "none"
  /\ Persisted(NoChild)

\* A window refreshes the status.
Look ==
  /\ Refreshed
  /\ Event
  /\ UNCHANGED <<childVars, outdated, handle, intent, lockVars, callVars, deferVars, late>>

DroppedAlways(c) == NoChild

Dropped(c) == IF handle = c THEN NoChild ELSE handle

\* The exit event: the handle is dropped if it is this child's.
ExitEvent(c) ==
  /\ exit[c] = "event"
  /\ \E how \in IF c \in intent THEN {"clean"} ELSE {"clean", "crashed"} :
       exit' = [exit EXCEPT ![c] = how]
  /\ intent' = intent \ {c}
  /\ handle' = Dropped(c)
  /\ UNCHANGED <<life, outdated, stateVars, lockVars, callVars, deferVars, late, events>>

\* What the handler does once its probe is answered: another runtime may be
\* healthy, and the status is refreshed.
ExitHandled(c) ==
  /\ \/ /\ exit[c] \in {"clean", "crashed"} /\ Healthy
        /\ exit' = [exit EXCEPT ![c] = "refresh"]
        /\ UNCHANGED stateVars
     \/ /\ exit' = [exit EXCEPT ![c] = "none"]
        /\ \/ exit[c] = "refresh" /\ Refreshed
           \/ exit[c] = "clean" /\ ~Healthy /\ Halted
           \/ exit[c] = "crashed" /\ ~Healthy /\ Failed("other", NoChild)
  /\ UNCHANGED <<life, outdated, handle, intent, lockVars, callVars, deferVars, late, events>>

--------------------------------------------------------------------------------
(* The lock *)

Queued(kind, a) == Append(lock, [kind |-> kind, who |-> a])

Enqueue(kind, a) ==
  /\ lock' = Queued(kind, a)
  /\ at' = [at EXCEPT ![a] = kind]

\* The first job is done: the lock passes on, its caller goes on.
Done ==
  LET kind == Head(lock).kind
      who == Head(lock).who
  IN  /\ lock' = Tail(lock)
      /\ job' = NoStep
      /\ at' = [a \in Actor |-> IF a # who THEN at[a]
                                ELSE IF kind = "start" THEN "started" ELSE "stopped"]
      /\ told' = [a \in Asker |-> IF a = who /\ kind = "start"
                                  THEN [status |-> status', error |-> lastError'] ELSE told[a]]

Goto(step) ==
  /\ job' = step
  /\ UNCHANGED <<lock, at, told>>

Holds(kind, step) == lock # <<>> /\ Head(lock).kind = kind /\ job.at = step

Begun(step, c) == [at |-> step, next |-> "none", child |-> c]

\* terminateDetachedRuntime, called in the phase next.
Detached(next) == [at |-> "kill", next |-> next, child |-> record.pid]

LockOnly == UNCHANGED <<exit, intent, tried, deferVars>>

StartBegins ==
  /\ Holds("start", "queued")
  /\ Goto(Begun(IF handle # NoChild THEN "refresh" ELSE "preflight", NoChild))
  /\ UNCHANGED <<life, outdated, handle, stateVars, late, events>>
  /\ LockOnly

StartRefreshes ==
  /\ Holds("start", "refresh") \/ Holds("start", "booted")
  /\ Refreshed
  /\ Done
  /\ UNCHANGED <<life, outdated, handle, late, events>>
  /\ LockOnly

\* The port is free: report that the runtime starts, look again, and spawn.
Available(phase) ==
  IF phase = "preflight"
  THEN status' = "starting" /\ lastError' = "none" /\ Goto(Begun("relaunch", NoChild))
  ELSE UNCHANGED <<status, lastError>> /\ Goto(Begun("spawn", NoChild))

\* ensureRuntimePortAvailable.
ProbePort(phase) ==
  /\ Holds("start", phase)
  /\ \/ /\ ~Healthy
        /\ Available(phase)
        /\ UNCHANGED record
     \/ /\ Healthy
        /\ Goto(IF record.ours THEN Begun("refresh", NoChild) ELSE Detached(phase))
        /\ UNCHANGED stateVars
  /\ UNCHANGED <<life, outdated, handle, late, events>>
  /\ LockOnly

\* The databases or the bundle cannot be read.
StartFails ==
  /\ Holds("start", "preflight") \/ Holds("start", "spawn")
  /\ Failed("other", NoChild)
  /\ Done
  /\ Event
  /\ UNCHANGED <<life, outdated, handle, late>>
  /\ LockOnly

\* The name of a child that is gone and handled is used again.
Free == {c \in Child : life[c] = "none" /\ exit[c] = "none"}

Spawn ==
  /\ Holds("start", "spawn")
  /\ Free # {}
  /\ LET c == CHOOSE c \in Free : TRUE
     IN  /\ life' = [life EXCEPT ![c] = "launched"]
         /\ handle' = c
         /\ Persisted(c)
         /\ Goto(Begun("boot", c))
  /\ status' = "starting"
  /\ late' = (late \/ at[Quitter] = "stopped")
  /\ UNCHANGED <<outdated, lastError, events>>
  /\ LockOnly

BootHealthy ==
  /\ Holds("start", "boot")
  /\ Healthy
  /\ Goto(Begun("booted", NoChild))
  /\ UNCHANGED <<life, outdated, handle, stateVars, late, events>>
  /\ LockOnly

\* waitForRuntimeHealth gives up: its patience is over, or the child is gone.
BootFails ==
  /\ Holds("start", "boot")
  /\ Failed("health", job.child)
  /\ Done
  /\ UNCHANGED <<life, outdated, handle, late, events>>
  /\ LockOnly

\* stopEmbeddedRuntime takes the handle, and sends SIGTERM if there is a child.
StopBegins ==
  /\ Holds("stop", "queued")
  /\ handle' = NoChild
  /\ intent' = IF handle # NoChild THEN intent \cup {handle} ELSE intent
  /\ Goto(Begun(IF handle # NoChild THEN "signalled" ELSE "probe", handle))
  /\ UNCHANGED <<childVars, outdated, stateVars, tried, deferVars, late, events>>

\* There is no handle: a healthy runtime is terminated all the same.
StopProbed ==
  /\ Holds("stop", "probe")
  /\ \/ Healthy /\ Goto(Detached("stop")) /\ UNCHANGED stateVars
     \/ /\ ~Healthy
        /\ IF status \in {"running", "starting"}
           THEN status' = "stopped" /\ Persisted(NoChild) /\ UNCHANGED lastError
           ELSE UNCHANGED stateVars
        /\ Done
  /\ UNCHANGED <<life, outdated, handle, late, events>>
  /\ LockOnly

\* SIGKILL after three seconds; a process that is gone is not hit.
StopKills ==
  /\ Holds("stop", "signalled")
  /\ life' = [life EXCEPT ![job.child] = IF @ = "none" THEN "none" ELSE "killed"]
  /\ Goto([job EXCEPT !.at = "killed"])
  /\ UNCHANGED <<outdated, handle, stateVars, late, events>>
  /\ LockOnly

\* The child's exit settles the stop; a second after SIGKILL it need not.
StopSettles ==
  /\ Holds("stop", "signalled") \/ Holds("stop", "killed")
  /\ \/ life[job.child] = "none" /\ exit[job.child] # "event" /\ UNCHANGED events
     \/ job.at = "killed" /\ Event
  /\ Done
  /\ UNCHANGED <<life, outdated, handle, stateVars, late>>
  /\ LockOnly

\* terminateDetachedRuntime: the recorded process first ...
KillRecorded ==
  /\ lock # <<>> /\ job.at = "kill"
  /\ life' = [c \in Runtime |-> IF c = job.child /\ life[c] # "none" THEN "killed" ELSE life[c]]
  /\ Goto([job EXCEPT !.at = "drain"])
  /\ UNCHANGED <<outdated, handle, stateVars, late, events>>
  /\ LockOnly

\* ... then whoever listens, which SIGTERM asks to exit.
Drained ==
  /\ lock # <<>> /\ job.at \in {"drain", "listener"}
  /\ \/ /\ ~Healthy
        /\ \/ job.next = "stop" /\ Halted /\ Done
           \/ job.next # "stop" /\ Persisted(NoChild) /\ Available(job.next)
     \/ /\ Healthy /\ job.at = "drain"
        /\ Goto([job EXCEPT !.at = "listener"])
        /\ UNCHANGED stateVars
     \/ /\ Healthy /\ job.at = "listener"
        /\ Failed("other", NoChild)
        /\ Done
  /\ UNCHANGED <<life, outdated, handle, late, events>>
  /\ LockOnly

JobStep ==
  \/ StartBegins \/ StartRefreshes \/ StartFails \/ BootHealthy \/ BootFails
  \/ \E phase \in {"preflight", "relaunch"} : ProbePort(phase)
  \/ Spawn
  \/ StopBegins \/ StopProbed \/ StopKills \/ StopSettles \/ KillRecorded \/ Drained

--------------------------------------------------------------------------------
(* Callers *)

CallOnly == UNCHANGED <<childVars, handle, intent, job, late, events>>

\* ensureRuntimeReady calls startEmbeddedRuntime.
Ask(a) ==
  /\ at[a] = "new"
  /\ Enqueue("start", a)
  /\ UNCHANGED <<outdated, stateVars, told, tried, deferVars>>
  /\ CallOnly

AskerStarted(a) ==
  /\ at[a] = "started"
  /\ at' = [at EXCEPT ![a] = CASE told[a].status = "running" -> "ok"
                               [] told[a].status = "starting" -> "wait"
                               [] OTHER -> "refresh"]
  /\ UNCHANGED <<outdated, stateVars, lock, told, tried, deferVars>>
  /\ CallOnly

\* The runtime is healthy, or the patience is over.
AskerWaited(a) ==
  /\ at[a] = "wait"
  /\ at' = [at EXCEPT ![a] = "refresh"]
  /\ UNCHANGED <<outdated, stateVars, lock, told, tried, deferVars>>
  /\ CallOnly

\* The error that decides: the refreshed one, or else what the start returned.
Message(a) == IF lastError' # "none" THEN lastError' ELSE told[a].error

RecoversAlways(a) == Message(a) = "health"

Recovers(a) == Message(a) = "health" /\ a \notin tried

AskerRefreshed(a) ==
  /\ at[a] = "refresh"
  /\ Refreshed
  /\ \/ /\ status' = "running"
        /\ at' = [at EXCEPT ![a] = "ok"]
        /\ tried' = tried \ {a}
        /\ UNCHANGED lock
     \/ /\ status' # "running" /\ Recovers(a)
        /\ Enqueue("stop", a)
        /\ tried' = tried \cup {a}
     \/ /\ status' # "running" /\ ~Recovers(a)
        /\ at' = [at EXCEPT ![a] = "failed"]
        /\ tried' = tried \ {a}
        /\ UNCHANGED lock
  /\ told' = [told EXCEPT ![a] = Untold]
  /\ UNCHANGED <<outdated, deferVars>>
  /\ CallOnly

AskerRetries(a) ==
  /\ at[a] = "stopped"
  /\ Enqueue("start", a)
  /\ UNCHANGED <<outdated, stateVars, told, tried, deferVars>>
  /\ CallOnly

\* The configuration changes and restartEmbeddedRuntimeSafely is called.
Change(r) ==
  /\ at[r] = "new"
  /\ outdated' = {c \in Child : life[c] # "none"}
  /\ at' = [at EXCEPT ![r] = "probe"]
  /\ UNCHANGED <<stateVars, lock, told, tried, deferVars>>
  /\ CallOnly

DefersUnwatched(r) ==
  /\ at' = [at EXCEPT ![r] = IF r = Ticker THEN "new" ELSE "done"]
  /\ IF r = Ticker THEN UNCHANGED deferVars ELSE deferred' = TRUE /\ UNCHANGED timer
  /\ UNCHANGED lock

\* The restart is deferred: the watcher takes over.
Defers(r) ==
  /\ at' = [at EXCEPT ![r] = IF r = Ticker THEN "new" ELSE "done"]
  /\ IF r = Ticker THEN UNCHANGED deferVars ELSE deferred' = TRUE /\ timer' = TRUE
  /\ UNCHANGED lock

\* The probe is answered, in a restart or in a tick of the watcher.  A session
\* of a healthy runtime is busy or not; one that is not healthy blocks nothing.
Decide(r) ==
  /\ at[r] = "probe"
  /\ \/ Healthy /\ Defers(r)
     \/ /\ deferred' = FALSE /\ timer' = FALSE
        /\ Enqueue("stop", r)
  /\ UNCHANGED <<outdated, stateVars, told, tried>>
  /\ CallOnly

\* The runtime is stopped; the start is queued, and nobody waits for it.
Resume(r) ==
  /\ at[r] = "stopped"
  /\ lock' = Queued("start", Nobody)
  /\ at' = [at EXCEPT ![r] = IF r = Ticker THEN "new" ELSE "done"]
  /\ UNCHANGED <<outdated, stateVars, told, tried, deferVars>>
  /\ CallOnly

TimerFires ==
  /\ timer /\ deferred /\ at[Ticker] = "new"
  /\ at' = [at EXCEPT ![Ticker] = "probe"]
  /\ UNCHANGED <<outdated, stateVars, lock, told, tried, deferVars>>
  /\ CallOnly

\* before-quit, or the installation of an update: ensureAppQuitCleanup.  At any
\* moment after its stop the application is gone: a behaviour may end there.
Quit ==
  /\ at[Quitter] = "new"
  /\ Enqueue("stop", Quitter)
  /\ UNCHANGED <<outdated, stateVars, told, tried, deferVars>>
  /\ CallOnly

AskerStep(a) == AskerStarted(a) \/ AskerWaited(a) \/ AskerRefreshed(a) \/ AskerRetries(a)

--------------------------------------------------------------------------------

\* The application boots: runtimeStatus says "starting" and a start is queued.
Init ==
  /\ life \in {[c \in Runtime |-> IF c = Orphan THEN l ELSE "none"] :
                  l \in {"none", "unready", "healthy"}}
  /\ outdated = {}
  /\ exit = [c \in Runtime |-> "none"]
  /\ handle = NoChild
  /\ intent = {}
  /\ status = "starting"
  /\ lastError = "none"
  /\ \E pid \in IF life[Orphan] = "none" THEN {NoChild} ELSE {Orphan, NoChild} :
       record = [pid |-> pid, ours |-> FALSE]
  /\ lock = <<[kind |-> "start", who |-> Nobody]>>
  /\ job = NoStep
  /\ at = [a \in Actor |-> "new"]
  /\ told = [a \in Asker |-> Untold]
  /\ tried = {}
  /\ deferred = FALSE
  /\ timer = FALSE
  /\ late = FALSE
  /\ events = IF life[Orphan] = "none" THEN 0 ELSE 1

Next ==
  \/ \E c \in Runtime : Listen(c) \/ Ready(c) \/ Falter(c) \/ Exits(c)
  \/ \E c \in Child : ExitEvent(c) \/ ExitHandled(c)
  \/ Look
  \/ JobStep
  \/ \E a \in Asker : Ask(a) \/ AskerStep(a)
  \/ \E r \in Restarter : Change(r)
  \/ \E r \in Restarter \cup {Ticker} : Decide(r) \/ Resume(r)
  \/ TimerFires \/ Quit

Spec == Init /\ [][Next]_vars

\* Probes are answered or time out, timers fire, the event loop turns, and what
\* SIGKILL hits is gone in the end.  Nothing is assumed of users and runtimes.
FairSpec ==
  /\ Spec
  /\ WF_vars(JobStep)
  /\ \A c \in Child :
       /\ WF_vars(life[c] = "killed" /\ Exits(c))
       /\ WF_vars(ExitEvent(c))
       /\ WF_vars(ExitHandled(c))
  /\ \A a \in Asker : WF_vars(AskerStep(a))

--------------------------------------------------------------------------------
(* Properties *)

ActorPlace == {"new", "probe", "start", "started", "wait", "refresh", "stop", "stopped",
               "ok", "failed", "done"}

\* The variables keep their types.
TypeOK ==
  /\ life \in [Runtime -> {"none", "launched", "unready", "healthy", "killed"}]
  /\ outdated \subseteq Child
  /\ exit \in [Runtime -> {"none", "event", "clean", "crashed", "refresh"}]
  /\ handle \in Child \cup {NoChild}
  /\ intent \subseteq Child
  /\ status \in Status
  /\ lastError \in Error
  /\ record \in [pid : Runtime \cup {NoChild}, ours : BOOLEAN]
  /\ lock \in Seq(Job)
  /\ job \in Step
  /\ at \in [Actor -> ActorPlace]
  /\ told \in [Asker -> [status : Status, error : Error]]
  /\ tried \subseteq Asker
  /\ deferred \in BOOLEAN /\ timer \in BOOLEAN /\ late \in BOOLEAN
  /\ events \in 0..MaxEvents

Living(c) == life[c] \in {"launched", "unready", "healthy"}

\* stopEmbeddedRuntime and the exit handler drop the handle: a child that is
\* alive is the one the desktop holds, or the one that the stop under way has
\* signalled, so no two are in order at a time.  When the cleanup before the
\* quit is over none is left, unless a start was queued behind it, which the
\* code does not prevent.
NoRuntimeIsLost ==
  /\ \A c \in Child : Living(c) =>
       handle = c \/ (Holds("stop", "signalled") /\ job.child = c)
  /\ at[Quitter] = "stopped" /\ ~late => \A c \in Child : ~Living(c)

\* restartEmbeddedRuntimeSafely, which may overlap with others and with the
\* watcher of a deferred restart: a child that was spawned before the last
\* change of the configuration is not kept.  A restart is under way, or one is
\* deferred and the timer that looks for it runs.
ChangesReachTheRuntime ==
  (\E c \in outdated : Living(c)) =>
    \/ deferred /\ timer
    \/ \E r \in Restarter : at[r] \in {"probe", "stop"}
    \/ at[Ticker] = "stop"

\* ensureRuntimeReady returns or throws, whatever the runtime does: its recovery
\* is not repeated, and no job keeps the lock.
EveryAskerIsAnswered ==
  \A a \in Asker : at[a] = "start" ~> at[a] \in {"ok", "failed"}

================================================================================

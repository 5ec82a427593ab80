------------------------------ MODULE AppLifecycle ------------------------------
(***************************************************************************)
(* The processes of a workspace app.  The runtime spawns the app, keeps a  *)
(* handle and the ports of the child in memory and a status and a restart  *)
(* count in app_builds; routes and agent tools start, stop and restart the *)
(* app, ensureAppRunning brings it up, and a health monitor restarts it    *)
(* when it does not answer, a bounded number of times.  Each of them is an *)
(* asynchronous function that others overtake at every await.              *)
(*                                                                         *)
(* One shell-managed app with setup, start and stop commands, in one       *)
(* workspace.  A child that holds the HTTP port holds the MCP port; nobody *)
(* else listens on them.  SIGTERM asks a child to exit, which it may       *)
(* ignore.  The runtime may die at any moment and its children survive it. *)
(***************************************************************************)
EXTENDS Integers, FiniteSets

CONSTANTS
  Child,       \* bound: the children that are alive or referred to at a time
  NoChild,
  Healer,      \* bound: the restarts of the health monitor that overlap
  User,        \* the actor of the stop, restart and ensure requests
  MaxAttempts, \* MAX_AUTO_RESTART_ATTEMPTS
  MaxEvents    \* bound: the requests, the faults of a child and the deaths of
               \* the runtime, together

ASSUME AppLifecycleAssumption ==
  /\ NoChild \notin Child
  /\ User \notin Healer
  /\ MaxAttempts \in Nat
  /\ MaxEvents \in Nat

Actor == Healer \cup {User}

\* lifecycleMapKey: with the workspace, and the bare app id without it.  What is
\* kept under the bare id is read by nobody, and left out.
Key == {"ws", "bare"}

BuildStatus == {"pending", "building", "failed", "completed", "running", "stopped"}

VARIABLES
  child,    \* the operating system: what each child does
  termed,   \* the children that were sent SIGTERM
  proc,     \* shellLifecycleProcesses: the handle under the workspace's key
  ports,    \* shellLifecyclePorts has an entry under that key
  status,   \* app_builds.status
  attempts, \* app_builds.restart_attempts
  counted,  \* autoRestartAttempts, NoCount when it has no entry
  op,       \* appStartOperations: the start of the app that is in flight
  ensure,   \* appEnsureRunningTasks: the ensureAppRunning in flight
  starter,  \* the start route awaits, or queued, a start
  flow,     \* what each actor is doing: a stop and what follows it
  tick,     \* the cycle of the health monitor
  \* history
  heals,      \* restarts by the monitor since it last saw the app healthy
  lost,       \* those of them whose count died with a runtime that could not save it
  stragglers, \* children that were still starting when their start was over
  clash,      \* a child found the port taken by a child that is in order
  loose,      \* the app came up in a way that leaves its ports unknown
  events

opVars == <<op, ensure, starter>>
histVars == <<heals, lost, stragglers, clash, loose, events>>
memVars == <<proc, ports>>
vars == <<child, termed, memVars, status, attempts, counted, opVars, flow, tick, histVars>>

--------------------------------------------------------------------------------
(* Values *)

NoCount == -1
Forever == MaxAttempts + 2  \* bound: the count is not told apart from here on

NoOp == [phase |-> "none", key |-> "ws", setup |-> FALSE, child |-> NoChild]
Op == [phase : {"none", "probe", "setup", "reap", "wait"},
       key : Key, setup : BOOLEAN, child : Child \cup {NoChild}]

NoEnsure == [phase |-> "none", seen |-> "pending"]
Ensure == [phase : {"none", "probe", "setup", "start"}, seen : BuildStatus]

Idle == [phase |-> "idle", next |-> "stop", target |-> NoChild, failed |-> FALSE]
Flow == [phase : {"idle", "command", "kill", "ports", "free", "ensure"},
         next : {"stop", "restart", "heal", "ensure", "bringup"},
         target : Child \cup {NoChild}, failed : BOOLEAN]

Waiting == [Idle EXCEPT !.phase = "ensure", !.next = "ensure"]

NoTick == [phase |-> "idle", seen |-> "pending", attempts |-> 0]
Tick == [phase : {"idle", "probe"}, seen : BuildStatus, attempts : 0..Forever]

--------------------------------------------------------------------------------
(* Children *)

Alive(c) == c # NoChild /\ child[c] # "dead"
Holders == {c \in Child : child[c] \in {"serving", "hung"}}

Event == events < MaxEvents /\ events' = events + 1

\* isAppHealthy at the moment its probe is answered.
Healthy == \E c \in Child : child[c] = "serving"

\* A handle is of no use once its child has exited, and whoever uses one looks
\* at exitCode first: it is dropped here, and the next child may have the name.
Exited(c) ==
  /\ child' = [child EXCEPT ![c] = "dead"]
  /\ termed' = termed \ {c}
  /\ stragglers' = stragglers \ {c}
  /\ proc' = IF proc = c THEN NoChild ELSE proc
  /\ op' = [op EXCEPT !.child = IF @ = c THEN NoChild ELSE @]
  /\ flow' = [a \in Actor |->
                [flow[a] EXCEPT !.target = IF @ = c THEN NoChild ELSE @]]
  /\ UNCHANGED <<ports, status, attempts, counted, ensure, starter, tick, heals, lost, loose>>

\* The start is over for the children that still start.
Late == stragglers \cup {c \in Child : child[c] = "starting"}

\* A child that was given up: its start is over, or it was told to exit.
InOrder(c) == c \notin stragglers \cup termed

Listen(c) ==
  /\ child[c] = "starting"
  /\ Holders = {}
  /\ child' = [child EXCEPT ![c] = "serving"]
  /\ UNCHANGED <<termed, memVars, status, attempts, counted, opVars, flow, tick, histVars>>

\* The port is taken, and the child exits with EADDRINUSE.
LosePort(c) ==
  /\ child[c] = "starting"
  /\ Holders # {}
  /\ Exited(c)
  /\ clash' = (clash \/ (InOrder(c) /\ \E h \in Holders : InOrder(h)))
  /\ UNCHANGED events

\* A child stops answering without giving up the port, or answers again.
Falter(c) ==
  /\ c \in Holders
  /\ child' = [child EXCEPT ![c] = IF @ = "serving" THEN "hung" ELSE "serving"]
  /\ Event
  /\ UNCHANGED <<termed, memVars, status, attempts, counted, opVars, flow, tick,
                 heals, lost, stragglers, clash, loose>>

\* It crashes, or obeys SIGTERM.
Exit(c) ==
  /\ Alive(c)
  /\ Exited(c)
  /\ IF c \in termed THEN UNCHANGED events ELSE Event
  /\ UNCHANGED clash

--------------------------------------------------------------------------------
(* The end of an operation, and of those that await it *)

\* Mutant: an app that is running was never set up.
SetupDoneUnlessRunning(build) == build \in {"completed", "stopped"}

\* appBuildHasCompletedSetup
SetupDone(build) == build \in {"completed", "running", "stopped"}

\* Mutant: the result of the start is stored as it is.
StatusVerbatim == "started"

\* The status of an app whose start has succeeded.
StatusOfStart == "running"

\* Everybody who awaits ensureAppRunning goes on.  The monitor, when it was
\* bringing the app up, notes the failure of an app that never finished setup.
EndEnsure(ok, build) ==
  LET waiting == {a \in Actor : flow[a].phase = "ensure"} IN
  /\ ensure' = NoEnsure
  /\ flow' = [a \in Actor |-> IF a \in waiting THEN Idle ELSE flow[a]]
  /\ status' = CASE ok -> StatusOfStart
                 [] ~ok /\ ~SetupDone(build)
                        /\ \E a \in waiting : flow[a].next = "bringup" -> "failed"
                 [] OTHER -> build

\* Everybody who awaits the start goes on.
EndOp(ok) ==
  LET build == CASE starter # "idle" /\ ok -> StatusOfStart
                 [] starter = "background" /\ ~ok -> "failed"
                 [] OTHER -> status IN
  /\ op' = NoOp
  /\ starter' = "idle"
  /\ IF ensure.phase = "start"
     THEN EndEnsure(ok, build)
     ELSE status' = build /\ UNCHANGED <<ensure, flow>>
  /\ stragglers' = Late

\* Mutant: a start does not look for one that is in flight.
JoinedNever(key, setup) ==
  [phase |-> "probe", key |-> key, setup |-> setup, child |-> NoChild]

\* withAppStartOperation: a start that finds another in flight awaits that one.
Joined(key, setup) ==
  IF op.phase # "none" THEN op
  ELSE [phase |-> "probe", key |-> key, setup |-> setup, child |-> NoChild]

--------------------------------------------------------------------------------
(* startApp: the start operation                                           *)

\* A healthy app is taken for the result of the start, whoever started it.
OpHealthy ==
  /\ op.phase \in {"probe", "wait"}
  /\ Healthy
  /\ EndOp(TRUE)
  /\ loose' = (loose \/ ~ports)
  /\ UNCHANGED <<child, termed, memVars, attempts, counted, tick, heals, lost, clash, events>>

\* The child is spawned, and its handle replaces the one under the key.
Spawned ==
  LET c == CHOOSE c \in Child : ~Alive(c) IN
  /\ \E d \in Child : ~Alive(d)
  /\ op' = [op EXCEPT !.phase = "wait", !.child = c]
  /\ child' = [child EXCEPT ![c] = "starting"]
  /\ IF op.key = "ws" THEN proc' = c /\ ports' = TRUE ELSE UNCHANGED memVars
  /\ loose' = (op.key = "bare")

\* reapOwnOrphanListeners: whoever listens on the port is one of our children.
\* It is sent SIGTERM, and SIGKILL two seconds later.
Freed ==
  \/ /\ Holders = {}
     /\ Spawned
     /\ UNCHANGED termed
  \/ \E h \in Holders :
       /\ op' = [op EXCEPT !.phase = "reap", !.child = h]
       /\ termed' = termed \cup {h}
       /\ UNCHANGED <<child, memVars, loose>>

OpUnhealthy ==
  /\ op.phase = "probe"
  /\ ~Healthy
  /\ IF op.setup
     THEN op' = [op EXCEPT !.phase = "setup"]
          /\ UNCHANGED <<child, termed, memVars, loose>>
     ELSE Freed
  /\ UNCHANGED <<status, attempts, counted, ensure, starter, flow, tick,
                 heals, lost, stragglers, clash, events>>

\* runLifecycleSetup inside the start that the route queued.
OpSetupDone ==
  /\ op.phase = "setup"
  /\ Freed
  /\ UNCHANGED <<status, attempts, counted, ensure, starter, flow, tick,
                 heals, lost, stragglers, clash, events>>

OpKills ==
  /\ op.phase = "reap"
  /\ Alive(op.child)
  /\ Exited(op.child)
  /\ UNCHANGED <<clash, events>>

OpReaped ==
  /\ op.phase = "reap"
  /\ ~Alive(op.child)
  /\ Spawned
  /\ UNCHANGED termed
  /\ UNCHANGED <<status, attempts, counted, ensure, starter, flow, tick,
                 heals, lost, stragglers, clash, events>>

\* The setup fails, or the app is not healthy in time.  The child, if there is
\* one, is left alone and keeps its handle.
OpFails ==
  /\ op.phase \in {"setup", "wait"}
  /\ EndOp(FALSE)
  /\ UNCHANGED <<child, termed, memVars, attempts, counted, tick,
                 heals, lost, clash, loose, events>>

--------------------------------------------------------------------------------
(* ensureAppRunning                                                        *)

\* A second caller awaits the task in flight.
Ensured == IF ensure.phase # "none" THEN ensure
           ELSE [phase |-> "probe", seen |-> status]

\* isShellLifecycleAppTracked
Tracked == proc # NoChild

\* Mutant: the runtime does not take over the ports of an app it finds running.
AdoptedNot(p) == p

\* rememberAppPorts
Adopted(p) == TRUE

\* The app answers and the runtime knows it, by its handle or by its status.
EnsureHealthy ==
  /\ ensure.phase = "probe"
  /\ Healthy
  /\ Tracked \/ ensure.seen = "running"
  /\ EndEnsure(TRUE, status)
  /\ ports' = IF Tracked THEN ports ELSE Adopted(ports)
  /\ loose' = (loose /\ Tracked)
  /\ UNCHANGED <<child, termed, proc, attempts, counted, op, starter, tick,
                 heals, lost, stragglers, clash, events>>

\* It does not answer, or the runtime refuses to take it over.
EnsureStarts ==
  /\ ensure.phase = "probe"
  /\ Healthy => ~Tracked /\ ensure.seen # "running"
  /\ IF SetupDone(ensure.seen)
     THEN /\ ensure' = [ensure EXCEPT !.phase = "start"]
          /\ op' = Joined("ws", FALSE)
          /\ UNCHANGED status
     ELSE /\ ensure' = [ensure EXCEPT !.phase = "setup"]
          /\ status' = "building"
          /\ UNCHANGED op
  /\ UNCHANGED <<child, termed, memVars, attempts, counted, starter, flow, tick, histVars>>

\* runAppSetup
EnsureSetupDone ==
  /\ ensure.phase = "setup"
  /\ status' = "completed"
  /\ ensure' = [ensure EXCEPT !.phase = "start"]
  /\ op' = Joined("ws", FALSE)
  /\ UNCHANGED <<child, termed, memVars, attempts, counted, starter, flow, tick, histVars>>

EnsureSetupFails ==
  /\ ensure.phase = "setup"
  /\ EndEnsure(FALSE, "failed")
  /\ UNCHANGED <<child, termed, memVars, attempts, counted, op, starter, tick, histVars>>

--------------------------------------------------------------------------------
(* stopApp, and what its caller does next                                  *)

\* The stop command runs; the child that is tracked now is the one to kill.
StopBegun(next) ==
  [phase |-> "command", next |-> next, target |-> proc, failed |-> FALSE]

\* A stop that failed throws; only the monitor goes on in spite of it.
Stopped(a) ==
  CASE flow[a].next = "stop" /\ ~flow[a].failed ->
         /\ status' = "stopped"
         /\ flow' = [flow EXCEPT ![a] = Idle]
         /\ UNCHANGED ensure
    [] flow[a].next = "restart" /\ ~flow[a].failed ->
         /\ status' = "stopped"
         /\ ensure' = IF ensure.phase # "none" THEN ensure
                      ELSE [phase |-> "probe", seen |-> "stopped"]
         /\ flow' = [flow EXCEPT ![a] = Waiting]
    [] flow[a].next = "heal" ->
         /\ flow' = [flow EXCEPT ![a] = [@ EXCEPT !.phase = "free", !.target = NoChild]]
         /\ UNCHANGED <<status, ensure>>
    [] OTHER ->
         /\ flow' = [flow EXCEPT ![a] = Idle]
         /\ UNCHANGED <<status, ensure>>

\* The handle is dropped, whichever child it refers to by now, and the ports
\* are freed when they are known.
Forgotten(a) ==
  /\ proc' = NoChild
  /\ IF ports
     THEN flow' = [flow EXCEPT ![a].phase = "ports"] /\ UNCHANGED <<status, ensure>>
     ELSE Stopped(a)

StopCommandOk(a) ==
  /\ flow[a].phase = "command"
  /\ IF flow[a].target # NoChild
     THEN /\ termed' = termed \cup {flow[a].target}
          /\ flow' = [flow EXCEPT ![a].phase = "kill"]
          /\ UNCHANGED <<proc, status, ensure>>
     ELSE Forgotten(a) /\ UNCHANGED termed
  /\ UNCHANGED <<child, ports, attempts, counted, op, starter, tick, histVars>>

\* It exits with an error, or not within 30 seconds.
StopCommandFails(a) ==
  /\ flow[a].phase = "command"
  /\ ~flow[a].failed
  /\ flow' = [flow EXCEPT ![a].failed = TRUE]
  /\ UNCHANGED <<child, termed, memVars, status, attempts, counted, opVars, tick, histVars>>

\* The child has exited, or 10 seconds are over.  The SIGKILL that is meant for
\* a child that ignores SIGTERM is not sent: killChildProcess sends nothing to a
\* child it has signalled before.
StopKilled(a) ==
  /\ flow[a].phase = "kill"
  /\ Forgotten(a)
  /\ UNCHANGED <<child, termed, ports, attempts, counted, op, starter, tick, histVars>>

\* killAllocatedPortListeners
StopPortsFreed(a) ==
  /\ flow[a].phase = "ports"
  /\ termed' = termed \cup Holders
  /\ ports' = FALSE
  /\ loose' = (loose \/ op.phase = "wait")
  /\ Stopped(a)
  /\ UNCHANGED <<child, proc, attempts, counted, op, starter, tick,
                 heals, lost, stragglers, clash, events>>

\* The monitor frees the ports once more before it brings the app up again.
HealFreed(a) ==
  /\ flow[a].phase = "free"
  /\ termed' = termed \cup Holders
  /\ ensure' = Ensured
  /\ flow' = [flow EXCEPT ![a] = Waiting]
  /\ UNCHANGED <<child, memVars, status, attempts, counted, op, starter, tick, histVars>>

--------------------------------------------------------------------------------
(* Requests                                                                *)

\* The stop route; the restart of an agent tool or of a changed integration.
StopRequest(next) ==
  /\ Event
  /\ flow[User] = Idle
  /\ flow' = [flow EXCEPT ![User] = StopBegun(next)]
  /\ UNCHANGED <<child, termed, memVars, status, attempts, counted, opVars, tick,
                 heals, lost, stragglers, clash, loose>>

EnsureRequest ==
  /\ Event
  /\ flow[User] = Idle
  /\ ensure' = Ensured
  /\ flow' = [flow EXCEPT ![User] = Waiting]
  /\ UNCHANGED <<child, termed, memVars, status, attempts, counted, op, starter,
                 tick, heals, lost, stragglers, clash, loose>>

\* The start route.  The start it queues for an app that is not set up names no
\* workspace, so that its handle and ports are kept under the bare key.
StartRequest ==
  /\ Event
  /\ starter = "idle"
  /\ IF SetupDone(status)
     THEN /\ starter' = "foreground"
          /\ op' = Joined("ws", FALSE)
          /\ UNCHANGED status
     ELSE /\ starter' = "background"
          /\ op' = Joined("bare", TRUE)
          /\ status' = "building"
  /\ UNCHANGED <<child, termed, memVars, attempts, counted, ensure, flow, tick,
                 heals, lost, stragglers, clash, loose>>

--------------------------------------------------------------------------------
(* The health monitor                                                      *)

\* An app that never finished setup is brought up, unless that failed or is
\* in progress.
TickBringsUp(a) ==
  /\ tick.phase = "idle"
  /\ status \in {"pending", "building"}
  /\ ensure.phase = "none"
  /\ flow[a] = Idle
  /\ ensure' = Ensured
  /\ flow' = [flow EXCEPT ![a] = [Waiting EXCEPT !.next = "bringup"]]
  /\ UNCHANGED <<child, termed, memVars, status, attempts, counted, op, starter,
                 tick, histVars>>

TickProbes ==
  /\ tick.phase = "idle"
  /\ SetupDone(status)
  /\ tick' = [phase |-> "probe", seen |-> status, attempts |-> attempts]
  /\ UNCHANGED <<child, termed, memVars, status, attempts, counted, opVars, flow, histVars>>

TickHealthy ==
  /\ tick.phase = "probe"
  /\ Healthy
  /\ counted' = NoCount
  /\ attempts' = IF tick.attempts > 0 THEN 0 ELSE attempts
  /\ status' = IF tick.seen # "running" THEN "running" ELSE status
  /\ tick' = NoTick
  /\ heals' = 0 /\ lost' = 0
  /\ loose' = (loose \/ (tick.seen # "running" /\ ~ports))
  /\ UNCHANGED <<child, termed, memVars, opVars, flow, stragglers, clash, events>>

\* Mutant: a runtime that was restarted counts from the beginning.
CountForgotten == IF counted # NoCount THEN counted ELSE 0

\* The count survives the runtime in the build row.
Count == IF counted # NoCount THEN counted ELSE tick.attempts

NextCount == IF Count + 1 > Forever THEN Forever ELSE Count + 1

\* The app is stopped and brought up again, at most MaxAttempts times in a row;
\* then it is given up, once.  A count that cannot be saved is kept in memory only,
\* and the restart goes on.
TickUnhealthy(a) ==
  /\ tick.phase = "probe"
  /\ ~Healthy
  /\ counted' = NextCount
  /\ attempts' \in {NextCount, attempts}
  /\ tick' = NoTick
  /\ IF NextCount <= MaxAttempts
     THEN /\ flow[a] = Idle
          /\ flow' = [flow EXCEPT ![a] = StopBegun("heal")]
          /\ heals' = heals + 1
          /\ UNCHANGED status
     ELSE /\ status' = IF NextCount = MaxAttempts + 1 THEN "failed" ELSE status
          /\ UNCHANGED <<flow, heals>>
  /\ UNCHANGED <<child, termed, memVars, opVars, lost, stragglers, clash, loose, events>>

\* The writes of the cycle that nothing guards: that of a healthy app's count and
\* status, and that of the failure of an app that is given up.  One that raises
\* rejects the cycle, which ends the process.
CycleRaises ==
  /\ tick.phase = "probe"
  /\ \/ /\ Healthy
        /\ attempts' \in {attempts, IF tick.attempts > 0 THEN 0 ELSE attempts}
        /\ heals' = 0 /\ lost' = 0
     \/ /\ ~Healthy
        /\ NextCount = MaxAttempts + 1
        /\ attempts' = NextCount
        /\ UNCHANGED <<heals, lost>>

--------------------------------------------------------------------------------
(* The runtime dies and comes back: the children are still there, what was in *)
(* memory is not, and every app of an active workspace is ensured.           *)
Restart ==
  /\ Event
  /\ \/ /\ UNCHANGED <<attempts, heals>>
        /\ lost' = lost + (IF counted > attempts THEN counted - attempts ELSE 0)
     \/ CycleRaises
  /\ proc' = NoChild
  /\ ports' = FALSE
  /\ counted' = NoCount
  /\ op' = NoOp
  /\ starter' = "idle"
  /\ ensure' = [phase |-> "probe", seen |-> status]
  /\ flow' = [a \in Actor |-> Idle]
  /\ tick' = NoTick
  /\ stragglers' = Late
  /\ UNCHANGED <<child, termed, status, clash, loose>>

--------------------------------------------------------------------------------
Init ==
  /\ child = [c \in Child |-> "dead"]
  /\ termed = {}
  /\ proc = NoChild
  /\ ports = FALSE
  /\ status \in {"pending", "completed"}
  /\ attempts = 0
  /\ counted = NoCount
  /\ op = NoOp
  /\ ensure = NoEnsure
  /\ starter = "idle"
  /\ flow = [a \in Actor |-> Idle]
  /\ tick = NoTick
  /\ heals = 0
  /\ lost = 0
  /\ stragglers = {}
  /\ clash = FALSE
  /\ loose = FALSE
  /\ events = 0

ChildStep == \E c \in Child : Listen(c) \/ LosePort(c) \/ Falter(c) \/ Exit(c)

OpStep == OpHealthy \/ OpUnhealthy \/ OpSetupDone \/ OpKills \/ OpReaped \/ OpFails

EnsureStep == EnsureHealthy \/ EnsureStarts \/ EnsureSetupDone \/ EnsureSetupFails

FlowStep(a) == \/ StopCommandOk(a) \/ StopCommandFails(a) \/ StopKilled(a)
               \/ StopPortsFreed(a) \/ HealFreed(a)

TickStep == \/ TickProbes \/ TickHealthy
            \/ \E a \in Healer : TickBringsUp(a) \/ TickUnhealthy(a)

Request == \/ \E next \in {"stop", "restart"} : StopRequest(next)
           \/ EnsureRequest
           \/ StartRequest

Next == ChildStep \/ OpStep \/ EnsureStep \/ TickStep \/ Request \/ Restart
        \/ \E a \in Actor : FlowStep(a)

\* Every await of the runtime ends: the probes, commands, kills and starts have
\* timeouts, and the monitor's timer fires.  Nothing is assumed of a child or of
\* the user.
Fairness == /\ WF_vars(OpStep)
            /\ WF_vars(EnsureStep)
            /\ WF_vars(TickStep)
            /\ \A a \in Actor : WF_vars(FlowStep(a))

Spec == Init /\ [][Next]_vars /\ Fairness

--------------------------------------------------------------------------------
(* Properties *)

TypeOK ==
  /\ child \in [Child -> {"dead", "starting", "serving", "hung"}]
  /\ termed \subseteq Child
  /\ proc \in Child \cup {NoChild}
  /\ ports \in BOOLEAN
  /\ status \in BuildStatus
  /\ attempts \in 0..Forever
  /\ counted \in {NoCount} \cup 0..Forever
  /\ op \in Op
  /\ ensure \in Ensure
  /\ starter \in {"idle", "background", "foreground"}
  /\ flow \in [Actor -> Flow]
  /\ tick \in Tick
  /\ heals \in Nat
  /\ lost \in Nat
  /\ stragglers \subseteq Child
  /\ clash \in BOOLEAN
  /\ loose \in BOOLEAN
  /\ events \in 0..MaxEvents

\* The monitor restarts an app that does not recover MaxAttempts times and no
\* more, however often the runtime itself is restarted in between.  A count that
\* could not be saved keeps to the limit as long as the runtime lives; it is
\* forgotten, and allowed for once more, when the runtime dies before the next
\* count is saved.
RestartsAreBounded == heals <= MaxAttempts + lost

\* A start spawns a child into a free port: two children that nobody has given
\* up never compete for it, whoever starts, stops and heals the app at once.
StartsDoNotClash == ~clash

Quiet == /\ op.phase = "none" /\ ensure.phase = "none" /\ tick.phase = "idle"
         /\ \A a \in Actor : flow[a] = Idle

\* When nothing is in progress, an app that is said to run and does is one that
\* a stop can reach, by its ports: except where it came up in a way that leaves
\* them unknown, see loose.
RunningAppsCanBeStopped ==
  Quiet /\ status = "running" /\ (\E h \in Holders : InOrder(h)) => ports \/ loose

\* bound: there is no child left to spawn
Crowded == \A c \in Child : Alive(c)

\* The restarts that the monitor has on record: in memory, or else in the row.
Recorded == IF counted # NoCount THEN counted ELSE attempts

\* The runtime died as it was to write that the app is given up.  The next one finds
\* the count past the limit, and says nothing any more.
GivenUpUnsaid == counted = NoCount /\ attempts > MaxAttempts

\* An app that is said to run and does not answer is not left like that: it
\* answers again, or it is not said to run any more.  The exceptions are an app
\* that was given up and that somebody brought up again, whose count is over the
\* limit until the monitor sees it healthy, and one that was given up unsaid.
DeadAppsAreNoticed ==
  (status = "running" /\ ~Healthy /\ Recorded <= MaxAttempts)
    ~> (Healthy \/ status # "running" \/ Crowded \/ GivenUpUnsaid)

================================================================================

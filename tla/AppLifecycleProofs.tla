--------------------------- MODULE AppLifecycleProofs ---------------------------
(***************************************************************************)
(* AppLifecycle for any number of children, of overlapping restarts, of    *)
(* attempts and of events.  Types first, one lemma per shared operator;    *)
(* then the bound of the health monitor's restarts, the starts that never  *)
(* compete for the port, the one process that an app is, and the ports     *)
(* that a stop needs to know.                                              *)
(***************************************************************************)
EXTENDS AppLifecycleRefinement, TLAPS

ProcTyped ==
  /\ child \in [Child -> {"dead", "starting", "serving", "hung"}]
  /\ termed \subseteq Child
  /\ proc \in Child \cup {NoChild}
  /\ ports \in BOOLEAN
  /\ loose \in BOOLEAN

OpTyped ==
  /\ op \in Op
  /\ starter \in {"idle", "background", "foreground"}

WaitTyped ==
  /\ status \in BuildStatus
  /\ ensure \in Ensure
  /\ flow \in [Actor -> Flow]

CountTyped ==
  /\ attempts \in 0..Forever
  /\ counted \in {NoCount} \cup 0..Forever
  /\ tick \in Tick
  /\ heals \in Nat
  /\ lost \in Nat
  /\ events \in 0..MaxEvents

\* The idle values have their types.
LEMMA IdleTypes ==
  /\ NoOp \in Op
  /\ NoEnsure \in Ensure
  /\ Idle \in Flow /\ Waiting \in Flow
  /\ [Waiting EXCEPT !.next = "bringup"] \in Flow
  /\ NoTick \in Tick
<1>1. NoTick \in Tick
  BY AppLifecycleAssumption DEF AppLifecycleAssumption, NoTick, Tick, BuildStatus, Forever
<1> QED
  BY <1>1 DEF NoOp, Op, Key, NoEnsure, Ensure, BuildStatus, Idle, Waiting, Flow

\* A child that exits is forgotten wherever it was referred to.
LEMMA ExitedTypes ==
  ASSUME TypeOK, NEW c \in Child \cup {NoChild}, Exited(c)
  PROVE  ProcTyped' /\ op' \in Op /\ flow' \in [Actor -> Flow] /\ stragglers' \subseteq Child
<1>1. ProcTyped'
  BY DEF TypeOK, ProcTyped, Exited
<1>2. op' \in Op
  BY DEF TypeOK, Exited, Op
<1>3. flow' \in [Actor -> Flow]
  <2>1. \A a \in Actor :
          [flow[a] EXCEPT !.target = IF @ = c THEN NoChild ELSE @] \in Flow
    BY DEF TypeOK, Flow
  <2> QED
    BY <2>1 DEF Exited
<1> QED
  BY <1>1, <1>2, <1>3 DEF TypeOK, Exited

\* A child that is spawned is one that was free.
LEMMA SpawnedTypes ==
  ASSUME TypeOK, op.phase # "none", Spawned, UNCHANGED termed PROVE ProcTyped' /\ op' \in Op
<1> DEFINE c == CHOOSE c \in Child : ~Alive(c)
<1>1. c \in Child
  BY DEF Spawned
<1> HIDE DEF c
<1>2. /\ op' = [op EXCEPT !.phase = "wait", !.child = c]
      /\ child' = [child EXCEPT ![c] = "starting"]
      /\ (proc' = c /\ ports' = TRUE) \/ UNCHANGED memVars
      /\ loose' = (op.key = "bare")
  BY DEF Spawned, c
<1>3. loose' \in BOOLEAN
  BY <1>2
<1>4. ports' \in BOOLEAN
  BY <1>2 DEF TypeOK, memVars
<1> QED
  BY <1>1, <1>2, <1>3, <1>4 DEF TypeOK, ProcTyped, Op, memVars

\* The port is free, or its holder is on its way out.
LEMMA FreedTypes ==
  ASSUME TypeOK, op.phase # "none", Freed PROVE ProcTyped' /\ op' \in Op
<1>1. CASE Spawned /\ UNCHANGED termed
  BY <1>1, SpawnedTypes
<1>2. CASE \E h \in Holders :
             /\ op' = [op EXCEPT !.phase = "reap", !.child = h]
             /\ termed' = termed \cup {h}
             /\ UNCHANGED <<child, memVars, loose>>
  BY <1>2 DEF TypeOK, ProcTyped, Op, Holders, memVars
<1> QED BY <1>1, <1>2 DEF Freed

\* Those that await ensureAppRunning go on.
LEMMA EndEnsureTypes ==
  ASSUME TypeOK, NEW ok \in BOOLEAN, NEW build \in BuildStatus, EndEnsure(ok, build)
  PROVE  WaitTyped'
<1>1. status' \in BuildStatus
  BY DEF EndEnsure, BuildStatus, StatusOfStart
<1>2. flow' \in [Actor -> Flow]
  BY IdleTypes DEF EndEnsure, TypeOK
<1> QED
  BY <1>1, <1>2, IdleTypes DEF EndEnsure, WaitTyped

\* Those that await the start go on.
LEMMA EndOpTypes ==
  ASSUME TypeOK, NEW ok \in BOOLEAN, EndOp(ok)
  PROVE  WaitTyped' /\ OpTyped' /\ stragglers' \subseteq Child
<1> DEFINE build == CASE starter # "idle" /\ ok -> StatusOfStart
                      [] starter = "background" /\ ~ok -> "failed"
                      [] OTHER -> status
<1>1. build \in BuildStatus
  BY DEF TypeOK, BuildStatus, StatusOfStart
<1>2. /\ op' = NoOp /\ starter' = "idle" /\ stragglers' = Late
      /\ EndEnsure(ok, build) \/ (status' = build /\ UNCHANGED <<ensure, flow>>)
  BY DEF EndOp
<1> HIDE DEF build
<1>3. WaitTyped'
  BY <1>1, <1>2, EndEnsureTypes DEF TypeOK, WaitTyped
<1> QED
  BY <1>2, <1>3, IdleTypes DEF OpTyped, TypeOK, Late

\* A start joins the one in flight, or begins.
LEMMA JoinedTypes ==
  ASSUME TypeOK, NEW k \in Key, NEW s \in BOOLEAN PROVE Joined(k, s) \in Op
BY DEF TypeOK, Joined, Op

LEMMA EnsuredTypes == ASSUME TypeOK PROVE Ensured \in Ensure
BY DEF TypeOK, Ensured, Ensure

\* What follows a stop.
LEMMA StoppedTypes ==
  ASSUME TypeOK, NEW a \in Actor, Stopped(a) PROVE WaitTyped'
<1>1. [flow[a] EXCEPT !.phase = "free", !.target = NoChild] \in Flow
  BY DEF TypeOK, Flow
<1>2. [phase |-> "probe", seen |-> "stopped"] \in Ensure
  BY DEF Ensure, BuildStatus
<1>3. \/ /\ status' = "stopped" /\ flow' = [flow EXCEPT ![a] = Idle] /\ UNCHANGED ensure
      \/ /\ status' = "stopped" /\ flow' = [flow EXCEPT ![a] = Waiting]
         /\ ensure' = ensure \/ ensure' = [phase |-> "probe", seen |-> "stopped"]
      \/ /\ flow' = [flow EXCEPT ![a] = [flow[a] EXCEPT !.phase = "free", !.target = NoChild]]
         /\ UNCHANGED <<status, ensure>>
      \/ flow' = [flow EXCEPT ![a] = Idle] /\ UNCHANGED <<status, ensure>>
  BY DEF Stopped, TypeOK
<1> QED
  BY <1>1, <1>2, <1>3, IdleTypes DEF TypeOK, WaitTyped, BuildStatus

LEMMA ForgottenTypes ==
  ASSUME TypeOK, NEW a \in Actor, Forgotten(a) PROVE WaitTyped' /\ proc' = NoChild
<1>1. [flow[a] EXCEPT !.phase = "ports"] \in Flow
  BY DEF TypeOK, Flow
<1>2. ASSUME flow' = [flow EXCEPT ![a].phase = "ports"], UNCHANGED <<status, ensure>>
      PROVE  WaitTyped'
  BY <1>1, <1>2 DEF TypeOK, WaitTyped
<1> QED
  BY <1>2, StoppedTypes DEF Forgotten

\* A stop begins with the child that is tracked now.
LEMMA StopBegunTypes ==
  ASSUME TypeOK, NEW next \in {"stop", "restart", "heal"} PROVE StopBegun(next) \in Flow
BY DEF TypeOK, StopBegun, Flow

\* The count of the monitor.
LEMMA CountTypes == ASSUME TypeOK PROVE NextCount \in 0..Forever /\ NextCount > 0
<1> USE AppLifecycleAssumption DEF AppLifecycleAssumption
<1>1. Count \in 0..Forever
  BY DEF TypeOK, Count, NoCount, Tick
<1> QED BY <1>1 DEF NextCount, Forever

--------------------------------------------------------------------------------
(* Types *)

\* The types hold in every state.
LEMMA TypedInit == Init => TypeOK
<1> SUFFICES ASSUME Init PROVE TypeOK
  OBVIOUS
<1>1. attempts \in 0..Forever /\ events \in 0..MaxEvents /\ heals \in Nat /\ lost \in Nat
  BY AppLifecycleAssumption DEF Init, AppLifecycleAssumption, Forever
<1>2. child \in [Child -> {"dead", "starting", "serving", "hung"}]
  BY DEF Init
<1>3. flow \in [Actor -> Flow]
  BY IdleTypes DEF Init
<1>4. ports \in BOOLEAN /\ clash \in BOOLEAN /\ loose \in BOOLEAN
  BY DEF Init
<1>5. counted \in {NoCount} \cup 0..Forever /\ status \in BuildStatus
  BY DEF Init, BuildStatus
<1> QED
  BY <1>1, <1>2, <1>3, <1>4, <1>5, IdleTypes DEF Init, TypeOK

LEMMA TypedStep == TypeOK /\ [Next]_vars => TypeOK'
<1> SUFFICES ASSUME TypeOK, [Next]_vars PROVE TypeOK'
  OBVIOUS
<1> USE AppLifecycleAssumption DEF AppLifecycleAssumption
<1>p. ASSUME ProcTyped', OpTyped', WaitTyped', CountTyped', stragglers' \subseteq Child,
             clash' \in BOOLEAN
      PROVE  TypeOK'
  BY <1>p DEF TypeOK, ProcTyped, OpTyped, WaitTyped, CountTyped
<1>proc. ASSUME UNCHANGED <<child, termed, memVars, loose>> PROVE ProcTyped'
  BY <1>proc DEF TypeOK, ProcTyped, memVars
<1>op. ASSUME UNCHANGED <<op, starter>> PROVE OpTyped'
  BY <1>op DEF TypeOK, OpTyped
<1>wait. ASSUME UNCHANGED <<status, ensure, flow>> PROVE WaitTyped'
  BY <1>wait DEF TypeOK, WaitTyped
<1>count. ASSUME UNCHANGED <<attempts, counted, tick, heals, lost>>, events' = events \/ Event
          PROVE  CountTyped'
  BY <1>count DEF TypeOK, CountTyped, Event
<1>hist. ASSUME UNCHANGED <<stragglers, clash>>
         PROVE  stragglers' \subseteq Child /\ clash' \in BOOLEAN
  BY <1>hist DEF TypeOK
<1>1. ASSUME NEW c \in Child, Listen(c) PROVE TypeOK'
  <2>1. ProcTyped'
    BY <1>1 DEF Listen, TypeOK, ProcTyped, memVars, histVars
  <2> QED
    BY <1>1, <2>1, <1>p, <1>op, <1>wait, <1>count, <1>hist DEF Listen, opVars, histVars
<1>2. ASSUME NEW c \in Child, LosePort(c) PROVE TypeOK'
  <2>1. Exited(c) /\ clash' \in BOOLEAN /\ UNCHANGED events
    BY <1>2 DEF LosePort, TypeOK
  <2>2. ProcTyped' /\ op' \in Op /\ flow' \in [Actor -> Flow] /\ stragglers' \subseteq Child
    BY <2>1, ExitedTypes
  <2>3. UNCHANGED <<ports, status, attempts, counted, ensure, starter, tick, heals, lost, loose>>
    BY <2>1 DEF Exited
  <2> QED
    BY <2>1, <2>2, <2>3, <1>p, <1>count DEF TypeOK, OpTyped, WaitTyped
<1>3. ASSUME NEW c \in Child, Falter(c) PROVE TypeOK'
  <2>1. ProcTyped'
    BY <1>3 DEF Falter, TypeOK, ProcTyped, memVars
  <2> QED
    BY <1>3, <2>1, <1>p, <1>op, <1>wait, <1>count, <1>hist DEF Falter, opVars
<1>4. ASSUME NEW c \in Child, Exit(c) PROVE TypeOK'
  <2>1. Exited(c) /\ clash' = clash /\ (events' = events \/ Event)
    BY <1>4 DEF Exit
  <2>2. ProcTyped' /\ op' \in Op /\ flow' \in [Actor -> Flow] /\ stragglers' \subseteq Child
    BY <2>1, ExitedTypes
  <2>3. UNCHANGED <<ports, status, attempts, counted, ensure, starter, tick, heals, lost, loose>>
    BY <2>1 DEF Exited
  <2> QED
    BY <2>1, <2>2, <2>3, <1>p, <1>count DEF TypeOK, OpTyped, WaitTyped
<1>5. CASE OpHealthy
  <2>1. ProcTyped'
    <3>1. loose' \in BOOLEAN
      BY <1>5 DEF OpHealthy, TypeOK
    <3> QED BY <1>5, <3>1 DEF OpHealthy, TypeOK, ProcTyped, memVars
  <2>2. WaitTyped' /\ OpTyped' /\ stragglers' \subseteq Child
    BY <1>5, EndOpTypes DEF OpHealthy
  <2> QED
    BY <1>5, <2>1, <2>2, <1>p, <1>count DEF OpHealthy, TypeOK
<1>6. CASE OpUnhealthy
  <2>1. ProcTyped' /\ op' \in Op
    <3>1. CASE op.setup
      BY <1>6, <3>1, <1>proc DEF OpUnhealthy, TypeOK, Op
    <3>2. CASE ~op.setup
      BY <1>6, <3>2, FreedTypes DEF OpUnhealthy
    <3> QED BY <3>1, <3>2
  <2> QED
    BY <1>6, <2>1, <1>p, <1>wait, <1>count, <1>hist DEF OpUnhealthy, TypeOK, OpTyped
<1>7. CASE OpSetupDone
  BY <1>7, FreedTypes, <1>p, <1>wait, <1>count, <1>hist DEF OpSetupDone, TypeOK, OpTyped
<1>8. CASE OpKills
  <2>1. Exited(op.child) /\ op.child \in Child \cup {NoChild} /\ UNCHANGED <<clash, events>>
    BY <1>8 DEF OpKills, TypeOK, Op
  <2>2. ProcTyped' /\ op' \in Op /\ flow' \in [Actor -> Flow] /\ stragglers' \subseteq Child
    BY <2>1, ExitedTypes
  <2>3. UNCHANGED <<ports, status, attempts, counted, ensure, starter, tick, heals, lost, loose>>
    BY <2>1 DEF Exited
  <2> QED
    BY <2>1, <2>2, <2>3, <1>p, <1>count DEF TypeOK, OpTyped, WaitTyped
<1>9. CASE OpReaped
  BY <1>9, SpawnedTypes, <1>p, <1>wait, <1>count, <1>hist DEF OpReaped, TypeOK, OpTyped
<1>10. CASE OpFails
  BY <1>10, EndOpTypes, <1>p, <1>proc, <1>count DEF OpFails, TypeOK
<1>11. CASE EnsureHealthy
  <2>1. ProcTyped'
    <3>1. loose' \in BOOLEAN /\ ports' \in BOOLEAN
      BY <1>11 DEF EnsureHealthy, TypeOK, Adopted
    <3> QED BY <1>11, <3>1 DEF EnsureHealthy, TypeOK, ProcTyped
  <2>2. WaitTyped'
    BY <1>11, EndEnsureTypes DEF EnsureHealthy, TypeOK
  <2> QED
    BY <1>11, <2>1, <2>2, <1>p, <1>op, <1>count, <1>hist DEF EnsureHealthy
<1>12. CASE EnsureStarts
  <2>1. op' \in Op
    BY <1>12, JoinedTypes DEF EnsureStarts, TypeOK, Key
  <2>2. ensure' \in Ensure /\ status' \in BuildStatus
    BY <1>12 DEF EnsureStarts, TypeOK, Ensure, BuildStatus
  <2> QED
    BY <1>12, <2>1, <2>2, <1>p, <1>proc, <1>count, <1>hist
       DEF EnsureStarts, histVars, OpTyped, WaitTyped, TypeOK
<1>13. CASE EnsureSetupDone
  <2>1. op' \in Op
    BY <1>13, JoinedTypes DEF EnsureSetupDone, Key
  <2>2. ensure' \in Ensure /\ status' \in BuildStatus
    BY <1>13 DEF EnsureSetupDone, TypeOK, Ensure, BuildStatus
  <2> QED
    BY <1>13, <2>1, <2>2, <1>p, <1>proc, <1>count, <1>hist
       DEF EnsureSetupDone, histVars, OpTyped, WaitTyped, TypeOK
<1>14. CASE EnsureSetupFails
  <2>1. WaitTyped'
    BY <1>14, EndEnsureTypes DEF EnsureSetupFails, BuildStatus
  <2> QED
    BY <1>14, <2>1, <1>p, <1>proc, <1>op, <1>count, <1>hist DEF EnsureSetupFails, histVars
<1>15. ASSUME NEW a \in Actor, StopCommandOk(a) PROVE TypeOK'
  <2>1. CASE Forgotten(a) /\ UNCHANGED termed
    <3>1. ProcTyped'
      BY <1>15, <2>1, ForgottenTypes DEF StopCommandOk, histVars, TypeOK, ProcTyped
    <3> QED
      BY <1>15, <2>1, <3>1, ForgottenTypes, <1>p, <1>op, <1>count, <1>hist
         DEF StopCommandOk, histVars
  <2>2. CASE /\ flow[a].target # NoChild /\ termed' = termed \cup {flow[a].target}
             /\ flow' = [flow EXCEPT ![a].phase = "kill"] /\ UNCHANGED <<proc, status, ensure>>
    <3>1. flow[a] \in Flow
      BY DEF TypeOK
    <3>2. flow[a].target \in Child /\ [flow[a] EXCEPT !.phase = "kill"] \in Flow
      BY <2>2, <3>1 DEF Flow
    <3>3. ProcTyped'
      BY <1>15, <2>2, <3>2 DEF StopCommandOk, histVars, TypeOK, ProcTyped
    <3>4. WaitTyped'
      BY <2>2, <3>2 DEF TypeOK, WaitTyped
    <3> QED
      BY <1>15, <3>3, <3>4, <1>p, <1>op, <1>count, <1>hist DEF StopCommandOk, histVars
  <2> QED BY <1>15, <2>1, <2>2 DEF StopCommandOk
<1>16. ASSUME NEW a \in Actor, StopCommandFails(a) PROVE TypeOK'
  <2>1. [flow[a] EXCEPT !.failed = TRUE] \in Flow
    BY DEF TypeOK, Flow
  <2>2. WaitTyped'
    BY <1>16, <2>1 DEF StopCommandFails, TypeOK, WaitTyped, opVars
  <2> QED
    BY <1>16, <2>2, <1>p, <1>proc, <1>op, <1>count, <1>hist
       DEF StopCommandFails, opVars, histVars
<1>17. ASSUME NEW a \in Actor, StopKilled(a) PROVE TypeOK'
  <2>1. ProcTyped'
    BY <1>17, ForgottenTypes DEF StopKilled, histVars, TypeOK, ProcTyped
  <2> QED
    BY <1>17, <2>1, ForgottenTypes, <1>p, <1>op, <1>count, <1>hist DEF StopKilled, histVars
<1>18. ASSUME NEW a \in Actor, StopPortsFreed(a) PROVE TypeOK'
  <2>1. loose' \in BOOLEAN /\ termed' \subseteq Child
    BY <1>18 DEF StopPortsFreed, TypeOK, Holders
  <2>2. ProcTyped'
    BY <1>18, <2>1 DEF StopPortsFreed, TypeOK, ProcTyped
  <2> QED
    BY <1>18, <2>2, StoppedTypes, <1>p, <1>op, <1>count, <1>hist DEF StopPortsFreed
<1>19. ASSUME NEW a \in Actor, HealFreed(a) PROVE TypeOK'
  <2>1. ProcTyped'
    BY <1>19 DEF HealFreed, histVars, TypeOK, ProcTyped, memVars, Holders
  <2>2. WaitTyped'
    BY <1>19, EnsuredTypes, IdleTypes DEF HealFreed, TypeOK, WaitTyped
  <2> QED
    BY <1>19, <2>1, <2>2, <1>p, <1>op, <1>count, <1>hist DEF HealFreed, histVars
<1>20. ASSUME NEW next \in {"stop", "restart"}, StopRequest(next) PROVE TypeOK'
  <2>1. WaitTyped'
    BY <1>20, StopBegunTypes DEF StopRequest, opVars, TypeOK, WaitTyped
  <2> QED
    BY <1>20, <2>1, <1>p, <1>proc, <1>op, <1>count, <1>hist DEF StopRequest, opVars
<1>21. CASE EnsureRequest
  <2>1. WaitTyped'
    BY <1>21, EnsuredTypes, IdleTypes DEF EnsureRequest, TypeOK, WaitTyped
  <2> QED
    BY <1>21, <2>1, <1>p, <1>proc, <1>op, <1>count, <1>hist DEF EnsureRequest
<1>22. CASE StartRequest
  <2>1. op' \in Op /\ starter' \in {"idle", "background", "foreground"}
    BY <1>22, JoinedTypes DEF StartRequest, Key
  <2>2. status' \in BuildStatus
    BY <1>22 DEF StartRequest, TypeOK, BuildStatus
  <2> QED
    BY <1>22, <2>1, <2>2, <1>p, <1>proc, <1>count, <1>hist
       DEF StartRequest, OpTyped, WaitTyped, TypeOK
<1>23. ASSUME NEW a \in Healer, TickBringsUp(a) PROVE TypeOK'
  <2>1. WaitTyped'
    BY <1>23, EnsuredTypes, IdleTypes DEF TickBringsUp, TypeOK, WaitTyped
  <2> QED
    BY <1>23, <2>1, <1>p, <1>proc, <1>op, <1>count, <1>hist DEF TickBringsUp, histVars
<1>24. CASE TickProbes
  <2>1. tick' \in Tick
    BY <1>24 DEF TickProbes, TypeOK, Tick
  <2> QED
    BY <1>24, <2>1, <1>p, <1>proc, <1>op, <1>wait, <1>hist
       DEF TickProbes, opVars, histVars, CountTyped, TypeOK
<1>25. CASE TickHealthy
  <2>1. CountTyped'
    BY <1>25, IdleTypes DEF TickHealthy, CountTyped, TypeOK, Forever
  <2>2. loose' \in BOOLEAN
    BY <1>25 DEF TickHealthy, TypeOK
  <2>3. ProcTyped'
    BY <1>25, <2>2 DEF TickHealthy, ProcTyped, TypeOK, memVars
  <2>4. WaitTyped'
    BY <1>25 DEF TickHealthy, WaitTyped, TypeOK, opVars, BuildStatus
  <2> QED
    BY <1>25, <2>1, <2>3, <2>4, <1>p, <1>op, <1>hist DEF TickHealthy, opVars
<1>26. ASSUME NEW a \in Healer, TickUnhealthy(a) PROVE TypeOK'
  <2>1. CountTyped'
    BY <1>26, CountTypes, IdleTypes DEF TickUnhealthy, CountTyped, TypeOK
  <2>2. WaitTyped'
    BY <1>26, StopBegunTypes DEF TickUnhealthy, WaitTyped, TypeOK, opVars, BuildStatus
  <2> QED
    BY <1>26, <2>1, <2>2, <1>p, <1>proc, <1>op, <1>hist DEF TickUnhealthy, opVars
<1>27. CASE Restart
  <2>1. ProcTyped'
    <3>1. ports' \in BOOLEAN
      BY <1>27 DEF Restart
    <3> QED BY <1>27, <3>1 DEF Restart, ProcTyped, TypeOK
  <2>2. WaitTyped' /\ OpTyped'
    BY <1>27, IdleTypes DEF Restart, WaitTyped, OpTyped, TypeOK, Ensure
  <2>3. CountTyped'
    <3>1. attempts' \in 0..Forever /\ heals' \in Nat /\ lost' \in Nat
      BY <1>27 DEF Restart, CycleRaises, TypeOK, NoCount, Forever
    <3> QED
      BY <1>27, <3>1, IdleTypes DEF Restart, CountTyped, TypeOK, Event
  <2> QED
    BY <1>27, <2>1, <2>2, <2>3, <1>p DEF Restart, Late, TypeOK
<1>28. CASE UNCHANGED vars
  BY <1>28, <1>p, <1>proc, <1>op, <1>wait, <1>count, <1>hist DEF vars, opVars, histVars
<1> QED
  BY <1>1, <1>2, <1>3, <1>4, <1>5, <1>6, <1>7, <1>8, <1>9, <1>10, <1>11, <1>12, <1>13, <1>14,
     <1>15, <1>16, <1>17, <1>18, <1>19, <1>20, <1>21, <1>22, <1>23, <1>24, <1>25, <1>26, <1>27,
     <1>28
     DEF Next, ChildStep, OpStep, EnsureStep, TickStep, Request, FlowStep

\* The types hold in every state, for any number of children, healers and events.
THEOREM TypeCorrect == Spec => []TypeOK
BY TypedInit, TypedStep, PTL DEF Spec

--------------------------------------------------------------------------------
(* The restarts of the health monitor *)

\* The row is never ahead of the count in memory, a cycle has read what the row says,
\* and no restart goes uncounted but those that died with a runtime.
CountInv ==
  /\ heals <= MaxAttempts + lost /\ heals <= Recorded + lost
  /\ counted # NoCount => attempts <= counted
  /\ tick.phase = "probe" => tick.attempts = attempts

\* The restarts in a row are bounded, however often the runtime itself is restarted and
\* whatever counts could not be saved.
THEOREM HealsBounded == Spec => []RestartsAreBounded
<1> USE AppLifecycleAssumption DEF AppLifecycleAssumption
<1>1. Init => CountInv
  BY DEF Init, CountInv, Recorded, NoTick
<1>2. TypeOK /\ CountInv /\ [Next]_vars => CountInv'
  <2> SUFFICES ASSUME TypeOK, CountInv, [Next]_vars PROVE CountInv'
    OBVIOUS
  <2>t. /\ heals \in Nat /\ lost \in Nat /\ attempts \in 0..Forever
        /\ counted \in {NoCount} \cup 0..Forever
    BY DEF TypeOK
  <2>1. CASE UNCHANGED <<heals, lost, attempts, counted, tick>>
    BY <2>1 DEF CountInv, Recorded
  <2>2. ASSUME NEW c, Exited(c) PROVE CountInv'
    BY <2>1, <2>2 DEF Exited
  <2>3. CASE ChildStep
    <3>1. PICK c \in Child : Listen(c) \/ LosePort(c) \/ Falter(c) \/ Exit(c)
      BY <2>3 DEF ChildStep
    <3> QED
      BY <2>1, <2>2, <3>1 DEF Listen, LosePort, Falter, Exit, histVars
  <2>4. CASE OpStep
    BY <2>1, <2>2, <2>4
       DEF OpStep, OpHealthy, OpUnhealthy, OpSetupDone, OpKills, OpReaped, OpFails
  <2>5. CASE EnsureStep
    BY <2>1, <2>5
       DEF EnsureStep, EnsureHealthy, EnsureStarts, EnsureSetupDone, EnsureSetupFails, histVars
  <2>6. ASSUME NEW a \in Actor, FlowStep(a) PROVE CountInv'
    BY <2>1, <2>6
       DEF FlowStep, StopCommandOk, StopCommandFails, StopKilled, StopPortsFreed, HealFreed,
           histVars
  <2>7. CASE TickProbes
    BY <2>7 DEF TickProbes, CountInv, Recorded, histVars
  <2>8. CASE TickHealthy
    BY <2>t, <2>8 DEF TickHealthy, CountInv, Recorded, NoCount, NoTick, Forever
  <2>9. ASSUME NEW a \in Healer, TickBringsUp(a) PROVE CountInv'
    BY <2>1, <2>9 DEF TickBringsUp, histVars
  <2>10. ASSUME NEW a \in Healer, TickUnhealthy(a) PROVE CountInv'
    <3>1. Count = Recorded
      BY <2>10 DEF TickUnhealthy, CountInv, Count, Recorded
    <3>2. NextCount \in Nat /\ Recorded <= NextCount /\ attempts <= NextCount
          /\ (NextCount <= MaxAttempts => NextCount = Recorded + 1)
      BY <2>t, <3>1 DEF NextCount, Recorded, CountInv, Forever
    <3>3. counted' = NextCount /\ attempts' \in {NextCount, attempts} /\ tick' = NoTick
          /\ lost' = lost
          /\ (heals' = heals \/ (NextCount <= MaxAttempts /\ heals' = heals + 1))
      BY <2>10 DEF TickUnhealthy
    <3>4. Recorded' = NextCount
      BY <3>2, <3>3 DEF Recorded, NoCount
    <3>5. Recorded \in Nat
      BY <2>t DEF Recorded, NoCount, Forever
    <3>6. heals' <= MaxAttempts + lost' /\ heals' <= NextCount + lost'
      BY <2>t, <3>2, <3>3, <3>5 DEF CountInv
    <3> QED BY <2>t, <3>2, <3>3, <3>4, <3>6 DEF CountInv, NoTick
  <2>11. CASE Request
    BY <2>1, <2>11 DEF Request, StopRequest, EnsureRequest, StartRequest
  <2>12. CASE Restart
    <3>1. counted' = NoCount /\ tick' = NoTick
      BY <2>12 DEF Restart
    <3>2. CASE /\ UNCHANGED <<attempts, heals>>
               /\ lost' = lost + (IF counted > attempts THEN counted - attempts ELSE 0)
      BY <2>t, <3>1, <3>2 DEF CountInv, Recorded, NoCount, NoTick, Forever
    <3>3. CASE CycleRaises
      <4>1. CASE heals' = 0 /\ lost' = 0 /\ attempts' \in {attempts, 0}
        <5>1. attempts' \in Nat
          BY <2>t, <4>1 DEF Forever
        <5>2. Recorded' = attempts'
          BY <3>1 DEF Recorded
        <5>3. tick'.phase # "probe"
          BY <3>1 DEF NoTick
        <5>4. heals' = 0
          BY <4>1
        <5>5. lost' = 0
          BY <4>1
        <5>6. ASSUME NEW n \in Nat PROVE 0 <= n + 0
          OBVIOUS
        <5>7. heals' <= MaxAttempts + lost' /\ heals' <= attempts' + lost'
          BY <5>1, <5>4, <5>5, <5>6, Zenon
        <5> QED BY <3>1, <5>2, <5>3, <5>7 DEF CountInv
      <4>2. CASE attempts' = MaxAttempts + 1 /\ UNCHANGED <<heals, lost>>
        BY <2>t, <3>1, <4>2 DEF CountInv, Recorded, NoCount, NoTick, Forever
      <4>3. ASSUME NextCount = MaxAttempts + 1, attempts' = NextCount, UNCHANGED <<heals, lost>>
            PROVE  CountInv'
        BY <4>2, <4>3
      <4>4. ASSUME Healthy, attempts' \in {attempts, IF tick.attempts > 0 THEN 0 ELSE attempts},
                   heals' = 0, lost' = 0
            PROVE  CountInv'
        BY <4>1, <4>4
      <4> QED BY <3>3, <4>3, <4>4 DEF CycleRaises
    <3> QED BY <2>12, <3>2, <3>3 DEF Restart
  <2>13. CASE UNCHANGED vars
    BY <2>1, <2>13 DEF vars, histVars
  <2> QED
    BY <2>3, <2>4, <2>5, <2>6, <2>7, <2>8, <2>9, <2>10, <2>11, <2>12, <2>13 DEF Next, TickStep
<1>3. CountInv => RestartsAreBounded
  BY DEF CountInv, RestartsAreBounded
<1> QED BY <1>1, <1>2, <1>3, TypeCorrect, PTL DEF Spec

--------------------------------------------------------------------------------
(* The starts and the port *)

\* Somebody else who holds the port was given up.
Others == \A h \in Holders : ~InOrder(h)

\* The only child in order that is still starting is that of the start in flight, and
\* it was spawned, or waits to be, when no child in order held the port.
PortInv ==
  /\ ~clash
  /\ \A g, h \in Holders : g = h
  /\ op.phase = "reap" => Others
  /\ \A c \in Child : child[c] = "starting" /\ InOrder(c)
                        => op.phase = "wait" /\ op.child = c /\ Others

\* Nobody spawns, and who is given up stays so.
LEMMA PortAside ==
  ASSUME PortInv, UNCHANGED <<child, op, clash>>, termed \subseteq termed',
         stragglers \subseteq stragglers'
  PROVE  PortInv'
<1>1. Holders' = Holders /\ (\A c : InOrder(c)' => InOrder(c))
  BY DEF Holders, InOrder
<1> QED BY <1>1 DEF PortInv, Others

\* A start that is over leaves no child that is starting and in order.
LEMMA PortEnded ==
  ASSUME PortInv, UNCHANGED <<child, termed, clash>>, op' = NoOp, stragglers' = Late
  PROVE  PortInv'
BY DEF PortInv, NoOp, Late, Holders, InOrder

\* A child that exits frees the port, if it held it.
LEMMA PortExited ==
  ASSUME TypeOK, PortInv, NEW c \in Child \cup {NoChild}, Exited(c), clash' = clash
  PROVE  PortInv'
<1>1. \A d \in Child : child'[d] = IF d = c THEN "dead" ELSE child[d]
  BY DEF TypeOK, Exited
<1>2. \A d \in Child : d # c => (InOrder(d)' <=> InOrder(d))
  BY DEF Exited, InOrder
<1>3. op'.phase = op.phase /\ (op.child # c => op'.child = op.child)
  BY DEF Exited, TypeOK, Op
<1>4. Holders' \subseteq Holders \ {c}
  BY <1>1 DEF Holders
<1>5. Others => Others'
  BY <1>2, <1>4 DEF Others, Holders
<1> QED BY <1>1, <1>2, <1>3, <1>4, <1>5 DEF PortInv

\* A child is spawned when those that hold the port were given up.
LEMMA PortSpawned ==
  ASSUME TypeOK, PortInv, op.phase # "wait", Others, Spawned,
         UNCHANGED <<termed, stragglers, clash>>
  PROVE  PortInv'
<1> DEFINE c == CHOOSE c \in Child : ~Alive(c)
<1>1. c \in Child
  BY DEF Spawned
<1>2. op' = [op EXCEPT !.phase = "wait", !.child = c] /\ child' = [child EXCEPT ![c] = "starting"]
  BY DEF Spawned
<1> HIDE DEF c
<1>3. op'.phase = "wait" /\ op'.child = c
  BY <1>2 DEF TypeOK, Op
<1>4. \A d \in Child : child'[d] = IF d = c THEN "starting" ELSE child[d]
  BY <1>1, <1>2 DEF TypeOK
<1>5. \A d : InOrder(d)' <=> InOrder(d)
  BY DEF InOrder
<1>6. Holders' \subseteq Holders
  BY <1>4 DEF Holders
<1>7. Others'
  BY <1>5, <1>6 DEF Others
<1>8. \A d \in Child : d # c => ~(child[d] = "starting" /\ InOrder(d))
  BY DEF PortInv
<1> QED BY <1>3, <1>4, <1>5, <1>6, <1>7, <1>8 DEF PortInv

LEMMA PortFreed ==
  ASSUME TypeOK, PortInv, op.phase \notin {"wait", "reap"}, Freed, UNCHANGED <<stragglers, clash>>
  PROVE  PortInv'
<1>1. CASE Holders = {} /\ Spawned /\ UNCHANGED termed
  BY <1>1, PortSpawned DEF Others
<1>2. ASSUME NEW h \in Holders, op' = [op EXCEPT !.phase = "reap", !.child = h],
             termed' = termed \cup {h}, UNCHANGED child
      PROVE  PortInv'
  <2>1. Holders' = Holders /\ op'.phase = "reap"
    BY <1>2 DEF Holders, TypeOK, Op
  <2>2. Others'
    BY <1>2, <2>1 DEF PortInv, Others, InOrder
  <2>3. \A d : InOrder(d)' => InOrder(d)
    BY <1>2 DEF InOrder
  <2>4. \A d \in Child : ~(child[d] = "starting" /\ InOrder(d))
    BY DEF PortInv
  <2> QED BY <1>2, <2>1, <2>2, <2>3, <2>4 DEF PortInv
<1> QED BY <1>1, <1>2 DEF Freed

\* The port and the starts agree in every state.
LEMMA PortHolds == Spec => []PortInv
<1>1. Init => PortInv
  <2> SUFFICES ASSUME Init PROVE PortInv
    OBVIOUS
  <2>1. Holders = {}
    BY DEF Init, Holders
  <2> QED BY <2>1 DEF Init, PortInv, NoOp
<1>2. TypeOK /\ PortInv /\ [Next]_vars => PortInv'
  <2> SUFFICES ASSUME TypeOK, PortInv, [Next]_vars PROVE PortInv'
    OBVIOUS
  <2>1. ASSUME NEW c \in Child, Listen(c) PROVE PortInv'
    <3>1. /\ \A d \in Child : child'[d] = IF d = c THEN "serving" ELSE child[d]
          /\ UNCHANGED <<op, clash>> /\ Holders = {} /\ child[c] = "starting"
      BY <2>1 DEF Listen, opVars, histVars, TypeOK
    <3>2. \A d : InOrder(d)' <=> InOrder(d)
      BY <2>1 DEF Listen, histVars, InOrder
    <3>3. Holders' = {c}
      BY <3>1 DEF Holders
    <3> QED BY <3>1, <3>2, <3>3 DEF PortInv, Others
  <2>2. ASSUME NEW c \in Child, LosePort(c) PROVE PortInv'
    <3>1. child[c] = "starting" /\ Exited(c)
          /\ clash' = (clash \/ (InOrder(c) /\ \E h \in Holders : InOrder(h)))
      BY <2>2 DEF LosePort
    <3>2. ~(InOrder(c) /\ \E h \in Holders : InOrder(h)) /\ clash = FALSE
      BY <3>1 DEF PortInv, Others, TypeOK
    <3>3. clash' = clash
      BY <3>1, <3>2
    <3> QED BY <3>1, <3>3, PortExited
  <2>3. ASSUME NEW c \in Child, Falter(c) PROVE PortInv'
    <3>1. /\ \A d \in Child : d # c => child'[d] = child[d]
          /\ child[c] \in {"serving", "hung"} /\ child'[c] \in {"serving", "hung"}
          /\ UNCHANGED <<op, clash>>
      BY <2>3 DEF Falter, Holders, opVars, TypeOK
    <3>2. \A d : InOrder(d)' <=> InOrder(d)
      BY <2>3 DEF Falter, InOrder
    <3>3. Holders' = Holders
      BY <3>1 DEF Holders
    <3> QED BY <3>1, <3>2, <3>3 DEF PortInv, Others
  <2>4. ASSUME NEW c \in Child, Exit(c) PROVE PortInv'
    BY <2>4, PortExited DEF Exit
  <2>5. CASE OpHealthy
    BY <2>5, PortEnded DEF OpHealthy, EndOp
  <2>6. CASE OpUnhealthy
    <3>1. CASE op.setup
      <4>1. op'.phase = "setup" /\ op.phase = "probe"
            /\ UNCHANGED <<child, termed, stragglers, clash>>
        BY <2>6, <3>1 DEF OpUnhealthy, TypeOK, Op
      <4> QED BY <4>1 DEF PortInv, Holders, InOrder, Others
    <3>2. CASE ~op.setup
      BY <2>6, <3>2, PortFreed DEF OpUnhealthy
    <3> QED BY <3>1, <3>2
  <2>7. CASE OpSetupDone
    BY <2>7, PortFreed DEF OpSetupDone
  <2>8. CASE OpKills
    BY <2>8, PortExited DEF OpKills, TypeOK, Op
  <2>9. CASE OpReaped
    BY <2>9, PortSpawned DEF OpReaped, PortInv
  <2>10. CASE OpFails
    BY <2>10, PortEnded DEF OpFails, EndOp
  <2>11. CASE EnsureHealthy
    BY <2>11, PortAside DEF EnsureHealthy
  <2>12. ASSUME Joined("ws", FALSE) = op' \/ op' = op \/ Joined("bare", TRUE) = op',
                UNCHANGED <<child, termed, stragglers, clash>>
         PROVE  PortInv'
    <3>1. op' = op \/ (op.phase = "none" /\ op'.phase = "probe")
      BY <2>12 DEF Joined
    <3> QED BY <2>12, <3>1, PortAside DEF PortInv, Holders, InOrder, Others
  <2>13. CASE EnsureStarts \/ EnsureSetupDone
    BY <2>12, <2>13 DEF EnsureStarts, EnsureSetupDone, histVars
  <2>14. CASE EnsureSetupFails
    BY <2>14, PortAside DEF EnsureSetupFails, histVars
  <2>15. ASSUME NEW a \in Actor, FlowStep(a) PROVE PortInv'
    BY <2>15, PortAside
       DEF FlowStep, StopCommandOk, StopCommandFails, StopKilled, StopPortsFreed, HealFreed,
           opVars, histVars
  <2>16. CASE TickStep
    BY <2>16, PortAside
       DEF TickStep, TickProbes, TickHealthy, TickBringsUp, TickUnhealthy, opVars, histVars
  <2>17. CASE Request
    <3>1. UNCHANGED <<child, termed, stragglers, clash>>
      BY <2>17 DEF Request, StopRequest, EnsureRequest, StartRequest
    <3>2. Joined("ws", FALSE) = op' \/ op' = op \/ Joined("bare", TRUE) = op'
      BY <2>17 DEF Request, StopRequest, EnsureRequest, StartRequest, opVars
    <3> QED BY <3>1, <3>2, <2>12
  <2>18. CASE Restart
    BY <2>18, PortEnded DEF Restart
  <2>19. CASE UNCHANGED vars
    BY <2>19, PortAside DEF vars, opVars, histVars
  <2> QED
    BY <2>1, <2>2, <2>3, <2>4, <2>5, <2>6, <2>7, <2>8, <2>9, <2>10, <2>11, <2>13, <2>14, <2>15,
       <2>16, <2>17, <2>18, <2>19 DEF Next, ChildStep, OpStep, EnsureStep
<1> QED BY <1>1, <1>2, TypeCorrect, PTL DEF Spec

\* Children in order never compete for the port, however many starts, stops and
\* restarts overlap.
THEOREM StartsAgree == Spec => []StartsDoNotClash
<1>1. PortInv => StartsDoNotClash
  BY DEF PortInv, StartsDoNotClash
<1> QED BY <1>1, PortHolds, PTL

\* Of the children that nobody has given up, one lives at most, starting or listening.
OneAppInOrder ==
  \A c, d \in Child : Alive(c) /\ InOrder(c) /\ Alive(d) /\ InOrder(d) => c = d

LEMMA OneInOrder == ASSUME TypeOK, PortInv PROVE OneAppInOrder
<1> SUFFICES ASSUME NEW c \in Child, Alive(c), InOrder(c), NEW d \in Child, Alive(d), InOrder(d)
             PROVE  c = d
  BY DEF OneAppInOrder
<1>1. ASSUME NEW e \in Child, Alive(e) PROVE child[e] = "starting" \/ e \in Holders
  BY <1>1 DEF TypeOK, Alive, Holders
<1>2. CASE c \in Holders /\ d \in Holders
  BY <1>2 DEF PortInv
<1>3. CASE child[c] = "starting" \/ child[d] = "starting"
  BY <1>1, <1>3 DEF PortInv, Others
<1> QED BY <1>1, <1>2, <1>3

\* Routes, agents, the monitor and a runtime that died in between never run an app twice:
\* a start spawns when the child before it is gone or was told to go.
THEOREM AppsRunOnce == Spec => []OneAppInOrder
BY OneInOrder, PortHolds, TypeCorrect, PTL

--------------------------------------------------------------------------------
(* The ports of a running app *)

\* A child in order runs, and nobody knows its ports.
Lost == ~ports /\ ~loose /\ \E c \in Child : child[c] # "dead" /\ InOrder(c)

\* Only a death of the runtime loses the ports.  The ensure that follows it takes them
\* over, or starts the app, unless the app is not said to run by then.
KnownInv ==
  /\ op.phase = "wait" => ports \/ loose
  /\ op.phase = "setup" => op.setup
  /\ op.setup => starter = "background"
  /\ ensure.phase = "start" => op.phase # "none"
  /\ Lost => proc = NoChild
  /\ Lost /\ status = "running" => \/ ensure.phase = "probe" /\ ensure.seen = "running"
                                  \/ ensure.phase = "start"

\* No child is spawned, nobody is taken back, and what is known stays known.
LEMMA NotLost ==
  ASSUME \A d \in Child : child'[d] # "dead" /\ InOrder(d)' => child[d] # "dead" /\ InOrder(d),
         ports \/ loose => ports' \/ loose'
  PROVE  Lost' => Lost
BY DEF Lost

LEMMA NotLostAside ==
  ASSUME UNCHANGED child, termed \subseteq termed', stragglers \subseteq stragglers',
         ports \/ loose => ports' \/ loose'
  PROVE  Lost' => Lost
BY NotLost DEF InOrder

\* The start, if there is one, goes on as it was; an ensure may begin.
LEMMA LostAside ==
  ASSUME KnownInv, Lost' => Lost, ports \/ loose => ports' \/ loose', proc' \in {proc, NoChild},
         op'.phase = op.phase, op'.setup = op.setup, starter' = starter,
         ensure' = ensure \/ (ensure.phase = "none" /\ ensure'.phase = "probe"),
         status' = "running" => status = "running" \/ ports' \/ loose'
  PROVE  KnownInv'
<1>1. Lost' => ~(ports' \/ loose')
  BY DEF Lost
<1> QED BY <1>1 DEF KnownInv

\* A child that exits is not missed.
LEMMA LostExited ==
  ASSUME TypeOK, KnownInv, NEW c \in Child \cup {NoChild}, Exited(c)
  PROVE  KnownInv'
<1>1. \A d \in Child : child'[d] = IF d = c THEN "dead" ELSE child[d]
  BY DEF TypeOK, Exited
<1>2. \A d \in Child : d # c => (InOrder(d)' <=> InOrder(d))
  BY DEF Exited, InOrder
<1>3. op'.phase = op.phase /\ op'.setup = op.setup
  BY DEF Exited, TypeOK, Op
<1>4. /\ proc' \in {proc, NoChild}
      /\ UNCHANGED <<ports, loose, starter, ensure, status>>
  BY DEF Exited
<1>5. Lost' => Lost
  BY <1>1, <1>2, <1>4, NotLost
<1> QED BY <1>3, <1>4, <1>5, LostAside

\* A child that is spawned is known, or noted as one that is not.
LEMMA LostSpawned ==
  ASSUME TypeOK, KnownInv, op.phase # "none", Spawned, UNCHANGED <<starter, ensure>>
  PROVE  KnownInv'
<1>1. op'.phase = "wait" /\ op'.setup = op.setup
  BY DEF Spawned, TypeOK, Op
<1>2. ports' \/ loose'
  BY DEF Spawned, TypeOK, Op, Key
<1>3. ~Lost'
  BY <1>2 DEF Lost
<1> QED BY <1>1, <1>2, <1>3 DEF KnownInv

LEMMA LostFreed ==
  ASSUME TypeOK, KnownInv, op.phase # "none", Freed,
         UNCHANGED <<starter, ensure, status, stragglers>>
  PROVE  KnownInv'
<1>1. CASE Spawned
  BY <1>1, LostSpawned
<1>2. ASSUME NEW h \in Holders, op' = [op EXCEPT !.phase = "reap", !.child = h],
             termed' = termed \cup {h}, UNCHANGED <<child, memVars, loose>>
      PROVE  KnownInv'
  <2>1. op'.phase = "reap" /\ op'.setup = op.setup
    BY <1>2 DEF TypeOK, Op
  <2>2. Lost' => Lost
    BY <1>2, NotLostAside DEF memVars
  <2> QED BY <1>2, <2>1, <2>2 DEF KnownInv, memVars
<1> QED BY <1>1, <1>2 DEF Freed

\* A start joins the one in flight, or begins.
LEMMA LostJoined ==
  ASSUME KnownInv, op' = Joined("ws", FALSE) PROVE
  /\ op'.phase # "none"
  /\ op'.phase = "wait" => ports \/ loose
  /\ op'.phase = "setup" => op'.setup
  /\ op'.setup => op.setup
BY DEF KnownInv, Joined

--------------------------------------------------------------------------------
\* When nothing is in progress, a running app that is in order is one that a stop can
\* reach, except where the code itself leaves its ports unknown.
THEOREM PortsAreKnown == Spec => []RunningAppsCanBeStopped
<1>1. Init => KnownInv
  BY DEF Init, KnownInv, Lost, NoOp, NoEnsure
<1>2. TypeOK /\ PortInv /\ KnownInv /\ [Next]_vars => KnownInv'
  <2> SUFFICES ASSUME TypeOK, PortInv, KnownInv, [Next]_vars PROVE KnownInv'
    OBVIOUS
  <2>1. ASSUME NEW c \in Child, Listen(c) PROVE KnownInv'
    <3>1. \A d \in Child : child'[d] # "dead" /\ InOrder(d)' => child[d] # "dead" /\ InOrder(d)
      BY <2>1 DEF Listen, TypeOK, histVars, InOrder
    <3>2. UNCHANGED <<ports, loose, proc, op, starter, ensure, status>>
      BY <2>1 DEF Listen, memVars, opVars, histVars
    <3> QED BY <3>1, <3>2, NotLost, LostAside
  <2>2. ASSUME NEW c \in Child, Falter(c) PROVE KnownInv'
    <3>1. \A d \in Child : child'[d] # "dead" /\ InOrder(d)' => child[d] # "dead" /\ InOrder(d)
      BY <2>2 DEF Falter, Holders, TypeOK, InOrder
    <3>2. UNCHANGED <<ports, loose, proc, op, starter, ensure, status>>
      BY <2>2 DEF Falter, memVars, opVars
    <3> QED BY <3>1, <3>2, NotLost, LostAside
  <2>3. ASSUME NEW c \in Child, LosePort(c) \/ Exit(c) PROVE KnownInv'
    BY <2>3, LostExited DEF LosePort, Exit
  <2>4. CASE OpHealthy
    <3>1. ports' \/ loose'
      BY <2>4 DEF OpHealthy, memVars
    <3>2. ~Lost'
      BY <3>1 DEF Lost
    <3>3. op' = NoOp /\ ensure'.phase # "start"
      BY <2>4 DEF OpHealthy, EndOp, EndEnsure, NoEnsure
    <3> QED BY <3>1, <3>2, <3>3 DEF KnownInv, NoOp
  <2>5. CASE OpUnhealthy
    <3>1. CASE op.setup
      <4>1. op'.phase = "setup" /\ op'.setup = op.setup
            /\ UNCHANGED <<child, termed, proc, ports, loose, starter, ensure, status, stragglers>>
        BY <2>5, <3>1 DEF OpUnhealthy, TypeOK, Op, memVars
      <4>2. Lost' => Lost
        BY <4>1, NotLostAside
      <4> QED BY <3>1, <4>1, <4>2 DEF KnownInv
    <3>2. CASE ~op.setup
      BY <2>5, <3>2, LostFreed DEF OpUnhealthy
    <3> QED BY <3>1, <3>2
  <2>6. CASE OpSetupDone
    BY <2>6, LostFreed DEF OpSetupDone
  <2>7. CASE OpKills
    BY <2>7, LostExited DEF OpKills, TypeOK, Op
  <2>8. CASE OpReaped
    BY <2>8, LostSpawned DEF OpReaped
  <2>9. CASE OpFails
    <3>1. /\ op' = NoOp /\ ensure'.phase # "start"
          /\ UNCHANGED <<child, termed, proc, ports, loose>> /\ stragglers' = Late
      BY <2>9 DEF OpFails, EndOp, EndEnsure, NoEnsure, memVars
    <3>2. Lost' => Lost
      BY <3>1, NotLostAside DEF Late
    <3>3. CASE op.phase = "wait"
      BY <3>1, <3>2, <3>3 DEF KnownInv, Lost, NoOp
    <3>4. CASE op.phase = "setup"
      <4>1. starter = "background"
        BY <3>4 DEF KnownInv
      <4>2. status' = "failed"
        BY <2>9, <4>1 DEF OpFails, EndOp, EndEnsure
      <4> QED BY <3>1, <3>2, <4>2 DEF KnownInv, NoOp
    <3> QED BY <2>9, <3>3, <3>4 DEF OpFails
  <2>10. CASE EnsureHealthy
    <3>1. UNCHANGED <<child, termed, stragglers, proc, op, starter>> /\ ensure' = NoEnsure
      BY <2>10 DEF EnsureHealthy, EndEnsure
    <3>2. ~Lost' /\ (ports \/ loose => ports' \/ loose')
      <4>1. CASE Tracked
        <5>1. UNCHANGED <<ports, loose>>
          BY <2>10, <4>1 DEF EnsureHealthy, TypeOK
        <5> QED BY <3>1, <4>1, <5>1, NotLostAside DEF KnownInv, Tracked
      <4>2. CASE ~Tracked
        BY <2>10, <4>2 DEF EnsureHealthy, Adopted, Lost
      <4> QED BY <4>1, <4>2
    <3> QED BY <3>1, <3>2 DEF KnownInv, NoEnsure
  <2>11. CASE EnsureStarts
    <3>1. UNCHANGED <<child, termed, stragglers, proc, ports, loose, starter>>
      BY <2>11 DEF EnsureStarts, memVars, histVars
    <3>2. Lost' => Lost
      BY <3>1, NotLostAside
    <3>3. CASE SetupDone(ensure.seen)
      <4>1. ensure'.phase = "start" /\ op' = Joined("ws", FALSE)
        BY <2>11, <3>3 DEF EnsureStarts, TypeOK, Ensure
      <4> QED BY <3>1, <3>2, <4>1, LostJoined DEF KnownInv
    <3>4. CASE ~SetupDone(ensure.seen)
      <4>1. ensure'.phase = "setup" /\ op' = op /\ status' = "building"
        BY <2>11, <3>4 DEF EnsureStarts, TypeOK, Ensure
      <4> QED BY <3>1, <3>2, <4>1 DEF KnownInv
    <3> QED BY <3>3, <3>4
  <2>12. CASE EnsureSetupDone
    <3>1. UNCHANGED <<child, termed, stragglers, proc, ports, loose, starter>>
      BY <2>12 DEF EnsureSetupDone, memVars, histVars
    <3>2. Lost' => Lost
      BY <3>1, NotLostAside
    <3>3. ensure'.phase = "start" /\ op' = Joined("ws", FALSE)
      BY <2>12 DEF EnsureSetupDone, TypeOK, Ensure
    <3> QED BY <3>1, <3>2, <3>3, LostJoined DEF KnownInv
  <2>13. CASE EnsureSetupFails
    <3>1. UNCHANGED <<child, termed, stragglers, proc, ports, loose, starter, op>>
      BY <2>13 DEF EnsureSetupFails, memVars, histVars
    <3>2. ensure' = NoEnsure /\ status' = "failed"
      BY <2>13 DEF EnsureSetupFails, EndEnsure
    <3>3. Lost' => Lost
      BY <3>1, NotLostAside
    <3> QED BY <3>1, <3>2, <3>3 DEF KnownInv, NoEnsure
  <2>14. ASSUME UNCHANGED <<child, ports, loose, op, starter, stragglers>>,
                termed \subseteq termed', proc' \in {proc, NoChild},
                ensure' = ensure \/ (ensure.phase = "none" /\ ensure'.phase = "probe"),
                status' = status \/ status' # "running"
         PROVE  KnownInv'
    BY <2>14, NotLostAside, LostAside
  <2>15. ASSUME NEW a \in Actor, Stopped(a)
         PROVE  /\ ensure' = ensure \/ (ensure.phase = "none" /\ ensure'.phase = "probe")
                /\ status' = status \/ status' # "running"
    BY <2>15 DEF Stopped
  <2>16. ASSUME NEW a \in Actor, StopCommandOk(a) \/ StopKilled(a) PROVE KnownInv'
    <3>1. /\ UNCHANGED <<child, ports, loose, op, starter, stragglers>>
          /\ termed \subseteq termed' /\ proc' \in {proc, NoChild}
      BY <2>16 DEF StopCommandOk, StopKilled, Forgotten, histVars
    <3>2. Stopped(a) \/ UNCHANGED <<status, ensure>>
      BY <2>16 DEF StopCommandOk, StopKilled, Forgotten
    <3> QED BY <3>1, <3>2, <2>14, <2>15
  <2>17. ASSUME NEW a \in Actor, StopPortsFreed(a) PROVE KnownInv'
    <3>1. /\ UNCHANGED <<child, proc, op, starter, stragglers>> /\ termed' = termed \cup Holders
          /\ loose' = (loose \/ op.phase = "wait")
      BY <2>17 DEF StopPortsFreed
    <3>2. ~Lost'
      <4>1. SUFFICES ASSUME ~loose', NEW c \in Child, child'[c] # "dead", InOrder(c)' PROVE FALSE
        BY DEF Lost
      <4>2. child[c] = "starting"
        BY <3>1, <4>1 DEF InOrder, Holders, TypeOK
      <4>3. InOrder(c)
        BY <3>1, <4>1 DEF InOrder
      <4> QED BY <3>1, <4>1, <4>2, <4>3 DEF PortInv
    <3>3. ensure' = ensure \/ (ensure.phase = "none" /\ ensure'.phase = "probe")
      BY <2>15, <2>17 DEF StopPortsFreed
    <3> QED BY <3>1, <3>2, <3>3 DEF KnownInv
  <2>18. ASSUME NEW a \in Actor, StopCommandFails(a) \/ HealFreed(a) PROVE KnownInv'
    BY <2>14, <2>18 DEF StopCommandFails, HealFreed, Ensured, memVars, opVars, histVars
  <2>19. CASE TickProbes
    BY <2>14, <2>19 DEF TickProbes, memVars, opVars, histVars
  <2>20. CASE TickHealthy
    <3>1. /\ UNCHANGED <<child, termed, stragglers, proc, ports, op, starter, ensure>>
          /\ loose => loose'
          /\ status' = "running" => status = "running" \/ ports' \/ loose'
      BY <2>20 DEF TickHealthy, memVars, opVars
    <3>2. Lost' => Lost
      BY <3>1, NotLostAside
    <3> QED BY <3>1, <3>2, LostAside
  <2>21. ASSUME NEW a \in Healer, TickBringsUp(a) \/ TickUnhealthy(a) PROVE KnownInv'
    BY <2>14, <2>21 DEF TickBringsUp, TickUnhealthy, Ensured, memVars, opVars, histVars
  <2>22. CASE EnsureRequest \/ \E next \in {"stop", "restart"} : StopRequest(next)
    BY <2>14, <2>22 DEF EnsureRequest, StopRequest, Ensured, memVars, opVars
  <2>23. CASE StartRequest
    <3>1. /\ UNCHANGED <<child, termed, stragglers, proc, ports, loose, ensure>>
          /\ starter = "idle"
      BY <2>23 DEF StartRequest, memVars
    <3>2. Lost' => Lost
      BY <3>1, NotLostAside
    <3>3. CASE SetupDone(status)
      <4>1. op' = Joined("ws", FALSE) /\ UNCHANGED status
        BY <2>23, <3>3 DEF StartRequest
      <4>2. ~op'.setup
        BY <3>1, <4>1, LostJoined DEF KnownInv
      <4> QED BY <3>1, <3>2, <4>1, <4>2, LostJoined DEF KnownInv
    <3>4. CASE ~SetupDone(status)
      <4>1. op' = Joined("bare", TRUE) /\ starter' = "background" /\ status' = "building"
        BY <2>23, <3>4 DEF StartRequest
      <4>2. op' = op \/ op'.phase = "probe"
        BY <4>1 DEF Joined
      <4> QED BY <3>1, <3>2, <4>1, <4>2 DEF KnownInv
    <3> QED BY <3>3, <3>4
  <2>24. CASE Restart
    <3>1. /\ op' = NoOp /\ proc' = NoChild /\ status' = status
          /\ ensure' = [phase |-> "probe", seen |-> status]
      BY <2>24 DEF Restart
    <3> QED BY <3>1 DEF KnownInv, NoOp
  <2>25. CASE UNCHANGED vars
    BY <2>14, <2>25 DEF vars, memVars, opVars, histVars
  <2> QED
    BY <2>1, <2>2, <2>3, <2>4, <2>5, <2>6, <2>7, <2>8, <2>9, <2>10, <2>11, <2>12, <2>13, <2>16,
       <2>17, <2>18, <2>19, <2>20, <2>21, <2>22, <2>23, <2>24, <2>25
       DEF Next, ChildStep, OpStep, EnsureStep, TickStep, Request, FlowStep
<1>3. KnownInv => RunningAppsCanBeStopped
  BY DEF KnownInv, RunningAppsCanBeStopped, Lost, Quiet, Holders
<1> QED BY <1>1, <1>2, <1>3, TypeCorrect, PortHolds, PTL DEF Spec

--------------------------------------------------------------------------------
(* An app is one process *)

Held(c) == c = NoChild \/ Alive(c)

\* Whatever refers to a child refers to one that lives: the name of a dead child is free.
HeldInv ==
  /\ Held(proc) /\ Held(op.child)
  /\ \A a \in Actor : Held(flow[a].target)
  /\ \A c \in termed \cup stragglers : Alive(c)

\* The step is one of the slot, and refers to living children again.
SlotStep == HeldInv' /\ [Slot!Next]_(Slot!vars)

\* No child is spawned or dies, and nobody is taken back: at most one is given up.
LEMMA SlotAside ==
  ASSUME TypeOK, PortInv, HeldInv, UNCHANGED child,
         proc' \in {proc, NoChild},
         op'.child \in {op.child, NoChild} \cup Holders,
         \A a \in Actor : flow'[a].target \in {flow[a].target, proc, NoChild},
         termed \subseteq termed', stragglers \subseteq stragglers',
         \A c \in termed' : c \in termed \/ Alive(c), stragglers' \subseteq Late
  PROVE  SlotStep
<1>1. \A c : Alive(c)' <=> Alive(c)
  BY DEF Alive
<1>2. \A h \in Holders \cup Late : Alive(h)
  BY AppLifecycleAssumption DEF AppLifecycleAssumption, Alive, Holders, Late, HeldInv
<1>3. HeldInv'
  <2>1. Held(proc)' /\ Held(op.child)'
    BY <1>1, <1>2 DEF HeldInv, Held
  <2>2. \A a \in Actor : Held(flow[a].target)'
    BY <1>1 DEF HeldInv, Held
  <2>3. \A c \in termed' \cup stragglers' : Alive(c)'
    BY <1>1, <1>2 DEF HeldInv
  <2> QED BY <2>1, <2>2, <2>3 DEF HeldInv
<1>4. \A c : InOrder(c)' => InOrder(c)
  BY DEF InOrder
<1>5. CASE \E c \in Child : Alive(c) /\ InOrder(c) /\ ~InOrder(c)'
  <2>1. PICK c \in Child : Alive(c) /\ InOrder(c) /\ ~InOrder(c)'
    BY <1>5
  <2>2. \A d \in Child : Alive(d) /\ InOrder(d) => d = c
    BY <2>1, OneInOrder DEF OneAppInOrder
  <2>3. Slot!GiveUp(c)
    BY <1>1, <1>4, <2>1, <2>2 DEF Slot!GiveUp
  <2> QED BY <1>3, <2>3 DEF SlotStep, Slot!Next
<1>6. CASE ~\E c \in Child : Alive(c) /\ InOrder(c) /\ ~InOrder(c)'
  <2>1. \A c \in Child : Alive(c) => (InOrder(c)' <=> InOrder(c))
    BY <1>4, <1>6
  <2> QED BY <1>1, <1>3, <2>1 DEF SlotStep, Slot!vars
<1> QED BY <1>5, <1>6

\* A child changes what it does, and nothing else happens.
LEMMA SlotChild ==
  ASSUME TypeOK, HeldInv, UNCHANGED <<termed, stragglers, proc, op, flow>>,
         \A c \in Child : (Alive(c)' <=> Alive(c))
  PROVE  SlotStep
<1>1. \A c : InOrder(c)' <=> InOrder(c)
  BY DEF InOrder
<1>2. HeldInv'
  <2>1. \A c \in Child \cup {NoChild} : (Held(c)' <=> Held(c))
    BY DEF Held, Alive
  <2>2. /\ proc \in Child \cup {NoChild} /\ op.child \in Child \cup {NoChild}
        /\ termed \cup stragglers \subseteq Child
        /\ \A a \in Actor : flow[a].target \in Child \cup {NoChild}
    BY DEF TypeOK, Op, Flow
  <2> QED BY <2>1, <2>2 DEF HeldInv, Held
<1> QED BY <1>1, <1>2 DEF SlotStep, Slot!vars

LEMMA SlotExited ==
  ASSUME TypeOK, HeldInv, NEW c \in Child, Alive(c), Exited(c) PROVE SlotStep
<1>1. \A d \in Child : child'[d] = IF d = c THEN "dead" ELSE child[d]
  BY DEF Exited, TypeOK
<1>2. \A d \in Child \ {c} : (Alive(d)' <=> Alive(d)) /\ (InOrder(d)' <=> InOrder(d))
  BY <1>1 DEF Alive, InOrder, Exited
<1>3. ~Alive(c)' /\ c # NoChild
  BY <1>1 DEF Alive
<1>4. HeldInv'
  <2>1. proc' \in (Child \ {c}) \cup {NoChild} /\ proc' \in {proc, NoChild}
    BY <1>3 DEF Exited, TypeOK
  <2>2. op'.child \in (Child \ {c}) \cup {NoChild} /\ op'.child \in {op.child, NoChild}
    BY <1>3 DEF Exited, TypeOK, Op
  <2>3. ASSUME NEW a \in Actor
        PROVE  /\ flow'[a].target \in (Child \ {c}) \cup {NoChild}
               /\ flow'[a].target \in {flow[a].target, NoChild}
    BY <1>3 DEF Exited, TypeOK, Flow
  <2>4. \A d \in termed' \cup stragglers' : d \in Child \ {c} /\ d \in termed \cup stragglers
    BY DEF Exited, TypeOK
  <2> QED BY <1>1, <2>1, <2>2, <2>3, <2>4 DEF HeldInv, Held, Alive
<1>5. Slot!Die(c)
  BY <1>2, <1>3 DEF Slot!Die
<1> QED BY <1>4, <1>5 DEF SlotStep, Slot!Next

\* A child is spawned when those that live were given up.
LEMMA SlotSpawned ==
  ASSUME TypeOK, PortInv, HeldInv, op.phase # "wait", Others, Spawned,
         UNCHANGED <<termed, stragglers, flow>>
  PROVE  SlotStep
<1>1. PICK c \in Child :
        /\ ~Alive(c)
        /\ op' = [op EXCEPT !.phase = "wait", !.child = c]
        /\ child' = [child EXCEPT ![c] = "starting"]
        /\ proc' \in {proc, c}
  BY DEF Spawned, memVars
<1>2. c # NoChild /\ child[c] = "dead"
  BY <1>1, AppLifecycleAssumption DEF AppLifecycleAssumption, Alive
<1>3. \A d \in Child : child'[d] = IF d = c THEN "starting" ELSE child[d]
  BY <1>1 DEF TypeOK
<1>4. /\ Alive(c)'
      /\ \A d \in Child \ {c} : (Alive(d)' <=> Alive(d))
  BY <1>2, <1>3 DEF Alive
<1>5. HeldInv'
  <2>1. op'.child = c
    BY <1>1 DEF TypeOK, Op
  <2>2. /\ proc \in Child \cup {NoChild}
        /\ termed \cup stragglers \subseteq Child
        /\ \A a \in Actor : flow[a].target \in Child \cup {NoChild}
    BY DEF TypeOK, Flow
  <2>3. \A d \in Child : Alive(d) => Alive(d)'
    BY <1>4
  <2>4. \A d \in Child \cup {NoChild} : Held(d) => Held(d)'
    BY <2>3 DEF Held, Alive
  <2> QED BY <1>1, <1>4, <2>1, <2>2, <2>3, <2>4 DEF HeldInv, Held
<1>6. c \notin termed \cup stragglers
  BY <1>1 DEF HeldInv
<1>7. \A d \in Child : (InOrder(d)' <=> InOrder(d))
  BY DEF InOrder
<1>8. InOrder(c)
  BY <1>6 DEF InOrder
<1>9. \A d \in Child : ~(Alive(d) /\ InOrder(d))
  BY DEF PortInv, Others, TypeOK, Alive, Holders
<1>10. Slot!Launch(c)
  BY <1>1, <1>4, <1>7, <1>8, <1>9 DEF Slot!Launch
<1> QED BY <1>5, <1>10 DEF SlotStep, Slot!Next

LEMMA SlotFreed ==
  ASSUME TypeOK, PortInv, HeldInv, op.phase \notin {"wait", "reap"}, Freed,
         UNCHANGED <<stragglers, flow>>
  PROVE  SlotStep
<1>1. CASE Holders = {} /\ Spawned /\ UNCHANGED termed
  BY <1>1, SlotSpawned DEF Others
<1>2. ASSUME NEW h \in Holders, op' = [op EXCEPT !.phase = "reap", !.child = h],
             termed' = termed \cup {h}, UNCHANGED <<child, memVars>>
      PROVE  SlotStep
  <2>1. Alive(h) /\ op'.child = h
    BY <1>2, AppLifecycleAssumption DEF AppLifecycleAssumption, Alive, Holders, TypeOK, Op
  <2> QED BY <1>2, <2>1, SlotAside DEF memVars, Late
<1> QED BY <1>1, <1>2 DEF Freed

\* A start joins the one in flight, or begins, and nobody else moves.
LEMMA SlotJoined ==
  ASSUME TypeOK, PortInv, HeldInv, UNCHANGED <<child, termed, stragglers, proc>>,
         \/ op' = Joined("ws", FALSE) \/ op' = Joined("bare", TRUE) \/ op' = op,
         \A a \in Actor : flow'[a].target \in {flow[a].target, proc, NoChild}
  PROVE  SlotStep
<1>1. op'.child \in {op.child, NoChild}
  BY DEF Joined
<1> QED BY <1>1, SlotAside DEF Late

\* The start and what awaits it are over.
LEMMA SlotEnded ==
  ASSUME TypeOK, PortInv, HeldInv, UNCHANGED <<child, termed, proc>>,
         op'.child \in {op.child, NoChild}, stragglers' \in {stragglers, Late},
         \A a \in Actor : flow'[a].target \in {flow[a].target, NoChild}
  PROVE  SlotStep
BY SlotAside DEF Late

LEMMA SlotOp == ASSUME TypeOK, PortInv, HeldInv, OpStep PROVE SlotStep
<1>1. ASSUME NEW ok \in BOOLEAN, EndOp(ok), UNCHANGED <<child, termed, memVars>> PROVE SlotStep
  <2>1. op' = NoOp /\ stragglers' = Late
    BY <1>1 DEF EndOp
  <2>2. \A a \in Actor : flow'[a] \in {flow[a], Idle}
    BY <1>1 DEF EndOp, EndEnsure
  <2> QED BY <1>1, <2>1, <2>2, SlotEnded DEF memVars, NoOp, Idle
<1>2. CASE OpHealthy
  BY <1>1, <1>2 DEF OpHealthy
<1>3. CASE OpUnhealthy
  <2>1. CASE op.setup
    <3>1. op'.child = op.child /\ UNCHANGED <<child, termed, proc, stragglers, flow>>
      BY <1>3, <2>1 DEF OpUnhealthy, TypeOK, Op, memVars
    <3> QED BY <3>1, SlotEnded
  <2>2. CASE ~op.setup
    BY <1>3, <2>2, SlotFreed DEF OpUnhealthy
  <2> QED BY <2>1, <2>2
<1>4. CASE OpSetupDone
  BY <1>4, SlotFreed DEF OpSetupDone
<1>5. CASE OpKills
  <2>1. op.child \in Child
    BY <1>5 DEF OpKills, Alive, TypeOK, Op
  <2> QED BY <1>5, <2>1, SlotExited DEF OpKills
<1>6. CASE OpReaped
  BY <1>6, SlotSpawned DEF OpReaped, PortInv
<1>7. CASE OpFails
  BY <1>1, <1>7 DEF OpFails
<1> QED BY <1>2, <1>3, <1>4, <1>5, <1>6, <1>7 DEF OpStep

LEMMA SlotEnsure == ASSUME TypeOK, PortInv, HeldInv, EnsureStep PROVE SlotStep
<1>1. CASE EnsureHealthy \/ EnsureSetupFails
  <2>1. \A a \in Actor : flow'[a] \in {flow[a], Idle}
    BY <1>1 DEF EnsureHealthy, EnsureSetupFails, EndEnsure
  <2>2. UNCHANGED <<child, termed, proc, op, stragglers>>
    BY <1>1 DEF EnsureHealthy, EnsureSetupFails, memVars, histVars
  <2> QED BY <2>1, <2>2, SlotEnded DEF Idle
<1>2. CASE EnsureStarts \/ EnsureSetupDone
  <2>1. UNCHANGED <<child, termed, proc, stragglers, flow>>
    BY <1>2 DEF EnsureStarts, EnsureSetupDone, memVars, histVars
  <2>2. op' = Joined("ws", FALSE) \/ op' = op
    BY <1>2 DEF EnsureStarts, EnsureSetupDone
  <2> QED BY <2>1, <2>2, SlotJoined
<1> QED BY <1>1, <1>2 DEF EnsureStep

\* A stop tells the child that was tracked when it began, or whoever listens, to exit.
LEMMA SlotFlow == ASSUME TypeOK, PortInv, HeldInv, NEW a \in Actor, FlowStep(a) PROVE SlotStep
<1>1. UNCHANGED <<child, op, stragglers>>
  BY DEF FlowStep, StopCommandOk, StopCommandFails, StopKilled, StopPortsFreed, HealFreed,
         opVars, histVars
<1>2. proc' \in {proc, NoChild}
  BY DEF FlowStep, StopCommandOk, StopCommandFails, StopKilled, StopPortsFreed, HealFreed,
         Forgotten, memVars
<1>3. /\ termed \subseteq termed'
      /\ \A c \in termed' : c \in termed \/ Alive(c)
  <2>1. \/ termed' = termed
        \/ termed' = termed \cup Holders
        \/ /\ flow[a].target # NoChild
           /\ termed' = termed \cup {flow[a].target}
    BY DEF FlowStep, StopCommandOk, StopCommandFails, StopKilled, StopPortsFreed, HealFreed
  <2>2. \A h \in Holders : Alive(h)
    BY AppLifecycleAssumption DEF AppLifecycleAssumption, Holders, Alive
  <2> QED BY <2>1, <2>2 DEF HeldInv, Held
<1>4. \A b \in Actor : flow'[b].target \in {flow[b].target, NoChild}
  <2>1. ASSUME Stopped(a) PROVE \A b \in Actor : flow'[b].target \in {flow[b].target, NoChild}
    <3>1. \E f : f.target = NoChild /\ flow' = [flow EXCEPT ![a] = f]
      <4>1. Idle.target = NoChild /\ Waiting.target = NoChild
            /\ [flow[a] EXCEPT !.phase = "free", !.target = NoChild].target = NoChild
        BY DEF TypeOK, Flow, Idle, Waiting
      <4>2. \/ flow' = [flow EXCEPT ![a] = Idle]
            \/ flow' = [flow EXCEPT ![a] = Waiting]
            \/ flow' = [flow EXCEPT ![a] = [flow[a] EXCEPT !.phase = "free", !.target = NoChild]]
        BY <2>1 DEF Stopped
      <4> QED BY <4>1, <4>2
    <3> QED BY <3>1 DEF TypeOK
  <2>2. CASE StopCommandOk(a) \/ StopCommandFails(a)
    BY <2>1, <2>2 DEF StopCommandOk, StopCommandFails, Forgotten, TypeOK, Flow
  <2>3. CASE StopKilled(a) \/ StopPortsFreed(a)
    BY <2>1, <2>3 DEF StopKilled, StopPortsFreed, Forgotten, TypeOK, Flow
  <2>4. CASE HealFreed(a)
    BY <2>4 DEF HealFreed, TypeOK, Flow, Waiting, Idle
  <2> QED BY <2>2, <2>3, <2>4 DEF FlowStep
<1> QED BY <1>1, <1>2, <1>3, <1>4, SlotAside DEF Late

\* What the monitor and the users begin takes the handle of the child for its target.
LEMMA SlotBegun ==
  ASSUME TypeOK, PortInv, HeldInv, TickStep \/ Request PROVE SlotStep
<1>1. UNCHANGED <<child, termed, proc, stragglers>>
  BY DEF TickStep, TickProbes, TickHealthy, TickBringsUp, TickUnhealthy,
         Request, StopRequest, EnsureRequest, StartRequest, memVars, histVars
<1>2. op' = Joined("ws", FALSE) \/ op' = Joined("bare", TRUE) \/ op' = op
  BY DEF TickStep, TickProbes, TickHealthy, TickBringsUp, TickUnhealthy,
         Request, StopRequest, EnsureRequest, StartRequest, opVars
<1>3. \A a \in Actor : flow'[a].target \in {flow[a].target, proc, NoChild}
  <2>1. \/ UNCHANGED flow
        \/ \E b \in Actor : \E f : /\ f.target \in {proc, NoChild}
                                   /\ flow' = [flow EXCEPT ![b] = f]
    <3>1. /\ Waiting.target = NoChild
          /\ [Waiting EXCEPT !.next = "bringup"].target = NoChild
          /\ \A next : StopBegun(next).target = proc
      BY DEF Waiting, Idle, StopBegun
    <3> DEFINE Aims(b, f) == /\ f.target \in {proc, NoChild}
                             /\ flow' = [flow EXCEPT ![b] = f]
    <3>2. CASE TickStep
      <4>1. \/ UNCHANGED flow
            \/ \E b \in Healer : \/ flow' = [flow EXCEPT ![b] = StopBegun("heal")]
                                 \/ flow' = [flow EXCEPT ![b] = [Waiting EXCEPT !.next = "bringup"]]
        BY <3>2 DEF TickStep, TickProbes, TickHealthy, TickBringsUp, TickUnhealthy
      <4>2. \/ UNCHANGED flow
            \/ \E b \in Healer : \/ Aims(b, StopBegun("heal"))
                                 \/ Aims(b, [Waiting EXCEPT !.next = "bringup"])
        BY <3>1, <4>1
      <4> HIDE DEF Aims
      <4>3. UNCHANGED flow \/ \E b \in Actor : \E f : Aims(b, f)
        BY <4>2 DEF Actor
      <4> QED BY <4>3 DEF Aims
    <3>3. CASE Request
      <4>1. \/ UNCHANGED flow
            \/ \E next : flow' = [flow EXCEPT ![User] = StopBegun(next)]
            \/ flow' = [flow EXCEPT ![User] = Waiting]
        BY <3>3 DEF Request, StopRequest, EnsureRequest, StartRequest
      <4>2. UNCHANGED flow \/ (\E next : Aims(User, StopBegun(next))) \/ Aims(User, Waiting)
        BY <3>1, <4>1
      <4> HIDE DEF Aims
      <4>3. UNCHANGED flow \/ \E b \in Actor : \E f : Aims(b, f)
        BY <4>2 DEF Actor
      <4> QED BY <4>3 DEF Aims
    <3> QED BY <3>2, <3>3
  <2> QED BY <2>1 DEF TypeOK
<1> QED BY <1>1, <1>2, <1>3, SlotJoined

LEMMA SlotChildren ==
  ASSUME TypeOK, HeldInv, ChildStep PROVE SlotStep
<1>1. ASSUME NEW c \in Child, Listen(c) \/ Falter(c) PROVE SlotStep
  <2>1. /\ child[c] # "dead" /\ child'[c] # "dead"
        /\ \A d \in Child : d # c => child'[d] = child[d]
        /\ UNCHANGED <<termed, stragglers, proc, op, flow>>
    BY <1>1 DEF Listen, Falter, Holders, TypeOK, memVars, opVars, histVars
  <2> QED BY <2>1, SlotChild DEF Alive
<1>2. ASSUME NEW c \in Child, LosePort(c) \/ Exit(c) PROVE SlotStep
  BY <1>2, SlotExited, AppLifecycleAssumption
     DEF AppLifecycleAssumption, LosePort, Exit, Alive
<1> QED BY <1>1, <1>2 DEF ChildStep

\* An app is one process to its users: it is launched into an empty slot, and leaves the
\* slot by dying or by being given up, whatever overtakes the starts and the stops.
THEOREM AppsFillOneSlot == Spec => ImplementsSlot
<1>1. Init => HeldInv /\ Slot!Init
  BY DEF Init, HeldInv, Held, NoOp, Idle, Slot!Init, Alive
<1>2. TypeOK /\ PortInv /\ HeldInv /\ [Next]_vars => SlotStep
  <2> SUFFICES ASSUME TypeOK, PortInv, HeldInv, [Next]_vars PROVE SlotStep
    OBVIOUS
  <2>1. CASE Restart
    BY <2>1, SlotAside DEF Restart, Late, NoOp, Idle
  <2>2. CASE UNCHANGED vars
    BY <2>2, SlotEnded DEF vars, memVars, opVars, histVars
  <2> QED
    BY <2>1, <2>2, SlotChildren, SlotOp, SlotEnsure, SlotFlow, SlotBegun DEF Next
<1> QED
  BY <1>1, <1>2, TypeCorrect, PortHolds, PTL DEF Spec, SlotStep, ImplementsSlot, Slot!Spec

================================================================================

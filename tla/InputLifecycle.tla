----------------------------- MODULE InputLifecycle -----------------------------
(***************************************************************************)
(* What the session input queue promises to those who put inputs into it,  *)
(* without workers, leases, heartbeats or crashes: an input waits, is      *)
(* taken, may be given back as if nothing had happened, and is settled     *)
(* once.  At most one final report is made of it, and if a turn result is  *)
(* recorded it says what that report says.                                 *)
(***************************************************************************)
CONSTANTS
  Input,    \* the inputs
  Verdict   \* how a run can end

VARIABLES
  phase,    \* where the input is in its life
  report,   \* the terminal event that clients see, or "none"
  answer    \* the status of the turn result, or "none"

vars == <<phase, report, answer>>

Phase == {"absent", "waiting", "taken", "settled"}

Submit(i) ==
  /\ phase[i] = "absent"
  /\ phase' = [phase EXCEPT ![i] = "waiting"]
  /\ UNCHANGED <<report, answer>>

Take(i) ==
  /\ phase[i] = "waiting"
  /\ phase' = [phase EXCEPT ![i] = "taken"]
  /\ UNCHANGED <<report, answer>>

\* The attempt is undone: only possible before anything final was reported.
Return(i) ==
  /\ phase[i] = "taken"
  /\ report[i] = "none"
  /\ phase' = [phase EXCEPT ![i] = "waiting"]
  /\ UNCHANGED <<report, answer>>

\* A client withdraws an input that nobody took.
Withdraw(i) ==
  /\ phase[i] = "waiting"
  /\ phase' = [phase EXCEPT ![i] = "settled"]
  /\ UNCHANGED <<report, answer>>

\* The regular end: the report, the settlement and the turn result together.
\* A waiting input can be answered too, when it is paused.
Answer(i, v) ==
  /\ phase[i] \in {"waiting", "taken"}
  /\ report[i] = "none"
  /\ phase' = [phase EXCEPT ![i] = "settled"]
  /\ report' = [report EXCEPT ![i] = v]
  /\ answer' = [answer EXCEPT ![i] = v]

\* An end cut short: the report is out, the rest of the end is not.
Report(i, v) ==
  /\ phase[i] = "taken"
  /\ report[i] = "none"
  /\ report' = [report EXCEPT ![i] = v]
  /\ \/ phase' = [phase EXCEPT ![i] = "settled"]
     \/ UNCHANGED phase
  /\ UNCHANGED answer

\* The row is closed without a word more.
Abandon(i) ==
  /\ phase[i] = "taken"
  /\ phase' = [phase EXCEPT ![i] = "settled"]
  /\ UNCHANGED <<report, answer>>

Init ==
  /\ phase = [i \in Input |-> "absent"]
  /\ report = [i \in Input |-> "none"]
  /\ answer = [i \in Input |-> "none"]

Next ==
  \E i \in Input :
    \/ Submit(i) \/ Take(i) \/ Return(i) \/ Withdraw(i) \/ Abandon(i)
    \/ \E v \in Verdict : Answer(i, v) \/ Report(i, v)

Spec == Init /\ [][Next]_vars

================================================================================

------------------------- MODULE IssueWorkflowRefinement -------------------------
(***************************************************************************)
(* The session of an issue is a session like any other: its inputs live    *)
(* the life that InputLifecycle promises, which SessionQueue implements in *)
(* detail.  The row is the phase; the turn result is report and answer.    *)
(***************************************************************************)
EXTENDS IssueWorkflow

\* The places of the inputs an issue may ever have.
Inputs == Nat \ {NoInput}

PhaseIn(t, n) == CASE StatusIn(t, n) = "NONE"    -> "absent"
                   [] StatusIn(t, n) = "QUEUED"  -> "waiting"
                   [] StatusIn(t, n) = "CLAIMED" -> "taken"
                   [] OTHER                      -> "settled"

Session(i) == INSTANCE InputLifecycle WITH
  Input   <- Inputs,
  Verdict <- Turn,
  phase   <- [n \in Inputs |-> PhaseIn(task[i], n)],
  report  <- [n \in Inputs |-> TurnIn(task[i], n)],
  answer  <- [n \in Inputs |-> TurnIn(task[i], n)]

\* Whatever dispatches, cancels, pauses, crashes and cut blocks do to an issue, an
\* input of its session is settled once, not executed again after that, and has one
\* turn result, which never changes; one step moves one input of a session.
SessionsImplementLifecycle == \A i \in Issue : Session(i)!Spec

================================================================================

-------------------------- MODULE SessionQueueRefinement --------------------------
(***************************************************************************)
(* The session queue implements the life of an input that InputLifecycle   *)
(* promises: rows become phases, the event stream becomes the report and   *)
(* the turn result the answer.                                             *)
(***************************************************************************)
EXTENDS SessionQueue

PhaseOf(st) == CASE st = "NONE"    -> "absent"
                 [] st = "QUEUED"  -> "waiting"
                 [] st = "CLAIMED" -> "taken"
                 [] OTHER          -> "settled"

\* The terminal event a client that reads the stream stops at: the first one.
ReportOf(events) == IF events = <<>> THEN "none" ELSE Head(events)

Lifecycle == INSTANCE InputLifecycle WITH
  phase  <- [i \in Input |-> PhaseOf(status[i])],
  report <- [i \in Input |-> ReportOf(terminals[i])],
  answer <- turn

\* Every step of the queue, its workers and its routes is a step of the
\* promise or invisible in it: no input is settled twice, taken back after a
\* report, reported twice, or answered with something else than its report,
\* whatever the interleaving of recovery, pause, requeue and crash.
ImplementsLifecycle == Lifecycle!Spec

================================================================================

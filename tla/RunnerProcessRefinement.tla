------------------------- MODULE RunnerProcessRefinement -------------------------
(***************************************************************************)
(* RunnerProcess implements RunOutcome: the phase of the executor is the   *)
(* stage, and the word of a runner is the terminal event it wrote, whether *)
(* the parent has read it or not.                                          *)
(***************************************************************************)
EXTENDS RunnerProcess

Run == INSTANCE RunOutcome WITH
  Word      <- Terminal,
  Retriable <- {"terminated"},
  Silence   <- {"run_failed", "paused"},
  Failed    <- "run_failed",
  stage     <- phase,
  word      <- emitted,
  broken    <- raised

\* Whatever deadlines, pauses, lost claims and slow reads do to a run, it comes to one
\* verdict, which is the last word of its last runner if that had one, or a failure if
\* the execution broke; a second runner is started only after a first one that said the
\* provider ended it.
ImplementsOutcome == Run!Spec

================================================================================

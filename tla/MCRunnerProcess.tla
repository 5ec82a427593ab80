---------------------------- MODULE MCRunnerProcess ----------------------------
(* One input, two runners at most, and deadlines of a few ticks. *)
EXTENDS RunnerProcess

================================================================================

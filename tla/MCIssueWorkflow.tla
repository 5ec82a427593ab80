---------------------------- MODULE MCIssueWorkflow ----------------------------
(* A small board: two issues, and what a user and a runner may do with them. *)
EXTENDS IssueWorkflow

MCUserStatus == {"todo"}
MCVerdict == {"completed", "paused"}

\* What a later step or a property can still tell apart: of an input that is closed
\* and that nothing names only the place in the queue, and of the history of an issue
\* that was torn nothing else, for torn is never taken back.
MCView ==
  LET named(t, n) == n \in {t.cur, t.latest, t.rtInput} \cup OpenInputs(t)
      faded(t) == [t EXCEPT !.rows = [n \in DOMAIN @ |-> IF named(t, n) THEN @[n] ELSE "closed"]] IN
  <<[i \in Issue |-> faded(task[i])], exec, cancelling, edits, crashes, followed,
    [i \in Issue |-> torn[i] \/ byHand[i]], [i \in Issue |-> torn[i] \/ withdrawn[i]], torn>>

================================================================================

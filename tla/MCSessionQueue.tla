----------------------------- MODULE MCSessionQueue -----------------------------
(* Constant values for model checking SessionQueue. *)
EXTENDS SessionQueueRefinement

\* Two inputs of one session, of a conversation or of a cron job; the second
\* is the more urgent one, so it overtakes the first while both wait.
SessionOf2 == <<"chat", "chat">>
ScheduledOf2 == <<"scheduled-1", "scheduled-1">>
Prio2 == <<0, 1>>

================================================================================

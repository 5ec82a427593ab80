------------------------------- MODULE RunOutcome -------------------------------
(***************************************************************************)
(* What the execution of a claimed input owes to its caller, without       *)
(* processes, pipes, timers or signals.  A runner is tried, and says one   *)
(* last word at most.  If the word is that the provider ended the request, *)
(* the session is compacted and another runner may be tried, once.  The    *)
(* caller gets one verdict: the last word of the last runner, one of the   *)
(* verdicts on a runner that said none, or nothing, when the caller is no  *)
(* longer the one to be told.  The execution may break: the verdict is     *)
(* then that of a failure, whatever the runner has said.                   *)
(***************************************************************************)
EXTENDS Naturals

CONSTANTS
  Word,       \* what a runner may say last
  Retriable,  \* the words after which another runner may be tried
  Silence,    \* the verdicts on a runner that said nothing
  Failed      \* the verdict on an execution that broke

VARIABLES
  stage,    \* "starting", "running", "compacting", "done"
  attempt,  \* the runners that were asked for
  word,     \* the last word of the last runner, or "none"
  broken,   \* the execution was ended by an error of its own
  verdict

vars == <<stage, attempt, word, broken, verdict>>

Truthful(v) == v \in IF word = "none" THEN Silence ELSE {word}

Untried == stage \in {"starting", "compacting"}

Try ==
  /\ Untried
  /\ stage' = "running"
  /\ attempt' = attempt + 1
  /\ word' = "none"
  /\ UNCHANGED <<broken, verdict>>

\* A runner that is asked for is not started when the run has been cut short.
Forgo(v) ==
  /\ Untried
  /\ v \in Silence \cup {"abandoned"}
  /\ stage' = "done"
  /\ attempt' = attempt + 1
  /\ word' = "none"
  /\ verdict' = v
  /\ UNCHANGED broken

Say(w) ==
  /\ stage = "running"
  /\ ~broken
  /\ word = "none"
  /\ word' = w
  /\ UNCHANGED <<stage, attempt, broken, verdict>>

Compact ==
  /\ stage = "running"
  /\ ~broken
  /\ attempt = 1
  /\ word \in Retriable
  /\ stage' = "compacting"
  /\ UNCHANGED <<attempt, word, broken, verdict>>

End(v) ==
  /\ ~broken
  /\ \/ stage = "running" /\ (Truthful(v) \/ v = "abandoned")
     \/ stage = "compacting" /\ v = word
  /\ stage' = "done"
  /\ verdict' = v
  /\ UNCHANGED <<attempt, word, broken>>

\* An error at any point before the verdict; the caller may be told later.
Break ==
  /\ stage = "running"
  /\ broken' = TRUE
  /\ UNCHANGED <<stage, attempt, word, verdict>>

BrokenEnd(v) ==
  /\ stage # "done"
  /\ v \in {Failed, "abandoned"}
  /\ broken' = TRUE
  /\ stage' = "done"
  /\ verdict' = v
  /\ UNCHANGED <<attempt, word>>

Init ==
  /\ stage = "starting" /\ attempt = 0
  /\ word = "none" /\ broken = FALSE /\ verdict = "none"

Next ==
  \/ Try \/ Compact \/ Break
  \/ \E v \in {Failed, "abandoned"} : BrokenEnd(v)
  \/ \E w \in Word : Say(w)
  \/ \E v \in Word \cup Silence \cup {"abandoned"} : Forgo(v) \/ End(v)

Spec == Init /\ [][Next]_vars

================================================================================

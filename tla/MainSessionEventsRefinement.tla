----------------------- MODULE MainSessionEventsRefinement -----------------------
(***************************************************************************)
(* The delivery of main-session events implements EventDelivery: the rows  *)
(* of the event queue and of the input queue, seen as who holds an event.  *)
(* The inputs themselves implement InputLifecycle, as those of the queue   *)
(* do: who delivers events uses the queue and adds nothing to it.          *)
(***************************************************************************)
EXTENDS MainSessionEvents

\* The context of an open input names the event, and the event is not with it.
Loose(e) ==
  \E j \in Input : /\ Open(j)
                  /\ e \in carries[j]
                  /\ ~(evStatus[e] = "materialized" /\ evInput[e] = j)

Delivery == INSTANCE EventDelivery WITH
  Nobody  <- NoInput,
  place   <- evStatus,
  carrier <- [e \in Event |-> IF evStatus[e] = "materialized" THEN evInput[e] ELSE NoInput],
  live    <- {i \in Input : Open(i)},
  loose   <- {e \in Event : Loose(e)}

\* Whatever is cut, repeated, withdrawn or recovered: what an open input carries
\* is moved by the end of that input only, and what was delivered or superseded is
\* never moved again but by the end of an open input that was severed from it.
ImplementsDelivery == Delivery!Spec

PhaseOf(i) == CASE status[i] = "NONE"    -> "absent"
                [] status[i] = "QUEUED"  -> "waiting"
                [] status[i] = "CLAIMED" -> "taken"
                [] OTHER                 -> "settled"

\* The reports and answers of inputs are left to SessionQueue.
Queue == INSTANCE InputLifecycle WITH
  phase  <- [i \in Input |-> PhaseOf(i)],
  report <- [i \in Input |-> "none"],
  answer <- [i \in Input |-> "none"]

\* Whatever carries events is an input like any other: a pass that is cut, a request
\* that is repeated and a run that fails settle it once and move no other input.
RowsImplementLifecycle == Queue!Spec

================================================================================

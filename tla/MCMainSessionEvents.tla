--------------------------- MODULE MCMainSessionEvents ---------------------------
(* Constant values for model checking MainSessionEvents. *)
EXTENDS MainSessionEventsRefinement

\* One subagent that asks and reports, in either order.
SubagentOf2 == [e \in Event |-> "s1"]

================================================================================

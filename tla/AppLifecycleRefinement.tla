------------------------- MODULE AppLifecycleRefinement -------------------------
(***************************************************************************)
(* The processes of an app implement ProcessSlot: the child in order is in *)
(* the slot.  A start does not wait for those that were given up, which    *)
(* may ignore the SIGTERM they were sent or not have been sent any.        *)
(***************************************************************************)
EXTENDS AppLifecycle

Slot == INSTANCE ProcessSlot WITH
  Process <- Child,
  Patient <- FALSE,
  current <- {c \in Child : Alive(c) /\ InOrder(c)},
  leaving <- {c \in Child : Alive(c) /\ ~InOrder(c)}

\* Whatever routes, agents, the monitor and a dying runtime do at once, the app is one
\* process: a second is spawned only when the first is gone or was given up, and a
\* child that was given up is not taken for the app's again.
ImplementsSlot == Slot!Spec

================================================================================

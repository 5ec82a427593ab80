------------------------ MODULE DesktopRuntimeRefinement ------------------------
(***************************************************************************)
(* The runtimes that the desktop spawns implement ProcessSlot: the living  *)
(* child that it has a handle of is in the slot.  A start waits until the  *)
(* one before it is gone, or was hit by SIGKILL.                           *)
(***************************************************************************)
EXTENDS DesktopRuntime

Slot == INSTANCE ProcessSlot WITH
  Process <- Child,
  Patient <- TRUE,
  current <- {c \in Child : Living(c) /\ handle = c},
  leaving <- {c \in Child : Living(c) /\ handle # c}

\* Whatever starts, stops, restarts, exits and the quit do at once, the desktop spawns a
\* runtime when none lives, and one that it has let go of is never its runtime again.
ImplementsSlot == Slot!Spec

================================================================================

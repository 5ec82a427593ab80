------------------------------- MODULE ProcessSlot -------------------------------
(***************************************************************************)
(* What one who runs a service as a process of the operating system owes   *)
(* to its users, without handles, ports, probes and signals.  There is a   *)
(* slot for one process.  It is launched into the empty slot, and leaves   *)
(* the slot by dying or by being given up; what was given up may live on,  *)
(* but never comes back into the slot.                                     *)
(***************************************************************************)
CONSTANTS
  Process,
  Patient   \* whether a launch waits until nothing that was given up lives

VARIABLES
  current,  \* the process in the slot: a set of one, or empty
  leaving   \* those that were given up and live

vars == <<current, leaving>>

Launch(c) ==
  /\ current = {}
  /\ c \notin leaving
  /\ Patient => leaving = {}
  /\ current' = {c}
  /\ UNCHANGED leaving

GiveUp(c) ==
  /\ c \in current
  /\ current' = current \ {c}
  /\ leaving' = leaving \cup {c}

Die(c) ==
  /\ c \in current \cup leaving
  /\ current' = current \ {c}
  /\ leaving' = leaving \ {c}

Init == current = {} /\ leaving = {}

Next == \E c \in Process : Launch(c) \/ GiveUp(c) \/ Die(c)

Spec == Init /\ [][Next]_vars

================================================================================

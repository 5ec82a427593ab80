---------------------------- MODULE MCAppLifecycle ----------------------------
(* One app, the children it may have at a time, and one restart of the monitor. *)
EXTENDS AppLifecycle

CONSTANTS c1, c2, c3, monitor, user

MCChild == {c1, c2, c3}
MCHealer == {monitor}

==============================================================================

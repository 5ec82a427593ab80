--------------------------- MODULE MCDesktopRuntime ---------------------------
(* Two children, two calls that need a runtime and a change of configuration. *)
EXTENDS DesktopRuntime

CONSTANTS c1, c2, a1, a2, r1, r2

MCChild == {c1, c2}
OneAsker == {a1}
TwoAskers == {a1, a2}
OneRestart == {r1}
TwoRestarts == {r1, r2}

==============================================================================

------------------------------ MODULE EventDelivery ------------------------------
(***************************************************************************)
(* What the delivery of background events promises, without passes, rows,  *)
(* keys, runs or crashes: an event is in one hand at a time.  It waits, is *)
(* taken along by one input, leaves a live input by that input's end only, *)
(* and is told or superseded once and for all.  An input that is over      *)
(* gives its events back, if at all, as they were.                         *)
(*                                                                         *)
(* A request that is cut between its row and its marks leaves an input     *)
(* that names events it did not take along: they are loose while it lives, *)
(* and its end may settle them in whoever's hand they are by then.         *)
(***************************************************************************)
CONSTANTS
  Event,   \* the events
  Input,   \* the inputs that may tell them
  Nobody   \* the carrier of an event that no input carries

VARIABLES
  place,    \* where an event is in its life
  carrier,  \* the input that has taken it along
  live,     \* the inputs that wait or are being executed
  loose     \* the events that a live input names and does not carry

vars == <<place, carrier, live, loose>>

Carried(i) == {e \in Event : place[e] = "materialized" /\ carrier[e] = i}

Waiting == {e \in Event : place[e] = "pending"}

\* Events that inputs which are over have not told.
LeftOver == {e \in Event : place[e] = "materialized" /\ carrier[e] \notin live}

Become(E, p) ==
  /\ place' = [e \in Event |-> IF e \in E THEN p ELSE place[e]]
  /\ carrier' = [e \in Event |-> IF e \in E THEN Nobody ELSE carrier[e]]

\* A subagent leaves an event, which replaces those of its that wait.
Leave(e, S) ==
  /\ place[e] = "absent"
  /\ place' = [f \in Event |-> IF f = e THEN "pending"
                               ELSE IF f \in S THEN "superseded" ELSE place[f]]
  /\ UNCHANGED <<carrier, live, loose>>

\* Waiting events are replaced.
Supersede(S) ==
  /\ Become(S, "superseded")
  /\ UNCHANGED <<live, loose>>

\* What is left over waits again.
GiveBack(R) ==
  /\ Become(R, "pending")
  /\ UNCHANGED <<live, loose>>

\* Input i takes waiting events along.  The same step may put back what inputs that
\* are over have left, and take that along too.
TakeAlong(i, R, E) ==
  /\ place' = [e \in Event |-> IF e \in E THEN "materialized"
                               ELSE IF e \in R THEN "pending" ELSE place[e]]
  /\ carrier' = [e \in Event |-> IF e \in E THEN i
                                 ELSE IF e \in R THEN Nobody ELSE carrier[e]]
  /\ live' \in {live, live \cup {i}}
  /\ loose' \subseteq loose

\* The request that enqueues input i is cut before it marks the events of E: they
\* become loose.
Tear(i, R, E) ==
  /\ Become(R, "pending")
  /\ live' \in {live, live \cup {i}}
  /\ loose' \subseteq loose \cup E

\* A live input is over, and ends the life of what it carries in one way.
End(i, E, p) ==
  /\ Become(E, p)
  /\ live' = live \ {i}
  /\ loose' \subseteq loose

Init ==
  /\ place = [e \in Event |-> "absent"]
  /\ carrier = [e \in Event |-> Nobody]
  /\ live = {}
  /\ loose = {}

Next ==
  \/ \E e \in Event : \E S \in SUBSET Waiting : Leave(e, S)
  \/ \E S \in SUBSET Waiting : Supersede(S)
  \/ \E R \in SUBSET LeftOver : GiveBack(R)
  \/ \E i \in Input : \E R \in SUBSET LeftOver : \E E \in SUBSET (Waiting \cup R) :
       TakeAlong(i, R, E) \/ Tear(i, R, E)
  \/ \E i \in live, p \in {"pending", "delivered"} :
       \E E \in SUBSET (Carried(i) \cup loose) : End(i, E, p)

Spec == Init /\ [][Next]_vars

================================================================================

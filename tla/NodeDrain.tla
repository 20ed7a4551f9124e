------------------------------ MODULE NodeDrain ------------------------------
(***************************************************************************)
(* What draining a node promises (docs/node-maintenance.md), without the   *)
(* panel, the queues, the marker or the agent's process: a node is open,   *)
(* being drained or drained.  Launches begin on an open node only, the     *)
(* ones already begun may still come up while it drains, and a drained     *)
(* node runs nothing until it is opened again.                             *)
(***************************************************************************)
CONSTANT Works   \* whatever may run on the node: games, installs, backups

VARIABLES
    node,        \* "open", "draining" or "drained"
    launching,   \* launches handed to Docker whose outcome is not in yet
    running      \* containers that run

vars == <<node, launching, running>>

TypeOK ==
    /\ node \in {"open", "draining", "drained"}
    /\ launching \subseteq Works
    /\ running \subseteq Works

Init ==
    /\ node = "open"
    /\ launching = {}
    /\ running = {}

Launch(w) ==
    /\ node = "open"
    /\ launching' = launching \cup {w}
    /\ UNCHANGED <<node, running>>

ComesUp(w) ==
    /\ w \in launching
    /\ running' = running \cup {w}
    /\ UNCHANGED <<node, launching>>

Settles(w) ==
    /\ launching' = launching \ {w}
    /\ running' \in {running, running \ {w}}
    /\ UNCHANGED node

Stops(w) ==
    /\ running' = running \ {w}
    /\ UNCHANGED <<node, launching>>

Close ==
    /\ node = "open"
    /\ node' = "draining"
    /\ UNCHANGED <<launching, running>>

Drained ==
    /\ node = "draining"
    /\ launching = {} /\ running = {}
    /\ node' = "drained"
    /\ UNCHANGED <<launching, running>>

Open ==
    /\ node' = "open"
    /\ UNCHANGED <<launching, running>>

\* The agent dies: Docker finishes or drops the launches it was given.
AgentDies ==
    /\ launching' = {}
    /\ \E up \in SUBSET launching : running' = running \cup up
    /\ UNCHANGED node

Next ==
    \/ \E w \in Works : Launch(w) \/ ComesUp(w) \/ Settles(w) \/ Stops(w)
    \/ Close \/ Drained \/ Open \/ AgentDies

Spec == Init /\ [][Next]_vars

\* A drained node runs nothing.
DrainedIsEmpty == node = "drained" => launching = {} /\ running = {}
=============================================================================

----------------------------- MODULE ServerHome -----------------------------
(***************************************************************************)
(* What moving a server promises (services/serverMigration.ts, the header  *)
(* and the phases): the server has one home, its files are there, another  *)
(* node gets a copy before it becomes the home, and a copy is only deleted *)
(* where the home is not.                                                  *)
(***************************************************************************)
CONSTANT Nodes

VARIABLES
    home,     \* the node the panel's row names
    current,  \* nodes that hold all of the server's files as they are now
    void      \* the promise is void: a step happened that breaks it

homeVars == <<home, current, void>>

Init ==
    /\ home \in Nodes
    /\ current = {home}
    /\ void = FALSE

\* "A migration is a copy, and the source keeps everything."
Copy(n) ==
    /\ home \in current
    /\ current' = current \cup {n}
    /\ UNCHANGED <<home, void>>

\* The game runs at home, and what other nodes hold is out of date.
Play ==
    /\ current' = current \cap {home}
    /\ UNCHANGED <<home, void>>

Move(n) ==
    /\ n \in current
    /\ home' = n
    /\ UNCHANGED <<current, void>>

Drop(n) ==
    /\ n # home
    /\ current' = current \ {n}
    /\ UNCHANGED <<home, void>>

\* From here on anything.
Forfeit ==
    /\ void'
    /\ home' \in Nodes
    /\ current' \in SUBSET Nodes

Next ==
    \/ Play \/ Forfeit
    \/ \E n \in Nodes : Copy(n) \/ Move(n) \/ Drop(n)

Spec == Init /\ [][Next]_homeVars

\* The files are where the panel's row says the server is.
Safe == void \/ home \in current

HomeTypeOK ==
    /\ home \in Nodes
    /\ current \subseteq Nodes
    /\ void \in BOOLEAN
=============================================================================

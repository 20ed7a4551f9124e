---------------------------- MODULE ServerStatus ----------------------------
(***************************************************************************)
(* The pure rules the panel applies to a server's recorded status:         *)
(* services/statusReconcile.ts, services/startVerdict.ts and the status    *)
(* predicates of services/serverManager.ts.  No state of its own: the      *)
(* modules of the services that keep or change a status extend it.         *)
(***************************************************************************)

\* Every value `servers.status` may hold.
Statuses == {"creating", "installing", "stopped", "starting", "running",
             "stopping", "suspended", "error", "deleting", "migrating",
             "archiving", "archived", "restoring"}

\* Every answer the agent gives for a container: Docker's own states, and
\* "missing" when it has none for the server.
ContainerStates == {"created", "running", "paused", "restarting", "removing",
                    "exited", "dead", "missing"}

IsProvisioning(s) == s \in {"creating", "installing"}

IsArchiveStatus(s) == s \in {"archiving", "archived", "restoring"}

\* Statuses that are the panel's decision, never an observation of the node.
PanelDecides(s) == s \in {"suspended", "migrating"} \/ IsArchiveStatus(s)

\* Statuses the fleet sweeper leaves out of its query.
NotSwept(s) == PanelDecides(s) \/ IsProvisioning(s) \/ s = "deleting"

\* assertNotMigrating and assertNotArchived: the refusals every lifecycle
\* request except a port removal and a delete shares.
Operable(s) == s # "migrating" /\ ~IsArchiveStatus(s)

\* Mutation of StatusFromContainerState: Docker's own word is recorded.
StatusIsDockerState(c) == c

StatusFromContainerState(c) ==
    CASE c \in {"running", "restarting"} -> "running"
      [] c \in {"missing", "dead"}       -> "error"
      [] OTHER                           -> "stopped"

\* The one observation a transition cannot be told apart from.
ObservationIsAmbiguous(transition, observed) ==
    \/ transition = "stopping" /\ observed = "running"
    \/ transition = "starting" /\ observed = "stopped"

\* Mutation of ReconcileStatus: a transition is trusted however old it is.
ReconcileTrustsForever(stored, c, recent) ==
    LET observed == StatusFromContainerState(c) IN
    IF PanelDecides(stored) \/ ObservationIsAmbiguous(stored, observed)
    THEN stored
    ELSE observed

\* The status to record for a row that says `stored` on a node that says `c`.
\* `recent`: the row was written less than TRANSITION_TRUSTED_FOR_MS ago.
ReconcileStatus(stored, c, recent) ==
    LET observed == StatusFromContainerState(c) IN
    IF \/ PanelDecides(stored)
       \/ recent /\ ObservationIsAmbiguous(stored, observed)
    THEN stored
    ELSE observed

\* Whether one observation ends a start watch: anything but "running" has a
\* startFailureReason.
StartFailed(c) == c # "running"
=============================================================================

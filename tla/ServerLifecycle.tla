-------------------------- MODULE ServerLifecycle --------------------------
(***************************************************************************)
(* One server as the panel's control plane operates it: its row in         *)
(* Postgres, its container on the node, and everything in the panel        *)
(* process that reads the one and writes the other.                        *)
(*                                                                         *)
(*   - requests (services/serverManager.ts): the power actions with their  *)
(*     missing-container recovery and env refresh, suspend and unsuspend,  *)
(*     delete, the detail page's reconcile, the port changes, create and   *)
(*     reinstall;                                                          *)
(*   - start watches (services/startWatchdog.ts);                          *)
(*   - the status sweeper (services/statusSweeper.ts);                     *)
(*   - a panel crash with the boot recovery of instrumentation.ts.         *)
(*                                                                         *)
(* Every await of the code is a point where another actor may run: a task  *)
(* is a program counter plus the locals it carries across its awaits, and  *)
(* each action is the code from one await to the next.  A call to the node *)
(* and the panel's receipt of its answer are one step; a call that fails   *)
(* may have taken effect all the same (a timeout, a lost reply).           *)
(***************************************************************************)
EXTENDS ServerStatus, Naturals

CONSTANTS
    Tasks,        \* request handlers and detached tasks that may overlap
    Watches,      \* slots for start watches, finished ones are reused
    NoWatch,      \* "no entry in inFlightWatches"
    Ops,          \* the operations this instance exercises
    Faults,       \* the faults this instance exercises
    MaxRequests,  \* bound: requests accepted
    MaxFaults     \* bound: faults injected

PowerOps == {"start", "stop", "kill", "restart"}
PortOps == {"addPort", "removePort"}
AllOps == PowerOps \cup PortOps
          \cup {"suspend", "unsuspend", "delete", "forget", "view", "create",
                "reinstall"}

ASSUME LifecycleAssumption ==
    /\ NoWatch \notin Watches
    /\ Ops \subseteq AllOps
    /\ Faults \subseteq {"crash", "removal"}
    /\ MaxRequests \in Nat
    /\ MaxFaults \in Nat

VARIABLES
    row,        \* the server's row: status, whether container_id is set,
                \* whether a transition on it is recent enough to be trusted
    ctr,        \* what the node's Docker says of the container
    task,       \* [Tasks -> program counter and locals]
    watch,      \* [Watches -> phase, abort flag and verdict]
    inFlight,   \* inFlightWatches: the watch a deliberate stop would call off
    building,   \* inFlightProvisions has the server
    sweep,      \* the sweeper's pass: the row it read and the correction
    requests,   \* requests accepted so far
    faults      \* faults injected so far

vars == <<row, ctr, task, watch, inFlight, building, sweep, requests, faults>>

-----------------------------------------------------------------------------
\* A row not inserted yet is "none", a deleted one "gone": an UPDATE that names
\* either by id changes nothing.
RowStatuses == Statuses \cup {"none", "gone"}
Rows == [status: RowStatuses, container: BOOLEAN, recent: BOOLEAN]
BuiltRow(s) == [status |-> s, container |-> TRUE, recent |-> FALSE]
NoRow(s) == [status |-> s, container |-> FALSE, recent |-> FALSE]

\* Of the container states three matter here: up, down (created, exited,
\* paused: every one of them reads "stopped") and not there.
Containers == {"running", "exited", "missing"}

PCs == {"idle", "mark", "refresh", "remark", "call", "relaunch", "heal",
        "settle", "watch", "fail", "drop", "restore",
        "hclear", "rload", "rstop", "rremove", "rclear", "rmark", "create",
        "save", "rstart", "rrun", "rfail",
        "ports", "pmark", "pskip", "install", "first",
        "imark", "track", "iload", "istop", "check0", "wipe", "iclear", "check1",
        "check2"}

\* seen: status of the row the request loaded; write: the status a reconcile
\* settled on; retried: the container was rebuilt and the call runs again; must:
\* a delete's cleanupMustSucceed; again: a rebuild's wasRunning; building: the
\* task was put in inFlightProvisions, and its `finally` takes the entry out.
TaskStates == [op: AllOps \cup {"none"}, pc: PCs, seen: RowStatuses,
               write: Statuses, retried: BOOLEAN, must: BOOLEAN,
               again: BOOLEAN, building: BOOLEAN]
NoTask == [op |-> "none", pc |-> "idle", seen |-> "none", write |-> "error",
           retried |-> FALSE, must |-> FALSE, again |-> FALSE,
           building |-> FALSE]

WatchStates == [phase: {"off", "poll", "log"}, aborted: BOOLEAN,
                verdict: Statuses]
NoWatchState == [phase |-> "off", aborted |-> FALSE, verdict |-> "error"]

SweepStates == [phase: {"off", "read", "write"}, from: RowStatuses,
                recent: BOOLEAN, to: Statuses]
NoSweep == [phase |-> "off", from |-> "none", recent |-> FALSE,
            to |-> "error"]

TypeOK ==
    /\ row \in Rows
    /\ ctr \in Containers
    /\ task \in [Tasks -> TaskStates]
    /\ watch \in [Watches -> WatchStates]
    /\ inFlight \in Watches \cup {NoWatch}
    /\ building \in BOOLEAN
    /\ sweep \in SweepStates
    /\ requests \in 0..MaxRequests
    /\ faults \in 0..MaxFaults

-----------------------------------------------------------------------------
Exists == row.status \notin {"none", "gone"}

\* The statuses a fresh updated_at makes reconcileStatus hesitate over.
Transitional(s) == s \in {"starting", "stopping"}

\* UPDATE servers ... WHERE id = <id>, stamping updated_at.
Update(newRow) ==
    row' = IF Exists THEN [newRow EXCEPT !.recent = Transitional(newRow.status)]
           ELSE row

SetStatus(s) == Update([row EXCEPT !.status = s])

At(t, pc) == task[t].pc = pc
Goto(t, pc) == task' = [task EXCEPT ![t].pc = pc] /\ UNCHANGED building
Finish(t) ==
    /\ task' = [task EXCEPT ![t] = NoTask]
    /\ building' = (building /\ ~task[t].building)

\* Mutation of CancelStartWatch: the entry goes, the watch polls on.
CancelForgetsOnly == inFlight' = NoWatch /\ UNCHANGED watch

\* cancelStartWatch: abort the current watch and forget it.
CancelStartWatch ==
    /\ watch' = IF inFlight = NoWatch THEN watch
                ELSE [watch EXCEPT ![inFlight].aborted = TRUE]
    /\ inFlight' = NoWatch

watchVars == <<watch, inFlight>>
bounds == <<requests, faults>>

\* What a node call leaves behind when the agent carries it out.
Carried(call) ==
    CASE call = "start"  -> "running"
      [] call = "delete" -> "missing"
      [] call = "create" -> "exited"
      [] OTHER           -> IF ctr = "running" THEN "exited" ELSE ctr

\* The agent answers: a power call wants a container and a create wants none,
\* a delete is idempotent.
NodeAnswers(call) ==
    /\ call \in PowerOps => ctr # "missing"
    /\ call = "create" => ctr = "missing"
    /\ ctr' = Carried(call)

\* The panel sees an error: the node was unreachable, refused, or answered too
\* late, having done the work or not.
NodeErrs(call) ==
    UNCHANGED ctr \/ NodeAnswers(call)

\* A best-effort call: logged and stepped over whatever became of it.
NodeTried(call) == NodeErrs(call)

-----------------------------------------------------------------------------
(* Requests: load the row, refuse or take the first local step.            *)

Accept(t, op, pc, must) ==
    /\ op \in Ops
    /\ At(t, "idle")
    /\ requests < MaxRequests
    /\ requests' = requests + 1
    /\ task' = [task EXCEPT ![t] = [NoTask EXCEPT !.op = op, !.pc = pc,
                    !.seen = IF op \in {"delete", "view"} THEN row.status
                             ELSE "none",
                    !.must = must]]

\* startServer, restartServer, stopServer, killServer up to the first write.
\* Only the two stops call off the watch here.
BeginPower(t, op) ==
    /\ op \in PowerOps
    /\ Exists /\ Operable(row.status) /\ row.container
    /\ op \in {"start", "restart"} => row.status # "suspended"
    /\ Accept(t, op, "mark", FALSE)
    /\ IF op \in {"stop", "kill"} THEN CancelStartWatch ELSE UNCHANGED watchVars
    /\ UNCHANGED <<row, ctr, building, sweep, faults>>

BeginSuspend(t) ==
    /\ Exists /\ Operable(row.status)
    /\ Accept(t, "suspend", IF row.container THEN "call" ELSE "settle", FALSE)
    /\ CancelStartWatch
    /\ UNCHANGED <<row, ctr, building, sweep, faults>>

BeginUnsuspend(t) ==
    /\ Exists /\ row.status = "suspended"
    /\ Accept(t, "unsuspend", "settle", FALSE)
    /\ UNCHANGED <<row, ctr, watch, inFlight, building, sweep, faults>>

\* deleteServer: `data` asks for the files too.
BeginDelete(t, data) ==
    /\ Exists /\ row.status # "migrating"
    /\ Accept(t, "delete", "mark", row.container \/ data)
    /\ CancelStartWatch
    /\ UNCHANGED <<row, ctr, building, sweep, faults>>

\* deleteServer with `force`: the row goes, the node is not asked.
BeginForget(t) ==
    /\ Exists /\ row.status # "migrating"
    /\ Accept(t, "forget", "drop", FALSE)
    /\ CancelStartWatch
    /\ UNCHANGED <<row, ctr, building, sweep, faults>>

\* getServerReconciled: reconcileRowStatus before it asks the node.
BeginView(t) ==
    /\ Exists /\ row.container
    /\ row.status # "suspended" /\ ~IsArchiveStatus(row.status)
    /\ Accept(t, "view", "call", FALSE)
    /\ UNCHANGED <<row, ctr, watch, inFlight, building, sweep, faults>>

\* addServerPort refuses an archived server, removeServerPort does not; both
\* then rebuild the container.
BeginPorts(t, op) ==
    /\ op \in PortOps
    /\ Exists /\ row.status # "migrating"
    /\ op = "addPort" => ~IsArchiveStatus(row.status)
    /\ Accept(t, op, "rload", FALSE)
    /\ UNCHANGED <<row, ctr, watch, inFlight, building, sweep, faults>>

\* createServer inserts the row.
BeginCreate(t) ==
    /\ row.status = "none"
    /\ Accept(t, "create", "track", FALSE)
    /\ row' = NoRow("creating")
    /\ UNCHANGED <<ctr, watch, inFlight, building, sweep, faults>>

\* reinstallServer's refusals; the row is written after further awaits.
BeginReinstall(t) ==
    /\ Exists /\ Operable(row.status)
    /\ row.status \notin {"suspended", "deleting"}
    /\ ~IsProvisioning(row.status) /\ ~building
    /\ Accept(t, "reinstall", "imark", FALSE)
    /\ UNCHANGED <<row, ctr, watch, inFlight, building, sweep, faults>>

-----------------------------------------------------------------------------
(* The power actions, suspend, delete and the detail reconcile.            *)

Transition(op) == CASE op = "start"  -> "starting"
                    [] op = "delete" -> "deleting"
                    [] OTHER         -> "stopping"

Settled(op) == CASE op \in {"start", "restart"} -> "running"
                 [] op = "suspend"              -> "suspended"
                 [] OTHER                       -> "stopped"

\* The transitional status is on the row before the node is asked anything.
Mark(t) ==
    /\ At(t, "mark")
    /\ SetStatus(Transition(task[t].op))
    /\ Goto(t, IF task[t].op \in {"start", "restart"} THEN "refresh" ELSE "call")
    /\ UNCHANGED <<ctr, watch, inFlight, sweep, bounds>>

\* The env refresh rebuilt the container: the status is written again, and a
\* restart has only the start left to do.
Remark(t) ==
    /\ At(t, "remark")
    /\ SetStatus(Transition(task[t].op))
    /\ task' = [task EXCEPT ![t] = [@ EXCEPT !.pc = "call", !.op = "start"]]
    /\ UNCHANGED <<ctr, watch, inFlight, building, sweep, bounds>>

\* refreshContainerEnv: the saved environment differs from the one the
\* container was built with, or it does not.
RefreshEnv(t) ==
    /\ At(t, "refresh")
    /\ \/ Goto(t, "call") /\ UNCHANGED watchVars
       \/ Goto(t, "rload") /\ CancelStartWatch
    /\ UNCHANGED <<row, ctr, sweep, bounds>>

\* withMissingContainerRecovery: the operation, a 404 that leads to the
\* recovery once, or another error.  Docker's restart is a stop with a start
\* behind it, and the container is down in between.
CallPower(t) ==
    /\ At(t, "call") /\ task[t].op \in PowerOps
    /\ \/ /\ NodeAnswers(IF task[t].op = "restart" THEN "stop" ELSE task[t].op)
          /\ Goto(t, IF task[t].op = "restart" THEN "relaunch" ELSE "settle")
       \/ /\ NodeErrs(IF task[t].op = "restart" THEN "stop" ELSE task[t].op)
          /\ Goto(t, "fail")
       \/ /\ ctr = "missing" /\ ~task[t].retried
          /\ Goto(t, "heal")
          /\ UNCHANGED ctr
    /\ UNCHANGED <<row, watch, inFlight, sweep, bounds>>

Relaunch(t) ==
    /\ At(t, "relaunch")
    /\ \/ NodeAnswers("start") /\ Goto(t, "settle")
       \/ NodeErrs("start") /\ Goto(t, "fail")
    /\ UNCHANGED <<row, watch, inFlight, sweep, bounds>>

\* healMissingContainer: ask for the state, and only for "missing" drop the
\* stale id and rebuild.  The state read and the UPDATE are two awaits.
Heal(t) ==
    /\ At(t, "heal")
    /\ \/ /\ ctr = "missing"
          /\ task' = [task EXCEPT ![t].pc = "hclear", ![t].retried = TRUE]
          /\ UNCHANGED building
       \/ Goto(t, "fail")
    /\ UNCHANGED <<row, ctr, watch, inFlight, sweep, bounds>>

\* suspendServer's stop is best-effort.
CallSuspend(t) ==
    /\ At(t, "call") /\ task[t].op = "suspend"
    /\ NodeTried("stop")
    /\ Goto(t, "settle")
    /\ UNCHANGED <<row, watch, inFlight, sweep, bounds>>

\* deleteServer's node call: confirmed, or failed and then fatal only when
\* there was something to clean up.
CallDelete(t) ==
    /\ At(t, "call") /\ task[t].op = "delete"
    /\ \/ NodeAnswers("delete") /\ Goto(t, "drop")
       \/ /\ NodeErrs("delete")
          /\ Goto(t, IF task[t].must THEN "restore" ELSE "drop")
    /\ UNCHANGED <<row, watch, inFlight, sweep, bounds>>

\* reconcileRowStatus: the node's answer against the row as it was loaded.  An
\* unreachable node, like a transition still trusted, changes nothing.
CallView(t, recent) ==
    /\ At(t, "call") /\ task[t].op = "view"
    /\ \/ Finish(t)
       \/ LET resolved == ReconcileStatus(task[t].seen, ctr, recent) IN
          /\ resolved # task[t].seen
          /\ task' = [task EXCEPT ![t].pc = "settle", ![t].write = resolved]
          /\ UNCHANGED building
    /\ UNCHANGED <<row, ctr, watch, inFlight, sweep, bounds>>

\* The settled status, by id alone.  A start is then watched.
Settle(t) ==
    /\ At(t, "settle")
    /\ SetStatus(IF task[t].op = "view" THEN task[t].write
                 ELSE Settled(task[t].op))
    /\ IF task[t].op \in {"start", "restart"} THEN Goto(t, "watch") ELSE Finish(t)
    /\ UNCHANGED <<ctr, watch, inFlight, sweep, bounds>>

\* beginStartWatch: replaces any watch of the server.
BeginStartWatch(t) ==
    /\ At(t, "watch")
    /\ \E w \in Watches :
          /\ watch[w].phase = "off"
          /\ inFlight' = w
          /\ watch' = [v \in Watches |->
                CASE v = w        -> [NoWatchState EXCEPT !.phase = "poll"]
                  [] v = inFlight -> [watch[v] EXCEPT !.aborted = TRUE]
                  [] OTHER        -> watch[v]]
    /\ Finish(t)
    /\ UNCHANGED <<row, ctr, sweep, bounds>>

\* The catch of a power action, of provisionServer and of the rebuild.
Fail(t) ==
    /\ At(t, "fail")
    /\ SetStatus("error")
    /\ Finish(t)
    /\ UNCHANGED <<ctr, watch, inFlight, sweep, bounds>>

\* A delete the node could not confirm puts the loaded status back.
RestoreStatus(t) ==
    /\ At(t, "restore")
    /\ SetStatus(task[t].seen)
    /\ Finish(t)
    /\ UNCHANGED <<ctr, watch, inFlight, sweep, bounds>>

DropRow(t) ==
    /\ At(t, "drop")
    /\ row' = IF Exists THEN NoRow("gone") ELSE row
    /\ Finish(t)
    /\ UNCHANGED <<ctr, watch, inFlight, sweep, bounds>>

-----------------------------------------------------------------------------
(* recreateServerContainer, called by the env refresh, the recovery, the   *)
(* port changes and the reinstall.                                         *)

\* Where a rebuild returns to, and where an error it throws is caught.
Returned(t) ==
    IF task[t].op \notin PowerOps THEN Finish(t)
    ELSE Goto(t, IF task[t].retried THEN "call" ELSE "remark")

Thrown(t) ==
    IF task[t].op \in PortOps THEN Finish(t) ELSE Goto(t, "fail")

\* Load the row again; the old container only goes when the row names one.
RebuildLoad(t) ==
    /\ At(t, "rload")
    /\ IF ~Exists THEN Thrown(t)
       ELSE /\ task' = [task EXCEPT ![t] =
                  [@ EXCEPT !.again = (row.status = "running"),
                            !.pc = IF row.container THEN "rstop" ELSE "rmark"]]
            /\ UNCHANGED building
    /\ UNCHANGED <<row, ctr, watch, inFlight, sweep, bounds>>

RebuildStop(t) ==
    /\ At(t, "rstop")
    /\ NodeTried("stop")
    /\ Goto(t, "rremove")
    /\ UNCHANGED <<row, watch, inFlight, sweep, bounds>>

RebuildRemove(t) ==
    /\ At(t, "rremove")
    /\ NodeTried("delete")
    /\ Goto(t, "rclear")
    /\ UNCHANGED <<row, watch, inFlight, sweep, bounds>>

\* container_id = NULL: in the recovery before the rebuild, in the rebuild after
\* a removal confirmed or not, in the reinstall after the wipe.
ClearContainer(t) ==
    /\ \/ At(t, "hclear") /\ Goto(t, "rload")
       \/ At(t, "rclear") /\ Goto(t, "rmark")
       \/ At(t, "iclear") /\ Goto(t, "check1")
       \/ At(t, "iclear") /\ Goto(t, "check2")
    /\ Update([row EXCEPT !.container = FALSE])
    /\ UNCHANGED <<ctr, watch, inFlight, sweep, bounds>>

\* setStatus("creating"); the create call then reads the row's recovery
\* metadata and throws when the row is gone.
RebuildMark(t) ==
    /\ At(t, "rmark")
    /\ SetStatus("creating")
    /\ Goto(t, IF Exists THEN "create" ELSE "rfail")
    /\ UNCHANGED <<ctr, watch, inFlight, sweep, bounds>>

\* createServerContainer on the node: minutes when the image is pulled.
CreateContainer(t) ==
    /\ At(t, "create")
    /\ \/ NodeAnswers("create") /\ Goto(t, "save")
       \/ /\ NodeErrs("create")
          /\ Goto(t, IF task[t].op = "create" THEN "fail" ELSE "rfail")
    /\ UNCHANGED <<row, watch, inFlight, sweep, bounds>>

\* The row gets its container_id and `stopped` in one statement.
SaveContainer(t) ==
    /\ At(t, "save")
    /\ Update([row EXCEPT !.container = TRUE, !.status = "stopped"])
    /\ IF task[t].op = "create" THEN Goto(t, "first") \/ Finish(t)
       ELSE IF task[t].again THEN Goto(t, "rstart")
       ELSE Returned(t)
    /\ UNCHANGED <<ctr, watch, inFlight, sweep, bounds>>

\* A server that was running is started again, without the recovery.
RebuildStart(t) ==
    /\ At(t, "rstart")
    /\ \/ NodeAnswers("start") /\ Goto(t, "rrun")
       \/ NodeErrs("start") /\ Goto(t, "rfail")
    /\ UNCHANGED <<row, watch, inFlight, sweep, bounds>>

RebuildRunning(t) ==
    /\ At(t, "rrun")
    /\ SetStatus("running")
    /\ Returned(t)
    /\ UNCHANGED <<ctr, watch, inFlight, sweep, bounds>>

\* Mutation of RebuildFail: the error is thrown on, the row is not written.
RebuildThrows(t) ==
    /\ At(t, "rfail")
    /\ Thrown(t)
    /\ UNCHANGED <<row, ctr, watch, inFlight, sweep, bounds>>

RebuildFail(t) ==
    /\ At(t, "rfail")
    /\ SetStatus("error")
    /\ Thrown(t)
    /\ UNCHANGED <<ctr, watch, inFlight, sweep, bounds>>

-----------------------------------------------------------------------------
(* provisionServer and rebuildServerFromBlueprint.                         *)

\* A create and a reinstall detach their task and enter it in the map.
TrackBuild(t) ==
    /\ At(t, "track")
    /\ \E next \in {"ports", "iload"} :
          /\ next = "ports" <=> task[t].op = "create"
          /\ task' = [task EXCEPT ![t] = [@ EXCEPT !.pc = next,
                                                  !.building = TRUE]]
    /\ building' = TRUE
    /\ UNCHANGED <<row, ctr, watch, inFlight, sweep, bounds>>

\* Ports and env are reserved; a blueprint with an install step checks that
\* the row still wants building before it is marked, one without does not.
ReservePorts(t) ==
    /\ At(t, "ports")
    /\ \E next \in {"check1", "pskip", "fail"} : Goto(t, next)
    /\ UNCHANGED <<row, ctr, watch, inFlight, sweep, bounds>>

\* assertStillProvisioning: otherwise the task is abandoned without a write.
AssertStillProvisioning(t) ==
    /\ \E pc \in {"check0", "check1", "check2"} : At(t, pc)
    /\ IF IsProvisioning(row.status)
       THEN Goto(t, CASE At(t, "check0") -> "wipe"
                      [] At(t, "check1") -> IF task[t].op = "create"
                                            THEN "pmark" ELSE "install"
                      [] At(t, "check2") -> IF task[t].op = "create"
                                            THEN "create" ELSE "rload")
       ELSE Finish(t)
    /\ UNCHANGED <<row, ctr, watch, inFlight, sweep, bounds>>

MarkInstalling(t) ==
    /\ At(t, "pmark") \/ At(t, "pskip")
    /\ SetStatus("installing")
    /\ Goto(t, IF At(t, "pmark") THEN "install" ELSE "check2")
    /\ UNCHANGED <<ctr, watch, inFlight, sweep, bounds>>

\* The install script runs in a container of its own, minutes long.
RunInstall(t) ==
    /\ At(t, "install")
    /\ \E next \in {"check2", "fail"} : Goto(t, next)
    /\ UNCHANGED <<row, ctr, watch, inFlight, sweep, bounds>>

\* startWhenBuilt goes through startServer, whose refusals and failures end
\* the task with the build standing.
FirstStart(t) ==
    /\ At(t, "first")
    /\ \/ /\ Exists /\ Operable(row.status) /\ row.container
          /\ row.status # "suspended"
          /\ task' = [task EXCEPT ![t].op = "start", ![t].pc = "mark"]
          /\ UNCHANGED building
       \/ Finish(t)
    /\ UNCHANGED <<row, ctr, watch, inFlight, sweep, bounds>>

\* reinstallServer accepts: only now does the row say so.
ReinstallMark(t) ==
    /\ At(t, "imark")
    /\ SetStatus("installing")
    /\ Goto(t, "track")
    /\ UNCHANGED <<ctr, watch, inFlight, sweep, bounds>>

ReinstallLoad(t) ==
    /\ At(t, "iload")
    /\ Goto(t, IF ~Exists THEN "fail"
               ELSE IF row.container THEN "istop" ELSE "check0")
    /\ UNCHANGED <<row, ctr, watch, inFlight, sweep, bounds>>

ReinstallStop(t) ==
    /\ At(t, "istop")
    /\ NodeTried("stop")
    /\ Goto(t, "check0")
    /\ UNCHANGED <<row, watch, inFlight, sweep, bounds>>

\* The wipe is the one step of a reinstall that is not best-effort.
ReinstallWipe(t) ==
    /\ At(t, "wipe")
    /\ \/ NodeAnswers("delete") /\ Goto(t, "iclear")
       \/ NodeErrs("delete") /\ Goto(t, "fail")
    /\ UNCHANGED <<row, watch, inFlight, sweep, bounds>>

-----------------------------------------------------------------------------
(* The start watches.                                                      *)

\* Mutation of WatchOver: the entry goes whoever it belongs to.
WatchOverClears(w) ==
    /\ watch' = [watch EXCEPT ![w] = NoWatchState]
    /\ inFlight' = NoWatch

\* The `finally`: leave the map alone when a newer watch is in it.
WatchOver(w) ==
    /\ watch' = [watch EXCEPT ![w] = NoWatchState]
    /\ inFlight' = IF inFlight = w THEN NoWatch ELSE inFlight

\* A watch that was called off ends at its next wake-up; one whose window closes
\* on a container that held, or on a node it could not ask, only forgets an
\* older failure.
WatchEnds(w) ==
    /\ watch[w].phase = "poll"
    /\ WatchOver(w)
    /\ UNCHANGED <<row, ctr, task, building, sweep, bounds>>

\* A poll that proves the start failed goes on to read the log; no abort is
\* looked at after this one.
WatchFails(w) ==
    /\ watch[w].phase = "poll" /\ ~watch[w].aborted
    /\ StartFailed(ctr)
    /\ watch' = [watch EXCEPT ![w].phase = "log",
                    ![w].verdict = StatusFromContainerState(ctr)]
    /\ UNCHANGED <<row, ctr, task, inFlight, building, sweep, bounds>>

\* recordStartFailure: reason and corrected status in one statement.
WatchRecords(w) ==
    /\ watch[w].phase = "log"
    /\ SetStatus(watch[w].verdict)
    /\ WatchOver(w)
    /\ UNCHANGED <<ctr, task, building, sweep, bounds>>

-----------------------------------------------------------------------------
(* The status sweeper.                                                     *)

Sweepable == Exists /\ row.container /\ ~NotSwept(row.status)

\* loadSweepableServers.
SweepLoad ==
    /\ sweep.phase = "off"
    /\ Sweepable
    /\ sweep' = [NoSweep EXCEPT !.phase = "read", !.from = row.status,
                                !.recent = row.recent]
    /\ UNCHANGED <<row, ctr, task, watch, inFlight, building, bounds>>

\* The node answered: statusCorrections keeps the row only if it drifted.  The
\* row may have outlived its trust while the node was asked.
SweepObserve(recent) ==
    /\ sweep.phase = "read"
    /\ recent => sweep.recent
    /\ LET to == ReconcileStatus(sweep.from, ctr, recent) IN
       sweep' = IF to = sweep.from THEN NoSweep
                ELSE [sweep EXCEPT !.phase = "write", !.to = to]
    /\ UNCHANGED <<row, ctr, task, watch, inFlight, building, bounds>>

\* An unreachable node is no evidence about its containers.
SweepUnreachable ==
    /\ sweep.phase = "read"
    /\ sweep' = NoSweep
    /\ UNCHANGED <<row, ctr, task, watch, inFlight, building, bounds>>

\* Mutation of SweepApply: the UPDATE names the row by id alone.
SweepAppliesBlindly ==
    /\ sweep.phase = "write"
    /\ SetStatus(sweep.to)
    /\ sweep' = NoSweep
    /\ UNCHANGED <<ctr, task, watch, inFlight, building, bounds>>

\* applyCorrection: only if the row still says what the sweep saw.
SweepApply ==
    /\ sweep.phase = "write"
    /\ IF row.status = sweep.from THEN SetStatus(sweep.to) ELSE UNCHANGED row
    /\ sweep' = NoSweep
    /\ UNCHANGED <<ctr, task, watch, inFlight, building, bounds>>

-----------------------------------------------------------------------------
(* The environment.                                                        *)

\* TRANSITION_TRUSTED_FOR_MS passes without a write to the row.
TrustExpires ==
    /\ row.recent
    /\ row' = [row EXCEPT !.recent = FALSE]
    /\ UNCHANGED <<ctr, task, watch, inFlight, building, sweep, bounds>>

\* The game process ends by itself, or its node reboots: no restart policy.
GameExits ==
    /\ ctr = "running"
    /\ ctr' = "exited"
    /\ UNCHANGED <<row, task, watch, inFlight, building, sweep, bounds>>

\* A `docker rm` or a prune on the node.
RemovedOutOfBand ==
    /\ "removal" \in Faults /\ faults < MaxFaults
    /\ ctr # "missing"
    /\ ctr' = "missing"
    /\ faults' = faults + 1
    /\ UNCHANGED <<row, task, watch, inFlight, building, sweep, requests>>

\* Mutation of BootRow: only the first half of a build is failed.
BootFailsCreating == IF row.status = "creating"
                     THEN [row EXCEPT !.status = "error"] ELSE row

\* failInterruptedProvisions, before the new process serves a request.
BootRow == IF IsProvisioning(row.status)
           THEN [row EXCEPT !.status = "error"] ELSE row

\* The panel process dies with everything it holds in memory and boots again.
PanelRestarts ==
    /\ "crash" \in Faults /\ faults < MaxFaults
    /\ faults' = faults + 1
    /\ row' = BootRow
    /\ task' = [t \in Tasks |-> NoTask]
    /\ watch' = [w \in Watches |-> NoWatchState]
    /\ inFlight' = NoWatch
    /\ building' = FALSE
    /\ sweep' = NoSweep
    /\ UNCHANGED <<ctr, requests>>

-----------------------------------------------------------------------------
\* A server that was never created, or one that is up or down on its node.
Init ==
    /\ \/ /\ "create" \in Ops
          /\ row = NoRow("none")
          /\ ctr = "missing"
       \/ row = BuiltRow("stopped") /\ ctr = "exited"
       \/ row = BuiltRow("running") /\ ctr = "running"
    /\ task = [t \in Tasks |-> NoTask]
    /\ watch = [w \in Watches |-> NoWatchState]
    /\ inFlight = NoWatch
    /\ building = FALSE
    /\ sweep = NoSweep
    /\ requests = 0
    /\ faults = 0

Request(t) ==
    \/ \E op \in PowerOps : BeginPower(t, op)
    \/ \E op \in PortOps : BeginPorts(t, op)
    \/ BeginSuspend(t)
    \/ BeginUnsuspend(t)
    \/ \E data \in BOOLEAN : BeginDelete(t, data)
    \/ BeginForget(t)
    \/ BeginView(t)
    \/ BeginCreate(t)
    \/ BeginReinstall(t)

PowerStep(t) ==
    \/ Mark(t) \/ RefreshEnv(t) \/ Remark(t) \/ CallPower(t) \/ Relaunch(t)
    \/ Heal(t) \/ CallSuspend(t) \/ CallDelete(t)
    \/ \E recent \in BOOLEAN : CallView(t, recent)
    \/ Settle(t) \/ BeginStartWatch(t) \/ Fail(t)
    \/ RestoreStatus(t) \/ DropRow(t)

RebuildStep(t) ==
    \/ ClearContainer(t) \/ RebuildLoad(t) \/ RebuildStop(t)
    \/ RebuildRemove(t) \/ RebuildMark(t) \/ CreateContainer(t)
    \/ SaveContainer(t) \/ RebuildStart(t) \/ RebuildRunning(t)
    \/ RebuildFail(t)

BuildStep(t) ==
    \/ TrackBuild(t) \/ ReservePorts(t) \/ AssertStillProvisioning(t) \/ MarkInstalling(t)
    \/ RunInstall(t) \/ FirstStart(t)
    \/ ReinstallMark(t) \/ ReinstallLoad(t) \/ ReinstallStop(t)
    \/ ReinstallWipe(t)

\* What a task does once accepted: every await of it ends, if only by its
\* timeout.
TaskStep(t) == PowerStep(t) \/ RebuildStep(t) \/ BuildStep(t)

WatchStep(w) ==
    WatchEnds(w) \/ WatchFails(w) \/ WatchRecords(w)

SweepAnswered == \E recent \in BOOLEAN : SweepObserve(recent)

SweepStep == SweepLoad \/ SweepAnswered \/ SweepUnreachable \/ SweepApply

Environment == TrustExpires \/ GameExits \/ RemovedOutOfBand \/ PanelRestarts

Next ==
    \/ \E t \in Tasks : Request(t) \/ TaskStep(t)
    \/ \E w \in Watches : WatchStep(w)
    \/ SweepStep
    \/ Environment

\* Awaits end, timers fire, and a node that is asked every 30 seconds answers
\* again and again.  Nobody has to make a request, and nothing has to fail.
Fairness ==
    /\ \A t \in Tasks : WF_vars(TaskStep(t))
    /\ \A w \in Watches : WF_vars(WatchStep(w))
    /\ WF_vars(SweepLoad)
    /\ WF_vars(SweepApply)
    /\ SF_vars(SweepAnswered)
    /\ WF_vars(TrustExpires)

Spec == Init /\ [][Next]_vars

FairSpec == Spec /\ Fairness

-----------------------------------------------------------------------------
(* Properties.                                                             *)

\* A server has at most one start watch that may still write to it: any watch
\* not called off is the one the next deliberate stop would find in
\* inFlightWatches.  (startWatchdog.ts: "a second start replaces the first".)
SingleLiveWatch ==
    \A w \in Watches :
        watch[w].phase # "off" /\ ~watch[w].aborted => inFlight = w

\* A deliberate stop leaves no watch behind that could still take the stop for
\* a crash: every watch begun before it was accepted is called off, or has seen
\* the start fail already.
StopCallsOffWatches ==
    (\E t \in Tasks :
        \/ BeginPower(t, "stop") \/ BeginPower(t, "kill") \/ BeginSuspend(t)
        \/ \E data \in BOOLEAN : BeginDelete(t, data))
    => \A w \in Watches : watch'[w].phase = "poll" => watch'[w].aborted
NoWatchOutlivesStop == [][StopCallsOffWatches]_vars

\* A sweep's write never moves a row that a task of this process or an
\* administrator owns, however old its reading is.
SweepWritesOnlySwept == SweepApply /\ row' # row => ~NotSwept(row.status)
SweepRespectsOwners == [][SweepWritesOnlySwept]_vars

\* Once requests and faults cease, the record of a server that has a container
\* ends up saying what its node says, and stays so: no transition, stale watch
\* or lost correction outlives the sweeper.
StatusConverges ==
    <>[](Sweepable => row.status = StatusFromContainerState(ctr))

\* A row that says it is being built has a task building it: otherwise nothing
\* would ever move it again (serverManager.ts, failInterruptedProvisions).
Builds(t) ==
    \/ task[t].building
    \/ task[t].pc \in {"track", "create", "save", "rfail"}
ProvisioningHasOwner ==
    IsProvisioning(row.status) => \E t \in Tasks : Builds(t)

\* A build does not stay a build: it ends in a server, an error or no row.
BuildEnds == IsProvisioning(row.status) ~> ~IsProvisioning(row.status)

\* Looking at a server never moves a status the sweeper would leave alone: the
\* sweeper and an open server page share one rule.
ViewRespectsOwners ==
    [][\A t \in Tasks : task[t].op = "view" /\ Settle(t) /\ row' # row
            => ~NotSwept(row.status)]_vars
=============================================================================

-------------------------- MODULE ServerMigration --------------------------
(***************************************************************************)
(* Moving one server between nodes (services/serverMigration.ts): the      *)
(* request, the phases of the detached run, its cancellation, its rollback *)
(* and what the next boot makes of a run whose panel died.  The agents     *)
(* appear by what they hold of the server and by the restore job of a      *)
(* migration (transfer.ts, backup/jobs.ts), other servers by one port that *)
(* another server's create takes.                                          *)
(*                                                                         *)
(* Left out: two overlapping migration requests, requests other than a     *)
(* start or a stop in the window before the row says `migrating`, and a    *)
(* start or stop that passed its checks before that (ServerLifecycle has   *)
(* the interleavings of those).                                            *)
(***************************************************************************)
EXTENDS Naturals

CONSTANTS
    Nodes,
    Ports,         \* port numbers, the same in every node's pool
    Faults,        \* the faults this instance exercises
    MaxFaults,     \* bound: faults injected
    MaxMigrations  \* bound: migrations accepted

ASSUME MigrationAssumption ==
    /\ Ports \subseteq Nat \ {0}
    /\ Faults \subseteq {"panel", "agent", "call", "job", "db"}
    /\ MaxFaults \in Nat /\ MaxMigrations \in Nat

VARIABLES
    row,      \* the server's row: node, port, status
    disk,     \* [Nodes -> what the node's data directory of it holds]
    box,      \* [Nodes -> its container there]
    job,      \* [Nodes -> the agent's restore job for it]
    mig,      \* the row of the latest migration
    task,     \* the detached run: RunState and its place in the phases
    cancel,   \* a cancel request is past its checks
    rival,    \* the <<node, port>> another server's create took, or <<>>
    spoiled,  \* history: a step after which the code promises nothing
    accepted, \* migrations accepted
    faults    \* faults injected

nodeVars == <<disk, box, job>>
othersVars == <<cancel, rival, accepted>>
vars == <<row, nodeVars, mig, task, othersVars, spoiled, faults>>

Statuses == {"running", "stopped", "error", "stopping", "migrating"}
Rows == [node: Nodes, port: Ports, status: Statuses]

\* "all": every file, as it is now.  "some": files that are not that, because
\* they are part of a copy or because the server has run elsewhere since.
Contents == {"none", "some", "all"}

Boxes == [port: Ports \cup {0}, up: BOOLEAN]
NoBox == [port |-> 0, up |-> FALSE]

\* heard: the panel has the job's id.  makes: what the directory will hold.
Jobs == [state: {"none", "running", "done", "failed", "gone"},
         heard: BOOLEAN, makes: Contents]
NoJob == [state |-> "none", heard |-> FALSE, makes |-> "none"]

\* The phases before the cutover are one for a cancellation.
Migrations ==
    [status: {"none", "pending", "running", "cancelling", "succeeded",
              "failed", "cancelled"},
     phase: {"early", "cutover", "cleanup", "rollback", "finished"},
     rollback: {"none", "not_needed", "restored", "partial"}]
NoMigration == [status |-> "none", phase |-> "finished", rollback |-> "none"]

Phases == {"backup", "stopping", "transferring", "allocating_ports",
           "building", "verifying", "cutover", "cleanup"}
Following ==
    [backup |-> "stopping", stopping |-> "transferring",
     transferring |-> "allocating_ports", allocating_ports |-> "building",
     building |-> "verifying", verifying |-> "cutover", cutover |-> "cleanup"]

\* A phase is entered, does its work, in several steps where it has several
\* awaits that matter, and checks for a cancellation; the rollback assesses
\* what is to undo and undoes it in three steps before the run ends.
Steps == {"idle", "enter", "work", "stop", "hold", "prepare", "fetch", "await",
          "check", "env", "start", "close", "assess", "record", "remove",
          "restart", "end"}

\* snapshot: useSnapshotTransport, that is, a backup destination is configured
\* (bound: that does not change); from: sourcePorts; to: destinationPorts, 0 before they are planned; data:
\* destinationHasData; built: destinationContainerId; cut: cutoverDone; known:
\* destinationRestoreJobId; outcome: the rollback so far.
Tasks == [step: Steps, phase: Phases, src: Nodes, dst: Nodes, prev: Statuses,
          from: Ports, to: Ports \cup {0}, snapshot: BOOLEAN, data: BOOLEAN,
          built: BOOLEAN, cut: BOOLEAN, known: BOOLEAN, cancelled: BOOLEAN,
          outcome: {"not_needed", "restored", "partial"}]

TypeOK ==
    /\ row \in Rows
    /\ disk \in [Nodes -> Contents]
    /\ box \in [Nodes -> Boxes]
    /\ job \in [Nodes -> Jobs]
    /\ mig \in Migrations
    /\ task \in Tasks
    /\ cancel \in BOOLEAN
    /\ rival \in (Nodes \X Ports) \cup {<<>>}
    /\ spoiled \in BOOLEAN
    /\ accepted \in 0..MaxMigrations
    /\ faults \in 0..MaxFaults

-----------------------------------------------------------------------------
Fault(kind) ==
    /\ kind \in Faults
    /\ faults < MaxFaults
    /\ faults' = faults + 1

Idle == task.step = "idle"
At(phase, step) == task.phase = phase /\ task.step = step
Goto(step) == task' = [task EXCEPT !.step = step]
Enter(phase) == task' = [task EXCEPT !.phase = phase, !.step = "enter"]
wasRunning == task.prev = "running"

\* getActiveMigration.
ActiveMigration == mig.status \in {"pending", "running", "cancelling"}

\* hasActiveRun: the panel's idea of it.
ActiveRun == \E n \in Nodes : job[n].state = "running" /\ job[n].heard

\* The server runs on n, and every other copy is out of date.
StartedOn(n) ==
    /\ box' = [box EXCEPT ![n].up = TRUE]
    /\ disk' = [m \in Nodes |-> IF m # n /\ disk[m] = "all" THEN "some"
                                ELSE disk[m]]
    /\ job' = [m \in Nodes |-> IF m # n /\ job[m].makes = "all"
                               THEN [job[m] EXCEPT !.makes = "some"] ELSE job[m]]

\* deleteServerContainer(n, serverId, true): a job of restic that is still
\* going writes on into what was removed.
DeletedFrom(n) ==
    /\ box' = [box EXCEPT ![n] = NoBox]
    /\ disk' = [disk EXCEPT ![n] = "none"]
    /\ job' = [job EXCEPT ![n].makes = IF @ = "all" THEN "some" ELSE @]

\* An exception reaches runMigration's catch.
Unwind == task' = [task EXCEPT !.step = "assess", !.outcome = "not_needed"]
Unwound ==
    task' = [task EXCEPT !.step = "assess", !.outcome = "not_needed",
                         !.cancelled = TRUE]

-----------------------------------------------------------------------------
(* startServerMigration and cancelServerMigration.                         *)

\* preflightMigration, the row, and what the run reads first.
AcceptMigration(n) ==
    /\ Idle /\ accepted < MaxMigrations
    /\ n # row.node
    /\ row.status \in {"running", "stopped", "error"}
    /\ box[row.node] # NoBox
    /\ ~ActiveMigration /\ ~ActiveRun
    /\ ~cancel    \* bound: a cancel of the previous migration is over
    /\ mig' = [status |-> "pending", phase |-> "early", rollback |-> "none"]
    /\ task' = [step |-> "enter", phase |-> "backup", src |-> row.node,
                dst |-> n, prev |-> row.status, from |-> row.port, to |-> 0,
                snapshot |-> task.snapshot, data |-> FALSE, built |-> FALSE,
                cut |-> FALSE, known |-> FALSE, cancelled |-> FALSE,
                outcome |-> "not_needed"]
    /\ accepted' = accepted + 1
    /\ UNCHANGED <<row, nodeVars, cancel, rival, spoiled, faults>>

CheckCancel ==
    /\ ~cancel
    /\ mig.status \in {"pending", "running"}
    /\ mig.phase \notin {"cutover", "cleanup"}
    /\ cancel' = TRUE
    /\ UNCHANGED <<row, nodeVars, mig, task, rival, accepted, spoiled, faults>>

\* By the id alone, whatever the run has written since.
WriteCancel ==
    /\ cancel
    /\ cancel' = FALSE
    /\ mig' = [mig EXCEPT !.status = "cancelling"]
    /\ UNCHANGED <<row, nodeVars, task, rival, accepted, spoiled, faults>>

-----------------------------------------------------------------------------
(* runMigration.                                                           *)

\* setPhase: also over a `cancelling` written since the last checkpoint.
EnterPhase ==
    /\ task.step = "enter"
    /\ \/ /\ mig' = [mig EXCEPT !.status = "running",
                                !.phase = IF task.phase \in {"cutover", "cleanup"}
                                          THEN task.phase ELSE "early"]
          /\ Goto("work")
          /\ UNCHANGED faults
       \/ Fault("db") /\ Unwind /\ UNCHANGED mig
    /\ UNCHANGED <<row, nodeVars, othersVars, spoiled>>

\* checkpoint.
Checkpoint ==
    /\ task.step = "check"
    /\ IF mig.status = "cancelling" THEN Unwound ELSE Enter(Following[task.phase])
    /\ UNCHANGED <<row, nodeVars, mig, othersVars, spoiled, faults>>

\* takeSafetyBackup, where a backup destination is configured.
TakeSafetyBackup ==
    /\ At("backup", "work")
    /\ \/ Goto("check") /\ UNCHANGED faults
       \/ task.snapshot /\ Fault("job") /\ Unwind
    /\ UNCHANGED <<row, nodeVars, mig, othersVars, spoiled>>

\* stopSourceForMigration, by what the run read when it began.
BeginStop ==
    /\ At("stopping", "work")
    /\ IF wasRunning
       THEN row' = [row EXCEPT !.status = "stopping"] /\ Goto("stop")
       ELSE UNCHANGED row /\ Goto("hold")
    /\ UNCHANGED <<nodeVars, mig, othersVars, spoiled, faults>>

StopSource ==
    /\ At("stopping", "stop")
    /\ \/ /\ box' = [box EXCEPT ![task.src].up = FALSE]
          /\ Goto("hold")
          /\ UNCHANGED <<row, faults>>
       \/ /\ Fault("call")
          /\ row' = [row EXCEPT !.status = task.prev]
          /\ Unwind
          /\ UNCHANGED box
    /\ UNCHANGED <<disk, job, mig, othersVars, spoiled>>

\* A server started since is copied as it runs.
HoldSource ==
    /\ At("stopping", "hold")
    /\ row' = [row EXCEPT !.status = "migrating"]
    /\ spoiled' = (spoiled \/ box[task.src].up)
    /\ Goto("check")
    /\ UNCHANGED <<nodeVars, mig, othersVars, faults>>

\* transferPhase.  The complete snapshot of the stopped server, where there is
\* a repository to put it in; a cancellation is looked for while it is taken.
CompleteSnapshot ==
    /\ At("transferring", "work")
    /\ \/ /\ ~(task.snapshot /\ mig.status = "cancelling")
          /\ Goto("prepare")
          /\ UNCHANGED faults
       \/ /\ task.snapshot /\ mig.status = "cancelling"
          /\ Unwound
          /\ UNCHANGED faults
       \/ task.snapshot /\ Fault("job") /\ Unwind
    /\ UNCHANGED <<row, nodeVars, mig, othersVars, spoiled>>

\* prepareMigrationDestination: a node with a container or files of the server
\* refuses, and only then the copy is the run's own to delete.
PrepareDestination ==
    /\ At("transferring", "prepare")
    /\ IF disk[task.dst] # "none" \/ box[task.dst] # NoBox
       THEN Unwind /\ UNCHANGED faults
       ELSE \/ /\ task' = [task EXCEPT !.step = "fetch", !.data = TRUE]
               /\ UNCHANGED faults
            \/ Fault("call") /\ Unwind
    /\ UNCHANGED <<row, nodeVars, mig, othersVars, spoiled>>

\* What a copy of the source made now holds.
SourceNow == IF box[task.src].up THEN "some" ELSE disk[task.src]

\* transferServerData: an import that fails, or that arrives smaller than the
\* source (transferIsComplete), is an error and stays where it is.
StartStream ==
    /\ At("transferring", "fetch") /\ ~task.snapshot
    /\ disk' = [disk EXCEPT ![task.dst] = "some"]
    /\ Goto("await")
    /\ UNCHANGED <<row, box, job, mig, othersVars, spoiled, faults>>

\* Mutation of EndStream: what arrived is not measured.
EndStreamUnmeasured ==
    /\ At("transferring", "await") /\ ~task.snapshot
    /\ \/ disk' = [disk EXCEPT ![task.dst] = SourceNow] /\ UNCHANGED faults
       \/ Fault("call") /\ UNCHANGED disk
    /\ Goto("check")
    /\ UNCHANGED <<row, box, job, mig, othersVars, spoiled>>

EndStream ==
    /\ At("transferring", "await") /\ ~task.snapshot
    /\ \/ /\ disk' = [disk EXCEPT ![task.dst] = SourceNow]
          /\ Goto("check")
          /\ UNCHANGED faults
       \/ Fault("call") /\ Unwind /\ UNCHANGED disk
    /\ UNCHANGED <<row, box, job, mig, othersVars, spoiled>>

\* startMigrationRestore: refused by the panel, by the agent (files, a job)
\* or by the network, taken, or taken and the answer lost.
StartRestore ==
    /\ At("transferring", "fetch") /\ task.snapshot
    /\ LET Taken(heard) ==
               job' = [job EXCEPT ![task.dst] = [state |-> "running",
                          heard |-> heard, makes |-> SourceNow]]
           free == /\ ~ActiveRun /\ job[task.dst].state # "running"
                   /\ disk[task.dst] = "none"
       IN
       \/ /\ ~free /\ Unwind
          /\ UNCHANGED <<job, disk, faults>>
       \/ /\ free
          /\ Taken(TRUE)
          /\ disk' = [disk EXCEPT ![task.dst] = "some"]
          /\ task' = [task EXCEPT !.step = "await", !.known = TRUE]
          /\ UNCHANGED faults
       \/ /\ Fault("call") /\ Unwind
          /\ UNCHANGED <<job, disk>>
       \/ /\ free /\ Fault("call") /\ Unwind
          /\ Taken(FALSE)
          /\ disk' = [disk EXCEPT ![task.dst] = "some"]
    /\ UNCHANGED <<row, box, mig, othersVars, spoiled>>

\* waitForMigrationTransferRun, and the size again; after seven hours the job
\* may still be going.
AwaitRestore ==
    /\ At("transferring", "await") /\ task.snapshot
    /\ \/ /\ job[task.dst].state = "done"
          /\ task' = [task EXCEPT !.step = "check", !.known = FALSE]
          /\ UNCHANGED faults
       \/ /\ job[task.dst].state \in {"failed", "gone"}
          /\ Unwind
          /\ UNCHANGED faults
       \/ job[task.dst].state = "running" /\ Fault("call") /\ Unwind
    /\ UNCHANGED <<row, nodeVars, mig, othersVars, spoiled>>

\* planDestinationPorts: the same number if no other server has it there,
\* another one of the pool if there is one.
PlanPorts ==
    /\ At("allocating_ports", "work")
    /\ LET free == {p \in Ports : rival # <<task.dst, p>>}
           offered == IF task.from \in free THEN {task.from} ELSE free
       IN
       \/ /\ \E p \in offered : task' = [task EXCEPT !.step = "check", !.to = p]
          /\ UNCHANGED faults
       \/ /\ IF offered = {} THEN UNCHANGED faults ELSE Fault("call")
          /\ Unwind
    /\ UNCHANGED <<row, nodeVars, mig, othersVars, spoiled>>

\* buildDestinationContainer: built, not built, or built and the answer lost.
BuildDestination ==
    /\ At("building", "work")
    /\ LET built == [box EXCEPT ![task.dst] = [port |-> task.to, up |-> FALSE]] IN
       \/ /\ box' = built
          /\ task' = [task EXCEPT !.step = "check", !.built = TRUE]
          /\ UNCHANGED faults
       \/ Fault("call") /\ Unwind /\ box' \in {box, built}
    /\ UNCHANGED <<row, disk, job, mig, othersVars, spoiled>>

\* verifyDestination; no checkpoint follows.
VerifyDestination ==
    /\ At("verifying", "work")
    /\ \/ box[task.dst] # NoBox /\ Enter("cutover") /\ UNCHANGED faults
       \/ Fault("call") /\ Unwind
    /\ UNCHANGED <<row, nodeVars, mig, othersVars, spoiled>>

\* Mutation of CutOver: the port rows stay as they were.
CutOverNode ==
    /\ At("cutover", "work")
    /\ row' = [row EXCEPT !.node = task.dst, !.status = "stopped"]
    /\ Goto("env")
    /\ UNCHANGED <<nodeVars, mig, othersVars, spoiled, faults>>

\* cutOver's transaction, which UNIQUE (node_id, host_port) may refuse.
CutOver ==
    /\ At("cutover", "work")
    /\ IF rival = <<task.dst, task.to>>
       THEN Unwind /\ UNCHANGED row
       ELSE /\ row' = [node |-> task.dst, port |-> task.to, status |-> "stopped"]
            /\ Goto("env")
    /\ UNCHANGED <<nodeVars, mig, othersVars, spoiled, faults>>

\* The rest of cutOver: when a write fails here, the rollback does not know
\* that the row has moved.
StoreEnv ==
    /\ At("cutover", "env")
    /\ \/ /\ task' = [task EXCEPT !.phase = "cleanup", !.step = "enter",
                                  !.cut = TRUE]
          /\ UNCHANGED <<faults, spoiled>>
       \/ Fault("db") /\ Unwind /\ spoiled' = TRUE
    /\ UNCHANGED <<row, nodeVars, mig, othersVars>>

\* cleanUpSource, whose failure is reported and stepped over.
CleanUpSource ==
    /\ At("cleanup", "work")
    /\ \/ DeletedFrom(task.src) /\ UNCHANGED faults
       \/ Fault("call") /\ UNCHANGED nodeVars
    /\ Goto("start")
    /\ UNCHANGED <<row, mig, othersVars, spoiled>>

\* Mutation of StartMoved: the write after the start is missing.
StartMovedQuietly ==
    /\ At("cleanup", "start")
    /\ IF wasRunning
       THEN StartedOn(task.dst) /\ row' = [row EXCEPT !.status = "starting"]
       ELSE UNCHANGED <<row, nodeVars>>
    /\ Goto("close")
    /\ UNCHANGED <<mig, othersVars, spoiled, faults>>

\* finishSuccessfully: a server that does not come up is still a moved one.
StartMoved ==
    /\ At("cleanup", "start")
    /\ \/ /\ ~wasRunning
          /\ UNCHANGED <<row, nodeVars, faults>>
       \/ /\ wasRunning
          /\ StartedOn(task.dst)
          /\ row' = [row EXCEPT !.status = "running"]
          /\ UNCHANGED faults
       \/ /\ wasRunning /\ Fault("call")
          /\ row' = [row EXCEPT !.status = "error"]
          /\ UNCHANGED nodeVars
    /\ Goto("close")
    /\ UNCHANGED <<mig, othersVars, spoiled>>

\* When this last write fails the rollback runs after the source was cleaned.
Succeed ==
    /\ At("cleanup", "close")
    /\ \/ /\ mig' = [mig EXCEPT !.status = "succeeded", !.phase = "finished"]
          /\ Goto("idle")
          /\ UNCHANGED faults
       \/ Fault("db") /\ Unwind /\ UNCHANGED mig
    /\ UNCHANGED <<row, nodeVars, othersVars, spoiled>>

-----------------------------------------------------------------------------
(* rollbackMigration.                                                      *)

\* Mutation of Assess: the status is not looked at.
AssessDestination ==
    /\ task.step = "assess"
    /\ task' = [task EXCEPT
                  !.step = IF task.data \/ task.built \/ task.cut
                           THEN "record" ELSE "end",
                  !.outcome = IF task.data \/ task.built \/ task.cut
                              THEN "restored" ELSE "not_needed"]
    /\ UNCHANGED <<row, nodeVars, mig, othersVars, spoiled, faults>>

\* nothingToUndo.
Assess ==
    /\ task.step = "assess"
    /\ IF ~task.data /\ ~task.built /\ ~task.cut /\ row.status = task.prev
       THEN Goto("end") /\ UNCHANGED mig
       ELSE /\ task' = [task EXCEPT !.step = "record", !.outcome = "restored"]
            /\ mig' = [mig EXCEPT !.phase = "rollback"]
    /\ UNCHANGED <<row, nodeVars, othersVars, spoiled, faults>>

\* The record goes back, whatever the source still has, unless another server
\* took the source's number by now or the write fails; the destination is
\* removed all the same.
MoveRecordBack ==
    /\ task.step = "record"
    /\ \/ /\ ~(task.cut /\ rival = <<task.src, task.from>>)
          /\ row' = IF task.cut
                    THEN [row EXCEPT !.node = task.src, !.port = task.from]
                    ELSE row
          /\ Goto("remove")
          /\ spoiled' = (spoiled \/ (task.cut /\ disk[task.src] # "all"))
          /\ UNCHANGED faults
       \/ /\ task.cut
          /\ IF rival = <<task.src, task.from>> THEN UNCHANGED faults
             ELSE Fault("db")
          /\ task' = [task EXCEPT !.step = "remove", !.outcome = "partial"]
          /\ spoiled' = TRUE
          /\ UNCHANGED row
    /\ UNCHANGED <<nodeVars, mig, othersVars>>

\* A restore that is still going keeps its target; so does one the agent
\* cannot be asked about.
RemoveCopy ==
    /\ task.step = "remove"
    /\ LET Partial == task' = [task EXCEPT !.step = "restart",
                                           !.outcome = "partial"]
           ours == task.data \/ task.built
           unsettled == task.known /\ job[task.dst].state \in {"running", "gone"}
       IN
       \/ ~ours /\ Goto("restart") /\ UNCHANGED <<nodeVars, faults>>
       \/ ours /\ unsettled /\ Partial /\ UNCHANGED <<nodeVars, faults>>
       \/ ours /\ ~unsettled /\ DeletedFrom(task.dst) /\ Goto("restart")
          /\ UNCHANGED faults
       \/ ours /\ ~unsettled /\ Fault("call") /\ Partial /\ UNCHANGED nodeVars
    /\ UNCHANGED <<row, mig, othersVars, spoiled>>

\* The source, as it was found; `error` when that fails, also when only the
\* status after the start could not be written.
RestartSource ==
    /\ task.step = "restart"
    /\ \/ /\ ~wasRunning
          /\ row' = [row EXCEPT !.status = task.prev]
          /\ Goto("end")
          /\ UNCHANGED <<nodeVars, faults>>
       \/ /\ wasRunning /\ box[task.src] # NoBox
          /\ StartedOn(task.src)
          /\ row' = [row EXCEPT !.status = "running"]
          /\ Goto("end")
          /\ UNCHANGED faults
       \/ /\ \/ /\ wasRunning /\ box[task.src] = NoBox
                /\ UNCHANGED <<nodeVars, faults>>
             \/ wasRunning /\ Fault("call") /\ UNCHANGED nodeVars
             \/ Fault("db") /\ UNCHANGED nodeVars
             \/ /\ wasRunning /\ box[task.src] # NoBox
                /\ StartedOn(task.src)
                /\ Fault("db")
          /\ row' = [row EXCEPT !.status = "error"]
          /\ task' = [task EXCEPT !.step = "end", !.outcome = "partial"]
    /\ UNCHANGED <<mig, othersVars, spoiled>>

EndRolledBack ==
    /\ task.step = "end"
    /\ mig' = [status |-> IF task.cancelled THEN "cancelled" ELSE "failed",
               phase |-> "finished", rollback |-> task.outcome]
    /\ Goto("idle")
    /\ UNCHANGED <<row, nodeVars, othersVars, spoiled, faults>>

\* Not every step is guarded: the write that opens the rollback, the `error` of
\* its last step and the write that ends the run may fail, and the run is gone
\* with its migration not ended (bound: not between the start and the `error`).
Abandon ==
    /\ task.step \in {"assess", "restart", "end"}
    /\ Fault("db")
    /\ Goto("idle")
    /\ UNCHANGED <<row, nodeVars, mig, othersVars, spoiled>>

-----------------------------------------------------------------------------
(* Everybody else.                                                         *)

\* A start or a stop from request to reply, which `migrating` refuses.
Power ==
    /\ row.status # "migrating" /\ box[row.node] # NoBox
    /\ \/ /\ ~box[row.node].up
          /\ StartedOn(row.node)
          /\ row' = [row EXCEPT !.status = "running"]
       \/ /\ box[row.node].up
          /\ box' = [box EXCEPT ![row.node].up = FALSE]
          /\ row' = [row EXCEPT !.status = "stopped"]
          /\ UNCHANGED <<disk, job>>
    /\ UNCHANGED <<mig, task, othersVars, spoiled, faults>>

\* Another server's create: a number that no row holds and the host can bind.
TakePort(n, p) ==
    /\ rival = <<>>
    /\ ~(row.node = n /\ row.port = p)
    /\ ~(box[n].up /\ box[n].port = p)
    /\ rival' = <<n, p>>
    /\ UNCHANGED <<row, nodeVars, mig, task, cancel, accepted, spoiled, faults>>

\* restic on the destination: it is done, fails, or goes with the agent.
JobEnds(n) ==
    /\ job[n].state = "running"
    /\ \/ /\ job' = [job EXCEPT ![n].state = "done"]
          /\ disk' = [disk EXCEPT ![n] = job[n].makes]
          /\ UNCHANGED faults
       \/ /\ Fault("job") /\ job' = [job EXCEPT ![n].state = "failed"]
          /\ disk' = [disk EXCEPT ![n] = "some"]
       \/ /\ Fault("agent") /\ job' = [job EXCEPT ![n].state = "gone"]
          /\ disk' = [disk EXCEPT ![n] = "some"]
    /\ UNCHANGED <<row, box, mig, task, othersVars, spoiled>>

\* Mutation of PanelRestarts: only the migration's row is closed.
PanelForgetsServer ==
    /\ Fault("panel")
    /\ Goto("idle")
    /\ cancel' = FALSE
    /\ mig' = [mig EXCEPT !.status = IF ActiveMigration THEN "failed" ELSE @]
    /\ UNCHANGED <<row, nodeVars, rival, accepted, spoiled>>

\* The panel dies, and failInterruptedMigrations at the next boot.
PanelRestarts ==
    /\ Fault("panel")
    /\ Goto("idle")
    /\ cancel' = FALSE
    /\ mig' = IF ActiveMigration
              THEN [status |-> "failed", phase |-> "finished",
                    rollback |-> "partial"]
              ELSE mig
    /\ row' = IF ActiveMigration /\ row.status = "migrating"
              THEN [row EXCEPT !.status = "error"] ELSE row
    /\ UNCHANGED <<nodeVars, rival, accepted, spoiled>>

-----------------------------------------------------------------------------
Init ==
    \E n \in Nodes, p \in Ports, s \in {"running", "stopped"}, b \in BOOLEAN :
        /\ row = [node |-> n, port |-> p, status |-> s]
        /\ disk = [m \in Nodes |-> IF m = n THEN "all" ELSE "none"]
        /\ box = [m \in Nodes |-> IF m = n
                                  THEN [port |-> p, up |-> s = "running"]
                                  ELSE NoBox]
        /\ job = [m \in Nodes |-> NoJob]
        /\ mig = NoMigration
        /\ task = [step |-> "idle", phase |-> "backup", src |-> n, dst |-> n,
                   prev |-> "stopped", from |-> p, to |-> 0,
                   snapshot |-> b, data |-> FALSE, built |-> FALSE,
                   cut |-> FALSE, known |-> FALSE, cancelled |-> FALSE,
                   outcome |-> "not_needed"]
        /\ cancel = FALSE /\ rival = <<>> /\ spoiled = FALSE
        /\ accepted = 0 /\ faults = 0

RunStep ==
    \/ EnterPhase \/ Checkpoint \/ TakeSafetyBackup \/ BeginStop \/ StopSource
    \/ HoldSource \/ CompleteSnapshot \/ PrepareDestination \/ StartStream
    \/ EndStream \/ StartRestore \/ AwaitRestore \/ PlanPorts
    \/ BuildDestination \/ VerifyDestination \/ CutOver \/ StoreEnv
    \/ CleanUpSource \/ StartMoved \/ Succeed

RollbackStep ==
    \/ Assess \/ MoveRecordBack \/ RemoveCopy \/ RestartSource \/ EndRolledBack
    \/ Abandon

Next ==
    \/ RunStep \/ RollbackStep
    \/ CheckCancel \/ WriteCancel \/ Power \/ PanelRestarts
    \/ \E n \in Nodes : AcceptMigration(n) \/ JobEnds(n)
    \/ \E n \in Nodes, p \in Ports : TakePort(n, p)

Spec == Init /\ [][Next]_vars

\* The run's calls return or time out, and restic ends.
Fairness ==
    /\ WF_vars(RunStep \/ RollbackStep)
    /\ \A n \in Nodes : WF_vars(JobEnds(n))

FairSpec == Spec /\ Fairness

-----------------------------------------------------------------------------
(* Properties.                                                             *)

\* "There is no point in the run at which the server's files exist in exactly
\* one place and the panel is between two records of where that is": the run
\* copies before it moves the record and deletes only where the record is not,
\* with every failure, cancel and death in between.  The promise is void after
\* four steps only: a server started meanwhile was copied as it ran, a write
\* failed between the cutover and cutoverDone, the run failed when the source
\* did not have the files any more, or the record could not go back because
\* another server took the source's port or the write failed.
Home ==
    INSTANCE ServerHome WITH
        home <- row.node,
        current <- {n \in Nodes : disk[n] = "all"},
        void <- spoiled
ImplementsServerHome == Home!Spec

\* The game runs only where the row says the server is, and the container
\* there publishes the number the row claims: a cutover, a failed one and a
\* rollback move the row, the claim and the game together.
RunsAtHome ==
    spoiled \/ /\ \A n \in Nodes : box[n].up => n = row.node
               /\ box[row.node].port = row.port

\* "If anything goes wrong, the server is still on the node it started on": a
\* run about to be recorded as failed or cancelled has left the row on the
\* source with all the files and out of `migrating`, and one about to claim
\* that everything is restored has left nothing of the copy it made on the
\* destination, except what a restore the panel never heard of writes.
UndoneMeansHome ==
    task.step = "end" /\ ~spoiled =>
        /\ row.node = task.src /\ row.status # "migrating"
        /\ disk[task.src] = "all"
        /\ task.outcome = "restored" /\ task.data =>
              /\ box[task.dst] = NoBox
              /\ disk[task.dst] = "none" \/ ~job[task.dst].heard

\* A server held in `migrating`, which nothing else reconciles, has a migration
\* that is not ended: the only rows failInterruptedMigrations looks for to
\* release it, so no hold outlives the next boot, whatever failed, was
\* cancelled late or was abandoned in between.
HeldHasMigration == row.status = "migrating" => ActiveMigration

\* A server held in `migrating` is released by the run or its rollback, or,
\* when the panel died or the rollback could not write, at the next boot.
Abandoned == Idle /\ ActiveMigration
MigrationsEnd ==
    row.status = "migrating" \/ ~Idle
    ~> Idle /\ (row.status # "migrating" \/ Abandoned)
=============================================================================

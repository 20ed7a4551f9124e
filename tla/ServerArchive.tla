--------------------------- MODULE ServerArchive ---------------------------
(***************************************************************************)
(* Archiving one server and bringing it back                               *)
(* (services/serverArchive.ts) on top of its backups: the request, the     *)
(* detached task with its commit point, the wipe, the restore and the      *)
(* rebuild, and the recovery of both at boot.                              *)
(*                                                                         *)
(* Of the other requests those appear that move files or snapshots: owner  *)
(* and scheduled backups, restores and the deletion of history entries     *)
(* (services/serverBackups.ts), and a server that is started and stopped.  *)
(* Those are taken one at a time: a power action that passed its checks    *)
(* before the archive did, and two archive requests at once, are left out. *)
(* So is a write of the panel that fails; one in a task's catch would      *)
(* leave a transition without a task until BootRow finds it.               *)
(***************************************************************************)
EXTENDS BackupRuns

CONSTANTS
    Ops,          \* requests besides archive and unarchive
    MaxRequests   \* bound: archives and unarchives asked for

ASSUME ArchiveAssumption ==
    /\ Ops \subseteq {"power", "backup", "restore", "delete"}
    /\ MaxRequests \in Nat

VARIABLES
    row,       \* the server's row
    task,      \* the detached archive or unarchive, or boot's finishArchive
    deleting,  \* the history entry whose snapshot deleteServerBackup removed
    spoiled,   \* history: a step after which the code promises nothing
    requests   \* archives and unarchives accepted

archiveVars == <<row, task, deleting, spoiled, requests>>
vars == <<backupVars, archiveVars>>

Statuses == {"running", "stopped", "error", "creating", "archiving",
             "archived", "restoring"}

\* archived: archived_at is set; snap and entry: archive_snapshot_id and
\* archive_run_id, 0 for none; built: container_id is set.
Rows == [status: Statuses, archived: BOOLEAN, snap: 0..MaxRuns,
         entry: 0..MaxRuns, built: BOOLEAN]

\* An archive stops the server, asks for a snapshot, waits for it, commits it,
\* wipes the node and settles the row, or is undone; an unarchive asks for a
\* restore, waits for it, rebuilds the container and clears the pointers, or
\* is resealed.
PCs == {"idle", "accepted", "stop", "ask", "sent", "wait", "commit", "wipe",
        "settle", "undo", "fetch", "sentBack", "waitBack", "rebuild", "create",
        "clear", "reseal"}
TaskStates == [pc: PCs, prev: Statuses, run: 0..MaxRuns, boot: BOOLEAN]
NoTask == [pc |-> "idle", prev |-> "stopped", run |-> 0, boot |-> FALSE]

TypeOK ==
    /\ BackupTypeOK
    /\ row \in Rows
    /\ task \in TaskStates
    /\ deleting \in 0..MaxRuns
    /\ spoiled \in BOOLEAN
    /\ requests \in 0..MaxRequests

-----------------------------------------------------------------------------
At(pc) == task.pc = pc
Goto(pc) == task' = [task EXCEPT !.pc = pc]
SetStatus(s) == row' = [row EXCEPT !.status = s]

\* Bound: the owner leaves a run to the task that may be about to ask for one.
RunToSpare == used + 1 < MaxRuns

\* assertNotArchived, and the same list in the power actions.
NotArchived == row.status \notin {"archiving", "archived", "restoring"}

-----------------------------------------------------------------------------
(* archiveServer and runArchive.                                           *)

\* Every refusal of archiveServer, in one step but the write: manual, or the
\* idle sweep's for a server that is stopped.
AcceptArchive ==
    /\ At("idle") /\ requests < MaxRequests /\ used < MaxRuns
    /\ row.status \in {"running", "stopped", "error"}
    /\ ~row.archived /\ row.built
    /\ ~HasActiveRun
    /\ task' = [NoTask EXCEPT !.pc = "accepted", !.prev = row.status]
    /\ requests' = requests + 1
    /\ UNCHANGED <<backupVars, row, deleting, spoiled>>

MarkArchiving ==
    /\ At("accepted")
    /\ SetStatus("archiving")
    /\ Goto("stop")
    /\ UNCHANGED <<backupVars, deleting, spoiled, requests>>

\* The server is stopped if the node says it runs, and that stop must succeed;
\* when the node cannot say (`probe`) the archive goes on without it.
StopForArchive ==
    /\ At("stop")
    /\ \/ up' = FALSE /\ Goto("ask") /\ UNCHANGED faults
       \/ up /\ Fault("call") /\ Goto("undo") /\ UNCHANGED up
       \/ up /\ Fault("probe") /\ Goto("ask") /\ UNCHANGED up
    /\ spoiled' = (spoiled \/ (task'.pc = "ask" /\ up'))
    /\ UNCHANGED <<rowVars, jobVars, row, deleting, requests>>

\* startServerBackup with the archive's trigger.
AskSnapshot ==
    /\ At("ask")
    /\ IF HasActiveRun
       THEN Goto("undo") /\ UNCHANGED rowVars
       ELSE /\ CreateRun("backup", 0, "send")
            /\ task' = [task EXCEPT !.pc = "sent", !.run = used + 1]
    /\ UNCHANGED <<jobVars, up, faults, row, deleting, spoiled, requests>>

SnapshotAsked ==
    /\ At("sent")
    /\ \/ /\ call[task.run] = "accepted"
          /\ row' = [row EXCEPT !.entry = task.run]
          /\ Goto("wait")
       \/ /\ call[task.run] = "refused"
          /\ Goto("undo")
          /\ UNCHANGED row
    /\ UNCHANGED <<backupVars, deleting, spoiled, requests>>

\* waitForRun: the run ended, its row is gone (404), or six hours passed.
Waits(pc, done, failed) ==
    /\ At(pc)
    /\ LET r == run[task.run] IN
       \/ /\ r.kind # "none" /\ r.status = "succeeded" /\ r.snap # 0
          /\ Goto(done) /\ UNCHANGED faults
       \/ /\ \/ r.kind = "none" \/ r.status = "failed"
             \/ r.status = "succeeded" /\ r.snap = 0
          /\ Goto(failed) /\ UNCHANGED faults
       \/ Active(task.run) /\ Fault("call") /\ Goto(failed)
    /\ UNCHANGED <<rowVars, jobVars, up, row, deleting, spoiled, requests>>

\* Mutation of AwaitSnapshot: an accepted job is taken for a snapshot.
AwaitAcceptance ==
    /\ At("wait") /\ Goto("commit")
    /\ UNCHANGED <<backupVars, row, deleting, spoiled, requests>>

AwaitSnapshot == Waits("wait", "commit", "undo")

\* The commit point: archive_snapshot_id.
Commit ==
    /\ At("commit")
    /\ row' = [row EXCEPT !.snap = task.run]
    /\ Goto("wipe")
    /\ UNCHANGED <<backupVars, deleting, spoiled, requests>>

\* Mutation of Wipe: the node's failure is logged and stepped over.
WipeBestEffort ==
    /\ At("wipe")
    /\ \/ files' = FALSE /\ up' = FALSE /\ UNCHANGED faults
       \/ Fault("wipe") /\ UNCHANGED <<files, up>>
    /\ Goto("settle")
    /\ UNCHANGED <<rowVars, job, evicted, repo, whole, row, deleting, spoiled,
                   requests>>

\* finishArchive's deleteServerContainer(.., true), by the task or at boot.
Wipe ==
    /\ At("wipe")
    /\ IF row.snap = 0
       THEN Goto("undo") /\ UNCHANGED <<faults, files, up>>
       ELSE \/ /\ files' = FALSE /\ up' = FALSE
               /\ Goto("settle")
               /\ UNCHANGED faults
            \/ /\ Fault("wipe")
               /\ Goto(IF task.boot THEN "idle" ELSE "undo")
               /\ UNCHANGED <<files, up>>
    /\ spoiled' = (spoiled \/ (row.snap # 0 /\ task'.pc = "undo"))
    /\ UNCHANGED <<rowVars, job, evicted, repo, whole, row, deleting, requests>>

SettleArchive ==
    /\ At("settle")
    /\ row' = [row EXCEPT !.status = "archived", !.archived = TRUE,
                          !.built = FALSE]
    /\ task' = NoTask
    /\ UNCHANGED <<backupVars, deleting, spoiled, requests>>

\* runArchive's catch: the snapshot id, if any, stays.
UndoArchive ==
    /\ At("undo")
    /\ IF row.status = "archiving"
       THEN SetStatus(IF task.prev = "running" THEN "stopped" ELSE task.prev)
       ELSE UNCHANGED row
    /\ task' = NoTask
    /\ UNCHANGED <<backupVars, deleting, spoiled, requests>>

-----------------------------------------------------------------------------
(* unarchiveServer and runUnarchive.                                       *)

AcceptUnarchive ==
    /\ At("idle") /\ requests < MaxRequests /\ used < MaxRuns
    /\ row.status = "archived" /\ row.archived /\ row.snap # 0
    /\ ~HasActiveRun
    /\ SetStatus("restoring")
    /\ task' = [NoTask EXCEPT !.pc = "fetch"]
    /\ requests' = requests + 1
    /\ UNCHANGED <<backupVars, deleting, spoiled>>

\* startArchiveRestore: the snapshot by id, no run row needed beside it.
FetchArchive ==
    /\ At("fetch")
    /\ IF HasActiveRun
       THEN Goto("reseal") /\ UNCHANGED rowVars
       ELSE /\ CreateRun("restore", row.snap, "send")
            /\ task' = [task EXCEPT !.pc = "sentBack", !.run = used + 1]
    /\ UNCHANGED <<jobVars, up, faults, row, deleting, spoiled, requests>>

RestoreAsked ==
    /\ At("sentBack")
    /\ call[task.run] \in {"accepted", "refused"}
    /\ Goto(IF call[task.run] = "accepted" THEN "waitBack" ELSE "reseal")
    /\ UNCHANGED <<backupVars, row, deleting, spoiled, requests>>

AwaitRestore == Waits("waitBack", "rebuild", "reseal")

\* recreateServerContainer: there is no container to remove.
Rebuild ==
    /\ At("rebuild")
    /\ SetStatus("creating")
    /\ Goto("create")
    /\ UNCHANGED <<backupVars, deleting, spoiled, requests>>

Create ==
    /\ At("create")
    /\ \/ /\ row' = [row EXCEPT !.status = "stopped", !.built = TRUE]
          /\ Goto("clear")
          /\ UNCHANGED faults
       \/ /\ Fault("create")
          /\ SetStatus("error")
          /\ Goto("reseal")
    /\ UNCHANGED <<rowVars, jobVars, up, deleting, spoiled, requests>>

\* The pointers are cleared last.
ClearPointers ==
    /\ At("clear")
    /\ row' = [row EXCEPT !.status = "stopped", !.archived = FALSE,
                          !.snap = 0, !.entry = 0]
    /\ task' = NoTask
    /\ UNCHANGED <<backupVars, deleting, spoiled, requests>>

\* runUnarchive's catch, whatever status the rebuild left.
Reseal ==
    /\ At("reseal")
    /\ IF row.archived THEN SetStatus("archived") ELSE UNCHANGED row
    /\ task' = NoTask
    /\ UNCHANGED <<backupVars, deleting, spoiled, requests>>

-----------------------------------------------------------------------------
(* The owner and the backup schedule.                                      *)

\* A start or a stop from request to reply.
Power ==
    /\ "power" \in Ops
    /\ NotArchived /\ row.built /\ row.status # "creating"
    /\ up' = ~up
    /\ SetStatus(IF up THEN "stopped" ELSE "running")
    /\ UNCHANGED <<rowVars, jobVars, faults, task, deleting, spoiled, requests>>

\* startServerBackup, by the owner or by fireServerBackups.
RequestBackup ==
    /\ "backup" \in Ops
    /\ NotArchived /\ ~HasActiveRun /\ RunToSpare
    /\ CreateRun("backup", 0, "send")
    /\ UNCHANGED <<jobVars, up, faults, archiveVars>>

\* startServerRestore.
RequestRestore(n) ==
    /\ "restore" \in Ops
    /\ NotArchived /\ ~HasActiveRun /\ RunToSpare
    /\ run[n].kind = "backup" /\ run[n].status = "succeeded"
    /\ CreateRun("restore", run[n].snap, "stop")
    /\ UNCHANGED <<jobVars, up, faults, archiveVars>>

StopForRestore(n) ==
    /\ call[n] = "stop"
    /\ call' = [call EXCEPT ![n] = "send"]
    /\ up' = FALSE
    /\ IF up THEN SetStatus("stopped") ELSE UNCHANGED row
    /\ spoiled' = (spoiled \/ (up /\ row.status = "archiving"))
    /\ UNCHANGED <<run, used, jobVars, faults, task, deleting, requests>>

\* deleteServerBackup: any ended entry, whatever its kind, but the archive's
\* own; the snapshot goes first.
DeleteEntry(n) ==
    /\ "delete" \in Ops
    /\ deleting = 0
    /\ run[n].kind # "none" /\ ~Active(n)
    /\ ~(row.archived /\ n = row.entry)
    /\ repo' = repo \ {run[n].snap}
    /\ deleting' = n
    /\ spoiled' = (spoiled \/ run[n].snap \in {row.snap, task.run} \ {0})
    /\ UNCHANGED <<rowVars, job, evicted, whole, files, up, faults, row, task,
                   requests>>

DropEntry ==
    /\ deleting # 0
    /\ run' = [run EXCEPT ![deleting] = NoRun]
    /\ deleting' = 0
    /\ UNCHANGED <<used, call, jobVars, up, faults, row, task, spoiled, requests>>

-----------------------------------------------------------------------------
(* A panel that dies, and instrumentation.ts at the next boot.             *)

\* Mutation of BootRow: only archives are recovered.
BootForgetsRestores ==
    CASE row.status = "creating"  -> [row EXCEPT !.status = "error"]
      [] row.status = "archiving" /\ row.snap = 0 ->
            [row EXCEPT !.status = "stopped"]
      [] OTHER -> row

\* failInterruptedProvisions, then recoverInterruptedArchives.
BootRow ==
    CASE row.status = "creating"  -> [row EXCEPT !.status = "error"]
      [] row.status = "restoring" /\ row.archived ->
            [row EXCEPT !.status = "archived"]
      [] row.status = "archiving" /\ row.snap = 0 ->
            [row EXCEPT !.status = "stopped"]
      [] OTHER -> row

PanelRestarts ==
    /\ Fault("panel")
    /\ row' = BootRow
    /\ task' = IF BootRow.status = "archiving"
               THEN [NoTask EXCEPT !.pc = "wipe", !.boot = TRUE] ELSE NoTask
    /\ call' = [n \in Runs |-> "none"]
    /\ deleting' = 0
    /\ UNCHANGED <<run, used, jobVars, up, spoiled, requests>>

-----------------------------------------------------------------------------
Init ==
    /\ BackupInit
    /\ row \in {[status |-> s, archived |-> FALSE, snap |-> 0, entry |-> 0,
                 built |-> TRUE] : s \in {"running", "stopped"}}
    /\ up = (row.status = "running")
    /\ task = NoTask /\ deleting = 0 /\ spoiled = FALSE /\ requests = 0

TaskStep ==
    \/ MarkArchiving \/ StopForArchive \/ AskSnapshot \/ SnapshotAsked
    \/ AwaitSnapshot \/ Commit \/ Wipe \/ SettleArchive \/ UndoArchive
    \/ FetchArchive \/ RestoreAsked \/ AwaitRestore \/ Rebuild \/ Create
    \/ ClearPointers \/ Reseal

OwnerStep ==
    \/ AcceptArchive \/ AcceptUnarchive \/ Power \/ RequestBackup
    \/ DropEntry
    \/ \E n \in Runs :
          RequestRestore(n) \/ StopForRestore(n) \/ DeleteEntry(n)

Next ==
    \/ TaskStep \/ OwnerStep \/ PanelRestarts
    \/ BackupNext /\ UNCHANGED archiveVars

Spec == Init /\ [][Next]_vars

\* A task goes on, and what a request began ends.
FairSpec ==
    /\ Spec /\ BackupFairness
    /\ WF_vars(TaskStep) /\ WF_vars(DropEntry)
    /\ \A n \in Runs : WF_vars(StopForRestore(n))

-----------------------------------------------------------------------------
(* Properties.                                                             *)

\* The archive's snapshot, as the row names it, is in the repository and is
\* the whole server.
Stored == row.snap \in repo \cap whole

\* Whatever dies and whatever is asked for, the server's files are on the node
\* or in a snapshot the row names.
NothingLost == files \/ Stored

\* And that is so through every death and overlap between the stop, the
\* snapshot, its eviction by later backups, the commit, the wipe, the restore
\* and the rebuild, unless one of four steps happened before: the running
\* server could not be seen and was snapshot as it ran, the wipe failed and left
\* the pointer behind, a restore wrote `stopped` over `archiving`, or somebody
\* deleted a history entry with the archive's snapshot.
FilesExist == spoiled \/ NothingLost

\* "An archived server whose files are still on the node is the exact failure
\* this feature exists to avoid": no job of the agent puts files back and no
\* game runs between the wipe and the row that says `archived`.
ArchiveReclaims ==
    [][~spoiled /\ ~row.archived /\ row'.archived
       => ~files' /\ ~up']_vars

\* A wipe that failed at boot: the snapshot is recorded, the files are left.
WipeOutstanding == row.status = "archiving" /\ row.snap # 0 /\ At("idle")

\* `archiving` and `restoring` "are statuses nothing else is allowed to
\* correct": while the row is in one of them, or in the `creating` of a rebuild,
\* a task is there to take it out again, through every failure, every death of
\* the panel and every request that writes the status meanwhile, also after
\* FilesExist is void.  What may be without a task is a wipe to do again.
Transitions == {"archiving", "restoring", "creating"}
TransitionHasTask ==
    row.status \in Transitions => ~At("idle") \/ WipeOutstanding

\* An archive and an unarchive end, in a status the owner can act on, also when
\* the panel or the agent dies in the middle.
TransitionsEnd ==
    row.status \in Transitions
    ~> row.status \notin Transitions \/ WipeOutstanding
=============================================================================

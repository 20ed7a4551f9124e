------------------------- MODULE ServerArchiveProofs -------------------------
(***************************************************************************)
(* Proofs about ServerArchive: the types, that the server's files exist    *)
(* somewhere, and what a server recorded as archived has left on its node. *)
(***************************************************************************)
EXTENDS ServerArchive, TLAPS

Asking(n) == call[n] \in {"stop", "send", "mark"}

\* A run that was not inserted has nothing anywhere.
Unused == \A n \in Runs : n > used =>
             run[n] = NoRun /\ job[n] = NoJob /\ call[n] = "none"

\* A run the panel still asks for is not ended, and has no job before it was
\* delivered.
CallsOpen ==
    \A n \in Runs :
        /\ Asking(n) => Active(n) /\ ~run[n].known
        /\ call[n] \in {"stop", "send"} => job[n] = NoJob

\* Of the runs one at most has not ended.
OneActive == \A n, m \in Runs : Active(n) /\ Active(m) => n = m

\* What a run says of its snapshot, and a job of what it restores.
RunsName ==
    \A n \in Runs :
        /\ run[n].kind = "restore" => run[n].snap # 0
        /\ run[n].kind = "backup" => (Active(n) => run[n].snap = 0)
                                     /\ (run[n].status = "succeeded" => run[n].snap # 0)
        /\ Active(n) /\ job[n].phase # "none" => job[n].from = run[n].snap
        /\ job[n].phase = "limit" => job[n].from = 0

\* The entry that is being deleted has ended.
DropsEnded == deleting # 0 => ~Active(deleting) /\ deleting <= used

Bookkeeping == Unused /\ CallsOpen /\ OneActive /\ RunsName /\ DropsEnded

Quiet == \A n \in Runs : ~Active(n) /\ ~Working(n)
NoBackup ==
    \A n \in Runs : /\ Active(n) => run[n].kind = "restore"
                    /\ Working(n) => job[n].from # 0

\* The status follows from where the task is.
Before == {"stop", "ask", "sent", "wait", "commit", "undo"}
Fetching == {"fetch", "sentBack", "waitBack"}
RowOf ==
    /\ task.prev \in {"running", "stopped", "error"}
    /\ At("idle") =>
          /\ row.status \notin {"restoring", "creating"}
          /\ row.status = "archiving" => ~row.archived /\ row.snap # 0
          /\ row.status # "archiving" /\ ~row.archived => row.snap = 0
    /\ At("accepted") => row.status \in {"running", "stopped", "error"}
                         /\ ~row.archived /\ row.snap = 0
    /\ task.pc \in Before =>
          row.status = "archiving" /\ ~row.archived /\ row.snap = 0
    /\ task.pc \in {"wipe", "settle"} =>
          row.status = "archiving" /\ ~row.archived /\ row.snap # 0
    /\ task.pc \in Fetching =>
          row.status = "restoring" /\ row.archived /\ row.snap # 0
    /\ At("rebuild") => row.status = "restoring" /\ row.archived
    /\ At("create") => row.status = "creating" /\ row.archived
    /\ At("clear") => row.status \in {"stopped", "running"} /\ row.archived
    /\ At("reseal") => row.archived
          /\ row.status \notin {"archiving", "creating", "archived"}

\* Where a server has no container nothing runs.
Bare == row.status \in {"archived", "restoring", "creating"} \/ At("reseal")
Down == Bare => ~up /\ ~row.built

\* From the stop to the snapshot the server is there and at rest, and the run
\* the task waits for is the only one.
Sole == \A n \in Runs : Active(n) => n = task.run
Snapshots ==
    /\ task.pc \in Before \ {"stop", "undo"} => ~up
    /\ task.pc \in {"sent", "wait"} =>
          LET r == task.run IN
          /\ r \in 1..used /\ Sole
          /\ run[r].kind \in {"none", "backup"}
          /\ job[r].phase # "none" =>
                job[r].from = 0 /\ \A n \in Runs : Working(n) => n = r
          /\ job[r].phase = "succeeded" => r \in repo \cap whole
          /\ (run[r].kind = "backup" /\ run[r].status = "succeeded") =>
                r \in repo \cap whole /\ Quiet /\ run[r].snap = r
    /\ task.pc = "commit" => task.run \in repo \cap whole /\ Quiet /\ task.run # 0

\* Once the snapshot is committed nothing moves until the row says so.
Committed == row.status = "archiving" /\ row.snap # 0
Sealed == Committed => Stored /\ Quiet /\ ~up
Wiped == task.pc = "settle" => ~files

\* Without files the server is archived or about to be, and nothing takes a
\* snapshot or may take its own away.
Archived ==
    ~files =>
        /\ Stored
        /\ Committed \/ (row.archived /\ row.status \in {"archived", "restoring"}
                         /\ task.pc \in Fetching \cup {"idle", "reseal"} /\ NoBackup)

\* What the unarchive waits for puts the files back.
Restores ==
    /\ task.pc \in {"sentBack", "waitBack"} =>
          LET r == task.run IN
          /\ r \in 1..used
          /\ run[r].kind # "none" => run[r].kind = "restore" /\ run[r].snap = row.snap
          /\ job[r].phase # "none" => job[r].from = row.snap
          /\ job[r].phase = "succeeded" => files
          /\ (run[r].kind # "none" /\ run[r].status = "succeeded") => files
    /\ task.pc \in {"rebuild", "create", "clear"} => files

Promise ==
    RowOf /\ Down /\ Snapshots /\ Sealed /\ Wiped /\ Archived /\ Restores

Inv == TypeOK /\ (~spoiled => Bookkeeping /\ Promise)

-----------------------------------------------------------------------------
(* Steps and what they leave alone.                                        *)

\* A fault is counted.
LEMMA FaultCounts ==
    ASSUME NEW kind, faults \in 0..MaxFaults, Fault(kind)
    PROVE  faults' \in 0..MaxFaults
BY BackupAssumption DEF Fault

\* Where a task goes, and what it takes along.
LEMMA GotoMoves ==
    ASSUME task \in TaskStates, NEW pc \in PCs, Goto(pc)
    PROVE  /\ task' \in TaskStates /\ task'.pc = pc
           /\ task'.run = task.run /\ task'.prev = task.prev
           /\ task'.boot = task.boot
BY DEF Goto, TaskStates

\* A status that is written.
LEMMA StatusMoves ==
    ASSUME row \in Rows, NEW s \in Statuses, SetStatus(s)
    PROVE  /\ row' \in Rows /\ row'.status = s
           /\ row'.archived = row.archived /\ row'.snap = row.snap
           /\ row'.entry = row.entry /\ row'.built = row.built
BY DEF SetStatus, Rows

\* No task.
LEMMA NoTaskIdle ==
    /\ NoTask \in TaskStates /\ NoTask.pc = "idle" /\ NoTask.run = 0
    /\ [NoTask EXCEPT !.pc = "fetch"] \in TaskStates
    /\ [NoTask EXCEPT !.pc = "fetch"].pc = "fetch"
    /\ [NoTask EXCEPT !.pc = "wipe", !.boot = TRUE] \in TaskStates
    /\ [NoTask EXCEPT !.pc = "wipe", !.boot = TRUE].pc = "wipe"
    /\ \A s \in Statuses :
          /\ [NoTask EXCEPT !.pc = "accepted", !.prev = s] \in TaskStates
          /\ [NoTask EXCEPT !.pc = "accepted", !.prev = s].pc = "accepted"
<1>1. /\ NoTask.pc = "idle" /\ NoTask.run = 0 /\ NoTask.prev = "stopped"
      /\ NoTask.boot = FALSE
  BY DEF NoTask
<1>2. NoTask \in TaskStates
  BY BackupAssumption DEF NoTask, TaskStates, PCs, Statuses
<1> HIDE DEF NoTask
<1> QED BY <1>1, <1>2 DEF TaskStates, PCs

\* A run that is created: the next number, pending, and nothing else moves.
LEMMA RunCreated ==
    ASSUME TypeOK, NEW kind \in {"backup", "restore"}, NEW snap \in 0..MaxRuns,
           NEW first \in {"stop", "send"}, CreateRun(kind, snap, first)
    PROVE  /\ used + 1 \in Runs /\ used' = used + 1 /\ used' \in 0..MaxRuns
           /\ run' \in [Runs -> RunRows] /\ call' \in [Runs -> CallStates]
           /\ run'[used + 1] = [kind |-> kind, status |-> "pending",
                                known |-> FALSE, snap |-> snap]
           /\ call'[used + 1] = first
           /\ \A n \in Runs \ {used + 1} :
                 run'[n] = run[n] /\ call'[n] = call[n]
<1>1. used + 1 \in Runs /\ used' = used + 1 /\ used' \in 0..MaxRuns
  BY BackupAssumption DEF TypeOK, BackupTypeOK, CreateRun, Runs
<1> DEFINE new == [kind |-> kind, status |-> "pending", known |-> FALSE,
                   snap |-> snap]
<1>2. new \in RunRows /\ first \in CallStates
  BY DEF RunRows, CallStates
<1>3. run' = [run EXCEPT ![used + 1] = new]
      /\ call' = [call EXCEPT ![used + 1] = first]
  BY DEF CreateRun
<1> HIDE DEF new
<1>4. run' \in [Runs -> RunRows] /\ call' \in [Runs -> CallStates]
      /\ run'[used + 1] = new /\ call'[used + 1] = first
      /\ \A n \in Runs \ {used + 1} : run'[n] = run[n] /\ call'[n] = call[n]
  BY <1>1, <1>2, <1>3 DEF TypeOK, BackupTypeOK
<1> QED BY <1>1, <1>4 DEF new

\* A run that has failed: it is ended, and the others are as they were.
LEMMA FailedRun ==
    ASSUME run \in [Runs -> RunRows], NEW n \in Runs, run' = Failed(n)
    PROVE  /\ run' \in [Runs -> RunRows]
           /\ run'[n].status \notin {"pending", "running"} \/ run'[n].kind = "none"
           /\ run'[n].kind = run[n].kind /\ run'[n].snap = run[n].snap
           /\ run'[n].status = "succeeded" => run[n].status = "succeeded"
           /\ ~Active(n) => run'[n] = run[n]
           /\ \A m \in Runs \ {n} : run'[m] = run[m]
BY DEF Failed, Active, RunRows

\* What a success makes of the row of its run.
Won(n) == [run[n] EXCEPT !.status = "succeeded", !.known = FALSE,
                         !.snap = IF job[n].from = 0 THEN n ELSE @]

\* It is a row, ended, with its snapshot.
LEMMA WonRun ==
    ASSUME TypeOK, NEW n \in Runs
    PROVE  /\ Won(n) \in RunRows /\ Won(n).status = "succeeded"
           /\ Won(n).kind = run[n].kind
           /\ Won(n).snap = IF job[n].from = 0 THEN n ELSE run[n].snap
<1>1. run[n] \in RunRows
  BY DEF TypeOK, BackupTypeOK
<1>2. (IF job[n].from = 0 THEN n ELSE run[n].snap) \in 0..MaxRuns
  BY <1>1, BackupAssumption DEF RunRows, Runs
<1>3. Won(n) = [run[n] EXCEPT !.status = "succeeded", !.known = FALSE,
                  !.snap = IF job[n].from = 0 THEN n ELSE run[n].snap]
  BY DEF Won
<1> DEFINE s == IF job[n].from = 0 THEN n ELSE run[n].snap
<1> HIDE DEF s
<1>4. s \in 0..MaxRuns
  BY <1>2 DEF s
<1>5. Won(n) = [run[n] EXCEPT !.status = "succeeded", !.known = FALSE, !.snap = s]
  BY <1>3 DEF s
<1>6. /\ Won(n) \in RunRows /\ Won(n).status = "succeeded"
      /\ Won(n).kind = run[n].kind /\ Won(n).snap = s
  BY <1>1, <1>4, <1>5 DEF RunRows
<1> QED BY <1>6 DEF s

\* What reading a job leaves of the history.
LEMMA ReadRuns ==
    ASSUME TypeOK, NEW n \in Runs, ReadJob(n)
    PROVE  /\ run' \in [Runs -> RunRows]
           /\ \/ job[n].phase = "succeeded" /\ run'[n] = Won(n)
              \/ run' = Failed(n)
           /\ \A m \in Runs \ {n} :
                 \/ run'[m] = run[m]
                 \/ run'[m] = NoRun /\ run[m].kind = "backup"
                    /\ run[m].snap \in evicted[n]
<1>1. CASE job[n].phase # "succeeded"
  <2>1. run' = Failed(n)
    BY <1>1 DEF ReadJob
  <2> QED BY <2>1, FailedRun DEF TypeOK, BackupTypeOK
<1>2. CASE job[n].phase = "succeeded"
  <2>1. NoRun \in RunRows
    BY BackupAssumption DEF NoRun, RunRows
  <2>2. run' = [m \in Runs |->
                  IF m = n THEN Won(n)
                  ELSE IF run[m].kind = "backup" /\ run[m].snap \in evicted[n]
                       THEN NoRun ELSE run[m]]
    BY <1>2 DEF ReadJob, Won
  <2>3. run \in [Runs -> RunRows] /\ Won(n) \in RunRows
    BY WonRun DEF TypeOK, BackupTypeOK
  <2> QED BY <1>2, <2>1, <2>2, <2>3
<1> QED BY <1>1, <1>2

\* The job an agent starts for a run.
LEMMA JobStarted ==
    ASSUME run \in [Runs -> RunRows], job \in [Runs -> JobStates], NEW n \in Runs,
           job' = Started(n)
    PROVE  /\ job' \in [Runs -> JobStates]
           /\ job'[n].phase \in {"limit", "restic"}
           /\ (job'[n].phase = "limit") <=> (run[n].kind = "backup")
           /\ job'[n].from = run[n].snap
           /\ \A m \in Runs \ {n} : job'[m] = job[m]
BY DEF Started, JobStates, RunRows

-----------------------------------------------------------------------------
(* The types.                                                              *)

\* Every step keeps the types.
LEMMA StepTyped ==
    ASSUME TypeOK, Next
    PROVE  TypeOK'
<1> USE DEF TypeOK, BackupTypeOK
<1>0. /\ row.status \in Statuses /\ row.snap \in 0..MaxRuns
      /\ task.run \in 0..MaxRuns /\ task.prev \in Statuses
      /\ 0 \in 0..MaxRuns /\ MaxRuns \in Nat
  BY BackupAssumption DEF Rows, TaskStates
<1>1. CASE AcceptArchive \/ AcceptUnarchive
  <2>1. requests' \in 0..MaxRequests
    BY <1>1, ArchiveAssumption DEF AcceptArchive, AcceptUnarchive
  <2>2. task' \in TaskStates
    BY <1>0, <1>1, NoTaskIdle DEF AcceptArchive, AcceptUnarchive
  <2>3. row' \in Rows
    BY <1>1, StatusMoves DEF AcceptArchive, AcceptUnarchive, Statuses
  <2> QED BY <1>1, <2>1, <2>2, <2>3
          DEF AcceptArchive, AcceptUnarchive, backupVars, rowVars, jobVars
<1>2. CASE MarkArchiving \/ Commit \/ Rebuild \/ SnapshotAsked \/ RestoreAsked
  <2>1. task' \in TaskStates
    BY <1>2, GotoMoves
       DEF MarkArchiving, Commit, Rebuild, SnapshotAsked, RestoreAsked, PCs
  <2>2. row' \in Rows
    <3>1. CASE MarkArchiving \/ Rebuild
      BY <3>1, StatusMoves DEF MarkArchiving, Rebuild, Statuses
    <3>2. CASE Commit
      BY <1>0, <3>2 DEF Commit, Rows
    <3>3. CASE SnapshotAsked \/ RestoreAsked
      BY <1>0, <3>3 DEF SnapshotAsked, RestoreAsked, Rows
    <3> QED BY <1>2, <3>1, <3>2, <3>3
  <2> QED BY <1>2, <2>1, <2>2
          DEF MarkArchiving, Commit, Rebuild, SnapshotAsked, RestoreAsked,
              backupVars, rowVars, jobVars
<1>3. CASE StopForArchive
  <2>1. task' \in TaskStates /\ faults' \in 0..MaxFaults /\ up' \in BOOLEAN
    BY <1>3, GotoMoves, FaultCounts DEF StopForArchive, PCs
  <2>2. spoiled' \in BOOLEAN
    BY <1>3 DEF StopForArchive
  <2> QED BY <1>3, <2>1, <2>2 DEF StopForArchive, rowVars, jobVars
<1>4. CASE AskSnapshot \/ FetchArchive
  <2>1. CASE HasActiveRun
    <3>1. task' \in TaskStates
      BY <1>4, <2>1, GotoMoves DEF AskSnapshot, FetchArchive, PCs
    <3> QED BY <1>4, <2>1, <3>1 DEF AskSnapshot, FetchArchive, rowVars, jobVars
  <2>2. CASE ~HasActiveRun
    <3>1. \E kind \in {"backup", "restore"}, snap \in 0..MaxRuns :
             CreateRun(kind, snap, "send")
      BY <1>0, <1>4, <2>2 DEF AskSnapshot, FetchArchive
    <3>2. /\ run' \in [Runs -> RunRows] /\ call' \in [Runs -> CallStates]
          /\ used' \in 0..MaxRuns /\ used + 1 \in 0..MaxRuns
      BY <3>1, RunCreated DEF Runs
    <3>3. task' \in TaskStates
      BY <1>4, <2>2, <3>2 DEF AskSnapshot, FetchArchive, TaskStates, PCs
    <3> QED BY <1>4, <2>2, <3>2, <3>3 DEF AskSnapshot, FetchArchive, jobVars
  <2> QED BY <2>1, <2>2
<1>5. CASE AwaitSnapshot \/ AwaitRestore
  <2>1. task' \in TaskStates /\ faults' \in 0..MaxFaults
    BY <1>5, GotoMoves, FaultCounts DEF AwaitSnapshot, AwaitRestore, Waits, PCs
  <2> QED BY <1>5, <2>1 DEF AwaitSnapshot, AwaitRestore, Waits, rowVars, jobVars
<1>6. CASE Wipe
  <2>1. task' \in TaskStates /\ faults' \in 0..MaxFaults
    BY <1>6, GotoMoves, FaultCounts DEF Wipe, PCs
  <2>2. files' \in BOOLEAN /\ up' \in BOOLEAN /\ spoiled' \in BOOLEAN
    BY <1>6 DEF Wipe
  <2> QED BY <1>6, <2>1, <2>2 DEF Wipe, rowVars
<1>7. CASE SettleArchive \/ UndoArchive \/ ClearPointers \/ Reseal
  <2>1. task' \in TaskStates
    BY <1>7, NoTaskIdle DEF SettleArchive, UndoArchive, ClearPointers, Reseal
  <2>2. row' \in Rows
    <3>1. CASE SettleArchive \/ ClearPointers
      BY <1>0, <3>1 DEF SettleArchive, ClearPointers, Rows, Statuses
    <3>2. CASE UndoArchive \/ Reseal
      BY <1>0, <3>2, StatusMoves DEF UndoArchive, Reseal, Statuses
    <3> QED BY <1>7, <3>1, <3>2
  <2> QED BY <1>7, <2>1, <2>2
          DEF SettleArchive, UndoArchive, ClearPointers, Reseal, backupVars,
              rowVars, jobVars
<1>8. CASE Create
  <2>1. task' \in TaskStates /\ faults' \in 0..MaxFaults
    BY <1>8, GotoMoves, FaultCounts DEF Create, PCs
  <2>2. row' \in Rows
    BY <1>8, StatusMoves DEF Create, Rows, Statuses
  <2> QED BY <1>8, <2>1, <2>2 DEF Create, rowVars, jobVars
<1>9. CASE Power
  <2>1. row' \in Rows
    BY <1>9, StatusMoves DEF Power, Statuses
  <2> QED BY <1>9, <2>1 DEF Power, rowVars, jobVars
<1>10. CASE RequestBackup
  BY <1>0, <1>10, RunCreated DEF RequestBackup, jobVars, archiveVars
<1>11. ASSUME NEW n \in Runs, RequestRestore(n)
       PROVE  TypeOK'
  <2>1. run[n].snap \in 0..MaxRuns
    BY DEF RunRows
  <2> QED BY <1>11, <2>1, RunCreated DEF RequestRestore, jobVars, archiveVars
<1>12. ASSUME NEW n \in Runs, StopForRestore(n)
       PROVE  TypeOK'
  <2>1. row' \in Rows
    BY <1>12, StatusMoves DEF StopForRestore, Statuses
  <2>2. call' \in [Runs -> CallStates] /\ spoiled' \in BOOLEAN
    BY <1>12 DEF StopForRestore, CallStates
  <2> QED BY <1>12, <2>1, <2>2 DEF StopForRestore, jobVars
<1>13. ASSUME NEW n \in Runs, DeleteEntry(n)
       PROVE  TypeOK'
  <2>1. n \in 0..MaxRuns
    BY <1>0 DEF Runs
  <2>2. spoiled' \in BOOLEAN /\ repo' \subseteq Runs
    BY <1>13 DEF DeleteEntry
  <2> QED BY <1>13, <2>1, <2>2 DEF DeleteEntry, rowVars
<1>14. CASE DropEntry
  <2>1. NoRun \in RunRows
    BY <1>0 DEF NoRun, RunRows
  <2> QED BY <1>0, <1>14, <2>1 DEF DropEntry, jobVars
<1>15. CASE PanelRestarts
  <2>1. BootRow \in Rows
    BY DEF BootRow, Rows, Statuses
  <2>2. task' \in TaskStates /\ faults' \in 0..MaxFaults
    BY <1>15, NoTaskIdle, FaultCounts DEF PanelRestarts
  <2>3. call' \in [Runs -> CallStates]
    BY <1>15 DEF PanelRestarts, CallStates
  <2> QED BY <1>0, <1>15, <2>1, <2>2, <2>3 DEF PanelRestarts, jobVars
<1>16. CASE BackupNext /\ UNCHANGED archiveVars
  <2>1. CASE AgentRestarts
    <3>1. NoJob \in JobStates
      BY <1>0 DEF NoJob, JobStates
    <3> QED BY <1>16, <2>1, <3>1, FaultCounts
            DEF AgentRestarts, rowVars, archiveVars
  <2>2. ASSUME NEW n \in Runs, BackupStep(n)
        PROVE  TypeOK'
    <3>1. CASE Deliver(n) \/ Refuse(n)
      <4>1. job' \in [Runs -> JobStates] /\ faults' \in 0..MaxFaults
        BY <3>1, JobStarted, FaultCounts DEF Deliver, Refuse
      <4>2. run' \in [Runs -> RunRows]
        BY <3>1, FailedRun DEF Deliver, Refuse
      <4>3. call' \in [Runs -> CallStates]
        BY <3>1 DEF Deliver, Refuse, CallStates
      <4> QED BY <1>16, <3>1, <4>1, <4>2, <4>3 DEF Deliver, Refuse, archiveVars
    <3>2. CASE MarkRunAccepted(n)
      <4>1. run' \in [Runs -> RunRows]
        BY <3>2 DEF MarkRunAccepted, RunRows
      <4>2. call' \in [Runs -> CallStates]
        BY <3>2 DEF MarkRunAccepted, CallStates
      <4> QED BY <1>16, <3>2, <4>1, <4>2 DEF MarkRunAccepted, jobVars, archiveVars
    <3>3. CASE FailUnheard(n) \/ GiveUp(n)
      <4>1. run' \in [Runs -> RunRows] /\ faults' \in 0..MaxFaults
        BY <3>3, FailedRun, FaultCounts DEF FailUnheard, GiveUp
      <4> QED BY <1>16, <3>3, <4>1 DEF FailUnheard, GiveUp, jobVars, archiveVars
    <3>4. CASE ReadJob(n)
      <4>1. run' \in [Runs -> RunRows]
        BY <3>4, ReadRuns
      <4> QED BY <1>16, <3>4, <4>1 DEF ReadJob, jobVars, archiveVars
    <3>5. CASE EnforceLimit(n)
      <4>1. Doomed \subseteq Runs
        BY DEF Doomed
      <4>2. job' \in [Runs -> JobStates]
        BY <3>5 DEF EnforceLimit, JobStates
      <4> QED BY <1>16, <3>5, <4>1, <4>2 DEF EnforceLimit, rowVars, archiveVars
    <3>6. CASE Upload(n) \/ Restore(n) \/ JobFails(n)
      <4>1. job' \in [Runs -> JobStates]
        BY <3>6 DEF Upload, Restore, JobFails, JobStates
      <4>2. files' \in BOOLEAN /\ faults' \in 0..MaxFaults
        BY <3>6, FaultCounts DEF Upload, Restore, JobFails
      <4> QED BY <1>16, <3>6, <4>1, <4>2
              DEF Upload, Restore, JobFails, rowVars, archiveVars
    <3> QED BY <2>2, <3>1, <3>2, <3>3, <3>4, <3>5, <3>6 DEF BackupStep
  <2> QED BY <1>16, <2>1, <2>2 DEF BackupNext
<1> QED BY <1>1, <1>2, <1>3, <1>4, <1>5, <1>6, <1>7, <1>8, <1>9, <1>10, <1>11,
           <1>12, <1>13, <1>14, <1>15, <1>16 DEF Next, TaskStep, OwnerStep

-----------------------------------------------------------------------------
(* The books: runs, calls and jobs.                                        *)

\* An active run that is a row.
LEMMA ActiveRows ==
    ASSUME TypeOK, Bookkeeping, NEW n \in Runs
    PROVE  /\ Active(n) => n <= used /\ run[n] # NoRun
           /\ run[n].kind # "none" => n <= used
           /\ Asking(n) => Active(n)
<1>1. n \in Nat /\ used \in Nat
  BY BackupAssumption DEF TypeOK, BackupTypeOK, Runs
<1>2. n > used => run[n] = NoRun
  BY DEF Bookkeeping, Unused
<1>3. NoRun.kind = "none"
  BY DEF NoRun
<1> QED BY <1>1, <1>2, <1>3 DEF Bookkeeping, CallsOpen, Active

\* A run that is created, while no other is active.
LEMMA CreateBooks ==
    ASSUME TypeOK, Bookkeeping, ~HasActiveRun,
           NEW kind \in {"backup", "restore"}, NEW snap \in 0..MaxRuns,
           NEW first \in {"stop", "send"}, CreateRun(kind, snap, first),
           kind = "backup" <=> snap = 0, job' = job, deleting' = deleting
    PROVE  Bookkeeping'
<1>0. PICK u : u = used + 1
  OBVIOUS
<1>1. /\ u \in Runs /\ used' = u /\ used \in Nat
      /\ run'[u].kind = kind /\ run'[u].status = "pending"
      /\ run'[u].known = FALSE /\ run'[u].snap = snap /\ call'[u] = first
      /\ \A n \in Runs \ {u} : run'[n] = run[n] /\ call'[n] = call[n]
  <2>1. /\ u \in Runs /\ used' = u
        /\ run'[u] = [kind |-> kind, status |-> "pending",
                      known |-> FALSE, snap |-> snap]
        /\ call'[u] = first
        /\ \A n \in Runs \ {u} : run'[n] = run[n] /\ call'[n] = call[n]
    BY <1>0, RunCreated
  <2>2. used \in Nat
    BY BackupAssumption DEF TypeOK, BackupTypeOK
  <2> QED BY <2>1, <2>2
<1>2. /\ run[u] = NoRun /\ job[u] = NoJob /\ call[u] = "none"
  BY <1>0, <1>1 DEF Bookkeeping, Unused, Runs
<1>3. \A n \in Runs : ~Active(n)
  BY DEF HasActiveRun
<1>4. \A n \in Runs \ {u} : (Active(n)' <=> Active(n)) /\ (Asking(n)' <=> Asking(n))
  BY <1>1 DEF Active, Asking
<1>5. run'[u].kind # "none" /\ run'[u].status \in {"pending", "running"}
      /\ call'[u] \in {"stop", "send", "mark"}
  BY <1>1
<1>6. NoJob.phase = "none"
  BY DEF NoJob
<1>7. Unused'
  <2>1. \A n \in Runs : n > u => n > used /\ n # u
    BY <1>0, <1>1 DEF Runs
  <2> QED BY <1>1, <2>1 DEF Bookkeeping, Unused
<1>8. CallsOpen'
  <2>1. \A n \in Runs \ {u} :
           /\ Asking(n)' => Active(n)' /\ ~run'[n].known
           /\ call'[n] \in {"stop", "send"} => job'[n] = NoJob
    BY <1>1, <1>4 DEF Bookkeeping, CallsOpen
  <2>2. /\ Active(u)' /\ ~run'[u].known
        /\ job'[u] = NoJob
    BY <1>1, <1>2, <1>5 DEF Active
  <2> QED BY <2>1, <2>2 DEF CallsOpen
<1>9. OneActive'
  BY <1>3, <1>4 DEF OneActive
<1>10. RunsName'
  BY <1>1, <1>2, <1>3, <1>4, <1>6 DEF Bookkeeping, RunsName
<1>11. DropsEnded'
  <2>1. deleting # 0 => deleting \in Runs /\ deleting # u /\ deleting <= u
    BY <1>0, <1>1, BackupAssumption
       DEF Bookkeeping, DropsEnded, TypeOK, BackupTypeOK, Runs
  <2> QED BY <1>1, <1>4, <2>1 DEF Bookkeeping, DropsEnded
<1> QED BY <1>7, <1>8, <1>9, <1>10, <1>11 DEF Bookkeeping

\* Steps that end run n, drop entries that have ended, or leave the runs alone,
\* and do not touch what is asked for.
LEMMA EndBooks ==
    ASSUME TypeOK, Bookkeeping, run' \in [Runs -> RunRows],
           \A m \in Runs : \/ run'[m] = run[m]
                           \/ run'[m] = NoRun /\ run[m].kind # "none"
                              /\ ~Active(m)
                           \/ /\ ~Active(m)' /\ run'[m].kind = run[m].kind
                              /\ Active(m) /\ ~Asking(m)
                              /\ run'[m].status = "succeeded"
                                    /\ run[m].kind = "backup" => run'[m].snap # 0
                              /\ run[m].kind = "restore" =>
                                    run'[m].snap = run[m].snap,
           UNCHANGED <<used, job, call, deleting>>
    PROVE  Bookkeeping'
<1>1. \A m \in Runs : Active(m)' => Active(m) /\ run'[m] = run[m]
  <2>1. NoRun.kind = "none"
    BY DEF NoRun
  <2> QED BY <2>1 DEF Active
<1>2. \A m \in Runs : Asking(m)' => Asking(m) /\ run'[m] = run[m]
  BY DEF Asking, Bookkeeping, CallsOpen
<1>3. Unused'
  <2>1. NoRun.kind = "none"
    BY DEF NoRun
  <2> QED BY <2>1 DEF Bookkeeping, Unused, Active
<1>4. CallsOpen'
  BY <1>2 DEF Bookkeeping, CallsOpen, Active, Asking
<1>5. OneActive'
  BY <1>1 DEF Bookkeeping, OneActive
<1>6. RunsName'
  <2>1. NoRun.kind = "none"
    BY DEF NoRun
  <2> QED BY <1>1, <2>1 DEF Bookkeeping, RunsName
<1>7. DropsEnded'
  BY <1>1 DEF Bookkeeping, DropsEnded, TypeOK, Runs
<1> QED BY <1>3, <1>4, <1>5, <1>6, <1>7 DEF Bookkeeping

\* Steps of the jobs: what they restore stays, and nothing is delivered.
LEMMA JobBooks ==
    ASSUME TypeOK, Bookkeeping,
           \A m \in Runs : \/ job'[m] = job[m] \/ job'[m] = NoJob
                           \/ /\ job[m].phase # "none"
                              /\ job'[m].phase \notin {"none", "limit"}
                              /\ job'[m].from = job[m].from,
           UNCHANGED <<run, used, call, deleting>>
    PROVE  Bookkeeping'
<1>1. NoJob.phase = "none"
  BY DEF NoJob
<1>2. \A m \in Runs : (Active(m)' <=> Active(m)) /\ (Asking(m)' <=> Asking(m))
  BY DEF Active, Asking
<1>3. Unused'
  BY <1>1 DEF Bookkeeping, Unused
<1>4. CallsOpen'
  BY <1>1, <1>2 DEF Bookkeeping, CallsOpen
<1>5. OneActive' /\ DropsEnded'
  BY <1>2 DEF Bookkeeping, OneActive, DropsEnded, Active
<1>6. RunsName'
  BY <1>1, <1>2 DEF Bookkeeping, RunsName
<1> QED BY <1>3, <1>4, <1>5, <1>6 DEF Bookkeeping

bookVars == <<run, used, call, job, deleting>>

\* Everything the books are about is as it was.
LEMMA SameBooks ==
    ASSUME Bookkeeping, UNCHANGED bookVars
    PROVE  Bookkeeping'
BY DEF bookVars, Bookkeeping, Unused, CallsOpen, OneActive, RunsName, DropsEnded,
       Active, Asking

\* Every step keeps the books.
LEMMA StepBooks ==
    ASSUME TypeOK, Bookkeeping, RowOf, Next
    PROVE  Bookkeeping'
<1>0. /\ run \in [Runs -> RunRows] /\ job \in [Runs -> JobStates]
      /\ call \in [Runs -> CallStates] /\ used \in 0..MaxRuns
      /\ evicted \in [Runs -> SUBSET Runs] /\ row.snap \in 0..MaxRuns
      /\ MaxRuns \in Nat /\ 0 \in 0..MaxRuns /\ 0 \notin Runs
  BY BackupAssumption DEF TypeOK, BackupTypeOK, Rows, Runs
<1>1. CASE UNCHANGED bookVars
  BY <1>1, SameBooks
<1>2. CASE TaskStep \/ AcceptArchive \/ AcceptUnarchive \/ Power
  <2>1. CASE AskSnapshot /\ ~HasActiveRun
    <3>1. CreateRun("backup", 0, "send") /\ job' = job /\ deleting' = deleting
      BY <2>1 DEF AskSnapshot, jobVars
    <3> QED BY <1>0, <2>1, <3>1, CreateBooks
  <2>2. CASE FetchArchive /\ ~HasActiveRun
    <3>1. /\ CreateRun("restore", row.snap, "send")
          /\ job' = job /\ deleting' = deleting
      BY <2>2 DEF FetchArchive, jobVars
    <3>2. row.snap # 0
      BY <2>2 DEF FetchArchive, RowOf, Fetching, At
    <3> QED BY <1>0, <2>2, <3>1, <3>2, CreateBooks
  <2>3. CASE (AskSnapshot \/ FetchArchive) /\ HasActiveRun
    BY <1>1, <2>3 DEF AskSnapshot, FetchArchive, bookVars, rowVars, jobVars
  <2>4. CASE \/ AcceptArchive \/ AcceptUnarchive \/ Power \/ MarkArchiving
             \/ StopForArchive \/ SnapshotAsked \/ Commit \/ SettleArchive
             \/ UndoArchive \/ RestoreAsked \/ Rebuild \/ Create
             \/ ClearPointers \/ Reseal
    BY <1>1, <2>4
       DEF AcceptArchive, AcceptUnarchive, Power, MarkArchiving, StopForArchive,
           SnapshotAsked, Commit, SettleArchive, UndoArchive, RestoreAsked,
           Rebuild, Create, ClearPointers, Reseal, bookVars, backupVars,
           rowVars, jobVars
  <2>5. CASE AwaitSnapshot \/ AwaitRestore \/ Wipe
    BY <1>1, <2>5
       DEF AwaitSnapshot, AwaitRestore, Waits, Wipe, bookVars, rowVars, jobVars
  <2> QED BY <1>2, <2>1, <2>2, <2>3, <2>4, <2>5 DEF TaskStep
<1>3. CASE RequestBackup
  <2>1. CreateRun("backup", 0, "send") /\ job' = job /\ deleting' = deleting
        /\ ~HasActiveRun
    BY <1>3 DEF RequestBackup, jobVars, archiveVars
  <2> QED BY <1>0, <2>1, CreateBooks
<1>4. ASSUME NEW n \in Runs, RequestRestore(n)
      PROVE  Bookkeeping'
  <2>1. /\ CreateRun("restore", run[n].snap, "stop") /\ job' = job
        /\ deleting' = deleting /\ ~HasActiveRun
        /\ run[n].kind = "backup" /\ run[n].status = "succeeded"
    BY <1>4 DEF RequestRestore, jobVars, archiveVars
  <2>2. run[n].snap # 0 /\ run[n].snap \in 0..MaxRuns
    BY <1>0, <2>1 DEF Bookkeeping, RunsName, RunRows
  <2> QED BY <2>1, <2>2, CreateBooks
<1>5. ASSUME NEW n \in Runs, StopForRestore(n)
      PROVE  Bookkeeping'
  <2>1. /\ call[n] = "stop" /\ call' = [call EXCEPT ![n] = "send"]
        /\ run' = run /\ used' = used /\ job' = job /\ deleting' = deleting
    BY <1>5 DEF StopForRestore, jobVars
  <2>2. \A m \in Runs : (Active(m)' <=> Active(m)) /\ (Asking(m)' <=> Asking(m))
    BY <1>0, <2>1 DEF Active, Asking
  <2>3. Unused'
    BY <1>0, <2>1 DEF Bookkeeping, Unused
  <2>4. CallsOpen'
    BY <1>0, <2>1, <2>2 DEF Bookkeeping, CallsOpen
  <2>5. OneActive' /\ RunsName' /\ DropsEnded'
    BY <2>1, <2>2 DEF Bookkeeping, OneActive, RunsName, DropsEnded, Active
  <2> QED BY <2>3, <2>4, <2>5 DEF Bookkeeping
<1>6. ASSUME NEW n \in Runs, DeleteEntry(n)
      PROVE  Bookkeeping'
  <2>1. /\ UNCHANGED <<run, used, call, job>> /\ deleting' = n
        /\ ~Active(n) /\ run[n].kind # "none"
    BY <1>6 DEF DeleteEntry, rowVars
  <2>2. n <= used
    BY <2>1, ActiveRows
  <2>3. DropsEnded'
    BY <2>1, <2>2 DEF DropsEnded, Active
  <2> QED BY <2>1, <2>3
          DEF Bookkeeping, Unused, CallsOpen, OneActive, RunsName, Active, Asking
<1>7. CASE DropEntry
  <2>1. /\ deleting \in Runs /\ run' = [run EXCEPT ![deleting] = NoRun]
        /\ deleting' = 0 /\ UNCHANGED <<used, call, job>> /\ ~Active(deleting)
    BY <1>7 DEF DropEntry, jobVars, TypeOK, Runs, Bookkeeping, DropsEnded
  <2>2. NoRun.kind = "none"
    BY DEF NoRun
  <2>3. \A m \in Runs : /\ Active(m)' <=> Active(m)
                        /\ Active(m) => run'[m] = run[m]
                        /\ Asking(m)' <=> Asking(m)
                        /\ run'[m] = run[m] \/ run'[m] = NoRun
    BY <1>0, <2>1, <2>2 DEF Active, Asking
  <2>4. Unused' /\ OneActive'
    BY <2>1, <2>3 DEF Bookkeeping, Unused, OneActive
  <2>5. CallsOpen'
    BY <2>1, <2>3 DEF Bookkeeping, CallsOpen
  <2>6. RunsName'
    BY <2>1, <2>2, <2>3 DEF Bookkeeping, RunsName
  <2>7. DropsEnded'
    BY <2>1 DEF DropsEnded
  <2> QED BY <2>4, <2>5, <2>6, <2>7 DEF Bookkeeping
<1>8. CASE PanelRestarts
  <2>1. /\ call' = [m \in Runs |-> "none"] /\ deleting' = 0
        /\ UNCHANGED <<run, used, job>>
    BY <1>8 DEF PanelRestarts, jobVars
  <2>2. \A m \in Runs : (Active(m)' <=> Active(m)) /\ ~Asking(m)'
    BY <2>1 DEF Active, Asking
  <2> QED BY <2>1, <2>2
          DEF Bookkeeping, Unused, CallsOpen, OneActive, RunsName, DropsEnded
<1>9. CASE BackupNext /\ UNCHANGED archiveVars
  <2>0. deleting' = deleting
    BY <1>9 DEF archiveVars
  <2>1. CASE AgentRestarts
    <3>1. \A m \in Runs : job'[m] = NoJob
      BY <2>1 DEF AgentRestarts
    <3> QED BY <2>0, <2>1, <3>1, JobBooks DEF AgentRestarts, rowVars
  <2>2. ASSUME NEW n \in Runs, BackupStep(n)
        PROVE  Bookkeeping'
    <3>1. CASE EnforceLimit(n) \/ Upload(n) \/ Restore(n) \/ JobFails(n)
      <4>1. /\ UNCHANGED <<run, used, call>>
            /\ job[n].phase # "none" /\ job'[n].phase \notin {"none", "limit"}
            /\ job'[n].from = job[n].from
            /\ \A m \in Runs \ {n} : job'[m] = job[m]
        BY <1>0, <3>1 DEF EnforceLimit, Upload, Restore, JobFails, rowVars,
                          Working, JobStates
      <4> QED BY <2>0, <4>1, JobBooks
    <3>2. CASE FailUnheard(n) \/ GiveUp(n)
      <4>1. /\ run' = Failed(n) /\ UNCHANGED <<used, call, job>>
            /\ Active(n) /\ ~Asking(n)
        BY <3>2 DEF FailUnheard, GiveUp, jobVars, Asking, Bookkeeping, CallsOpen
      <4>2. /\ run' \in [Runs -> RunRows] /\ ~Active(n)'
            /\ run'[n].kind = run[n].kind /\ run'[n].snap = run[n].snap
            /\ run'[n].status # "succeeded"
            /\ \A m \in Runs \ {n} : run'[m] = run[m]
        BY <1>0, <4>1, FailedRun DEF Active
      <4> QED BY <2>0, <4>1, <4>2, EndBooks
    <3>3. CASE ReadJob(n)
      <4>1. /\ UNCHANGED <<used, call, job>> /\ Active(n) /\ ~Asking(n)
        BY <3>3 DEF ReadJob, jobVars, Asking, Bookkeeping, CallsOpen
      <4>2. \A m \in Runs \ {n} :
               \/ run'[m] = run[m]
               \/ run'[m] = NoRun /\ run[m].kind # "none" /\ ~Active(m)
        <5>1. \A m \in Runs : run[m].snap \in evicted[n] => run[m].snap # 0
          BY <1>0
        <5> QED BY <3>3, <5>1, ReadRuns DEF Bookkeeping, RunsName
      <4>3. CASE job[n].phase = "succeeded" /\ run'[n] = Won(n)
        <5>1. /\ run'[n].status = "succeeded" /\ run'[n].kind = run[n].kind
              /\ run'[n].snap = IF job[n].from = 0 THEN n ELSE run[n].snap
          BY <4>3, WonRun
        <5>2. job[n].from = run[n].snap /\ n # 0
          BY <1>0, <4>1, <4>3 DEF Bookkeeping, RunsName
        <5>3. ~Active(n)'
          BY <5>1 DEF Active
        <5>4. run[n].kind = "restore" => run[n].snap # 0
          BY DEF Bookkeeping, RunsName
        <5>5. run[n].kind = "backup" => run[n].snap = 0
          BY <4>1 DEF Bookkeeping, RunsName
        <5>6. run' \in [Runs -> RunRows]
          BY <3>3, ReadRuns
        <5> QED BY <2>0, <4>1, <4>2, <5>1, <5>2, <5>3, <5>4, <5>5, <5>6, EndBooks
      <4>4. CASE run' = Failed(n)
        <5>1. /\ run' \in [Runs -> RunRows] /\ ~Active(n)'
              /\ run'[n].kind = run[n].kind /\ run'[n].snap = run[n].snap
              /\ run'[n].status # "succeeded"
          BY <1>0, <4>1, <4>4, FailedRun DEF Active
        <5> QED BY <2>0, <4>1, <4>2, <5>1, EndBooks
      <4> QED BY <3>3, <4>3, <4>4, ReadRuns
    <3>4. CASE MarkRunAccepted(n)
      <4>1. /\ UNCHANGED <<used, job>> /\ Asking(n) /\ ~Asking(n)'
            /\ call'[n] = "accepted"
            /\ run'[n].status = "running" /\ run'[n].kind = run[n].kind
            /\ run'[n].snap = run[n].snap
            /\ \A m \in Runs \ {n} : run'[m] = run[m] /\ call'[m] = call[m]
        BY <1>0, <3>4 DEF MarkRunAccepted, jobVars, Asking, RunRows
      <4>2. Active(n) /\ run[n].kind # "none"
        BY <4>1 DEF Bookkeeping, CallsOpen, Active
      <4>3. \A m \in Runs : (Active(m)' <=> Active(m)) /\ (m # n =>
                               (Asking(m)' <=> Asking(m)))
        BY <4>1, <4>2 DEF Active, Asking
      <4>4. n <= used
        BY <4>2, ActiveRows
      <4>5. Unused'
        BY <1>0, <4>1, <4>4 DEF Bookkeeping, Unused, Runs
      <4>6. CallsOpen'
        BY <4>1, <4>3 DEF Bookkeeping, CallsOpen
      <4>7. OneActive' /\ DropsEnded'
        BY <2>0, <4>1, <4>3 DEF Bookkeeping, OneActive, DropsEnded, TypeOK, Runs
      <4>8. RunsName'
        BY <4>1, <4>2, <4>3 DEF Bookkeeping, RunsName
      <4> QED BY <4>5, <4>6, <4>7, <4>8 DEF Bookkeeping
    <3>5. CASE Deliver(n)
      <4>1. /\ UNCHANGED <<run, used>> /\ call[n] = "send"
            /\ call' = [call EXCEPT ![n] = "mark"] /\ job' = Started(n)
        BY <3>5 DEF Deliver
      <4>2. /\ job'[n].from = run[n].snap
            /\ (job'[n].phase = "limit") <=> (run[n].kind = "backup")
            /\ \A m \in Runs \ {n} : job'[m] = job[m]
        BY <1>0, <4>1, JobStarted
      <4>3. Active(n) /\ ~run[n].known /\ n <= used
        BY <4>1, ActiveRows DEF Bookkeeping, CallsOpen, Asking
      <4>4. \A m \in Runs : (Active(m)' <=> Active(m)) /\ (Asking(m)' <=> Asking(m))
        BY <1>0, <4>1 DEF Active, Asking
      <4>5. Unused'
        BY <1>0, <4>1, <4>2, <4>3 DEF Bookkeeping, Unused, Runs
      <4>6. CallsOpen'
        BY <1>0, <4>1, <4>2, <4>4 DEF Bookkeeping, CallsOpen
      <4>7. OneActive' /\ DropsEnded'
        BY <2>0, <4>1, <4>4 DEF Bookkeeping, OneActive, DropsEnded, Active
      <4>8. RunsName'
        BY <4>1, <4>2, <4>3, <4>4 DEF Bookkeeping, RunsName
      <4> QED BY <4>5, <4>6, <4>7, <4>8 DEF Bookkeeping
    <3>6. CASE Refuse(n)
      <4>1. /\ used' = used /\ call[n] = "send" /\ run' = Failed(n)
            /\ call' = [call EXCEPT ![n] = "refused"]
            /\ job' = job \/ job' = Started(n)
        BY <3>6 DEF Refuse
      <4>2. Active(n) /\ n <= used
        BY <4>1, ActiveRows DEF Asking
      <4>3. /\ run' \in [Runs -> RunRows] /\ ~Active(n)'
            /\ run'[n].kind = run[n].kind /\ run'[n].snap = run[n].snap
            /\ run'[n].status # "succeeded"
            /\ \A m \in Runs \ {n} : run'[m] = run[m]
        BY <1>0, <4>1, <4>2, FailedRun DEF Active
      <4>4. /\ \/ job' = job
               \/ /\ (job'[n].phase = "limit") <=> (run[n].kind = "backup")
                  /\ job'[n].from = run[n].snap
            /\ \A m \in Runs \ {n} : job'[m] = job[m]
        BY <1>0, <4>1, JobStarted
      <4>5. \A m \in Runs \ {n} :
               (Active(m)' <=> Active(m)) /\ (Asking(m)' <=> Asking(m))
        BY <1>0, <4>1, <4>3 DEF Active, Asking
      <4>6. ~Asking(n)' /\ call'[n] = "refused"
        BY <1>0, <4>1 DEF Asking
      <4>7. Unused'
        BY <1>0, <4>1, <4>2, <4>3, <4>4 DEF Bookkeeping, Unused, Runs
      <4>8. CallsOpen'
        BY <1>0, <4>1, <4>3, <4>4, <4>5, <4>6 DEF Bookkeeping, CallsOpen
      <4>9. OneActive'
        BY <4>3, <4>5 DEF Bookkeeping, OneActive
      <4>10. RunsName'
        BY <4>2, <4>3, <4>4, <4>5 DEF Bookkeeping, RunsName
      <4>11. DropsEnded'
        BY <2>0, <4>1, <4>3, <4>5 DEF Bookkeeping, DropsEnded, TypeOK, Runs
      <4> QED BY <4>7, <4>8, <4>9, <4>10, <4>11 DEF Bookkeeping
    <3> QED BY <2>2, <3>1, <3>2, <3>3, <3>4, <3>5, <3>6 DEF BackupStep
  <2> QED BY <1>9, <2>1, <2>2 DEF BackupNext
<1> QED BY <1>2, <1>3, <1>4, <1>5, <1>6, <1>7, <1>8, <1>9 DEF Next, OwnerStep

-----------------------------------------------------------------------------
(* What the row, the task and the files keep.                              *)

\* Where no run and no job is under way, the backups change nothing.
LEMMA QuietStays ==
    ASSUME TypeOK, Bookkeeping, Quiet, BackupNext
    PROVE  /\ Quiet' /\ repo' = repo /\ whole' = whole
           /\ files' = files /\ up' = up
<1>1. CASE AgentRestarts
  <2>1. \A n \in Runs : job'[n] = NoJob /\ NoJob.phase = "none"
    BY <1>1 DEF AgentRestarts, NoJob
  <2> QED BY <1>1, <2>1 DEF AgentRestarts, Quiet, Active, Working, rowVars
<1>2. ASSUME NEW n \in Runs, BackupStep(n)
      PROVE  FALSE
  <2>1. ~Active(n) /\ ~Working(n) /\ ~Asking(n)
    BY ActiveRows DEF Quiet
  <2> QED BY <1>2, <2>1
          DEF BackupStep, Deliver, Refuse, MarkRunAccepted, FailUnheard, ReadJob,
              GiveUp, EnforceLimit, Upload, Restore, JobFails, Asking, Working
<1> QED BY <1>1, <1>2 DEF BackupNext

\* Where a task goes keeps what it remembers, and may need no more.
LEMMA TaskAt ==
    ASSUME TypeOK
    PROVE  /\ \A pc \in PCs : Goto(pc) => /\ task'.pc = pc /\ task'.run = task.run
                                          /\ task'.prev = task.prev
           /\ NoTask.pc = "idle" /\ NoTask.prev = "stopped"
           /\ \A s : SetStatus(s) =>
                 /\ row'.status = s /\ row'.archived = row.archived
                 /\ row'.snap = row.snap /\ row'.built = row.built
BY DEF TypeOK, Goto, SetStatus, TaskStates, Rows, NoTask

\* The status follows the task.
LEMMA TaskRowOf ==
    ASSUME TypeOK, Promise, TaskStep \/ AcceptArchive \/ AcceptUnarchive, ~spoiled'
    PROVE  RowOf'
<1>0. row \in Rows /\ task \in TaskStates
  BY DEF TypeOK
<1>1. CASE AcceptArchive
  <2>1. /\ task'.pc = "accepted" /\ task'.prev = row.status /\ row' = row
    BY <1>1, <1>0 DEF AcceptArchive, NoTask
  <2> QED BY <1>1, <2>1 DEF AcceptArchive, Promise, RowOf, At, Before, Fetching
<1>2. CASE AcceptUnarchive
  <2>1. /\ task'.pc = "fetch" /\ task'.prev = "stopped"
        /\ row'.status = "restoring" /\ row'.archived = row.archived
        /\ row'.snap = row.snap
    BY <1>2, TaskAt DEF AcceptUnarchive, NoTask
  <2> QED BY <1>2, <2>1 DEF AcceptUnarchive, RowOf, At, Before, Fetching
<1>3. CASE MarkArchiving
  <2>1. /\ task'.pc = "stop" /\ task'.prev = task.prev
        /\ row'.status = "archiving" /\ row'.archived = row.archived
        /\ row'.snap = row.snap
    BY <1>3, TaskAt DEF MarkArchiving, PCs
  <2> QED BY <1>3, <2>1 DEF MarkArchiving, Promise, RowOf, At, Before, Fetching
<1>4. CASE StopForArchive \/ AskSnapshot \/ SnapshotAsked \/ AwaitSnapshot
  <2>1. /\ task.pc \in Before /\ task'.pc \in Before \cup {"commit"}
        /\ task'.prev = task.prev
    BY <1>0, <1>4, TaskAt
       DEF StopForArchive, AskSnapshot, SnapshotAsked, AwaitSnapshot, Waits,
           Before, PCs, At, TaskStates
  <2>2. /\ row'.status = row.status /\ row'.archived = row.archived
        /\ row'.snap = row.snap
    BY <1>0, <1>4
       DEF StopForArchive, AskSnapshot, SnapshotAsked, AwaitSnapshot, Waits, Rows
  <2> QED BY <2>1, <2>2 DEF Promise, RowOf, At, Before, Fetching
<1>5. CASE Commit
  <2>1. /\ task'.pc = "wipe" /\ task'.prev = task.prev
        /\ row'.status = row.status /\ row'.archived = row.archived
        /\ row'.snap = task.run
    BY <1>0, <1>5, TaskAt DEF Commit, PCs, Rows
  <2>2. task.pc = "commit" /\ task.run # 0
    BY <1>5 DEF Commit, At, Promise, Snapshots
  <2> QED BY <2>1, <2>2 DEF Promise, RowOf, At, Before, Fetching
<1>6. CASE Wipe
  <2>1. row.snap # 0 /\ task.pc = "wipe" /\ row' = row
    BY <1>6 DEF Wipe, At, Promise, RowOf
  <2>2. task'.pc \in {"settle", "idle"} /\ task'.prev = task.prev
    BY <1>6, <2>1, TaskAt DEF Wipe, PCs
  <2> QED BY <2>1, <2>2 DEF Promise, RowOf, At, Before, Fetching
<1>7. CASE SettleArchive
  <2>1. /\ row'.status = "archived" /\ row'.archived = TRUE
        /\ task'.pc = "idle" /\ task'.prev = "stopped"
    BY <1>0, <1>7, TaskAt DEF SettleArchive, Rows
  <2> QED BY <2>1 DEF RowOf, At, Before, Fetching
<1>8. CASE UndoArchive
  <2>1. /\ task.pc = "undo" /\ task'.pc = "idle" /\ task'.prev = "stopped"
    BY <1>8, TaskAt DEF UndoArchive, At
  <2>2. row.status = "archiving" /\ ~row.archived /\ row.snap = 0
    BY <2>1 DEF Promise, RowOf, Before
  <2>3. /\ row'.status \in {"running", "stopped", "error"}
        /\ row'.archived = row.archived /\ row'.snap = row.snap
    BY <1>8, <2>2, TaskAt DEF UndoArchive, Promise, RowOf
  <2> QED BY <2>1, <2>2, <2>3 DEF RowOf, At, Before, Fetching
<1>9. CASE FetchArchive \/ RestoreAsked \/ AwaitRestore
  <2>1. /\ task.pc \in Fetching
        /\ task'.pc \in {"sentBack", "waitBack", "rebuild", "reseal"}
        /\ task'.prev = task.prev /\ row' = row
    BY <1>0, <1>9, TaskAt
       DEF FetchArchive, RestoreAsked, AwaitRestore, Waits, Fetching, PCs, At,
           TaskStates
  <2> QED BY <2>1 DEF Promise, RowOf, At, Before, Fetching
<1>10. CASE Rebuild
  <2>1. /\ task.pc = "rebuild" /\ task'.pc = "create" /\ task'.prev = task.prev
        /\ row'.status = "creating" /\ row'.archived = row.archived
    BY <1>10, TaskAt DEF Rebuild, At, PCs
  <2> QED BY <2>1 DEF Promise, RowOf, At, Before, Fetching
<1>11. CASE Create
  <2>1. /\ task.pc = "create" /\ task'.prev = task.prev
        /\ \/ task'.pc = "clear" /\ row'.status = "stopped"
           \/ task'.pc = "reseal" /\ row'.status = "error"
        /\ row'.archived = row.archived
    BY <1>0, <1>11, TaskAt DEF Create, At, PCs, Rows
  <2> QED BY <2>1 DEF Promise, RowOf, At, Before, Fetching
<1>12. CASE ClearPointers
  <2>1. /\ row'.status = "stopped" /\ row'.archived = FALSE /\ row'.snap = 0
        /\ task'.pc = "idle" /\ task'.prev = "stopped"
    BY <1>0, <1>12, TaskAt DEF ClearPointers, Rows
  <2> QED BY <2>1 DEF RowOf, At, Before, Fetching
<1>13. CASE Reseal
  <2>1. task.pc = "reseal" /\ row.archived
    BY <1>13 DEF Reseal, At, Promise, RowOf
  <2>2. /\ row'.status = "archived" /\ row'.archived = row.archived
        /\ task'.pc = "idle" /\ task'.prev = "stopped"
    BY <1>13, <2>1, TaskAt DEF Reseal
  <2> QED BY <2>1, <2>2 DEF RowOf, At, Before, Fetching
<1> QED BY <1>1, <1>2, <1>3, <1>4, <1>5, <1>6, <1>7, <1>8, <1>9, <1>10, <1>11,
           <1>12, <1>13 DEF TaskStep

\* A task starts no server.
LEMMA TaskDown ==
    ASSUME TypeOK, Promise, TaskStep \/ AcceptArchive \/ AcceptUnarchive, ~spoiled'
    PROVE  Down'
<1>0. row \in Rows /\ task \in TaskStates
  BY DEF TypeOK
<1>1. CASE AcceptArchive
  <2>1. task'.pc = "accepted" /\ row' = row /\ up' = up
    BY <1>1, <1>0 DEF AcceptArchive, NoTask, backupVars
  <2> QED BY <2>1 DEF Promise, Down, Bare, At
<1>2. CASE AcceptUnarchive
  <2>1. /\ row'.built = row.built /\ up' = up /\ row.status = "archived"
    BY <1>2, TaskAt DEF AcceptUnarchive, backupVars
  <2> QED BY <2>1 DEF Promise, Down, Bare
<1>3. CASE MarkArchiving \/ Commit \/ SnapshotAsked
  <2>1. /\ task'.pc \in {"stop", "wipe", "wait", "undo"}
        /\ row'.status = "archiving"
    BY <1>3, <1>0, TaskAt DEF MarkArchiving, Commit, SnapshotAsked, PCs, Rows,
                             Promise, RowOf, At, Before
  <2> QED BY <2>1 DEF Down, Bare, At
<1>4. CASE StopForArchive \/ AskSnapshot \/ AwaitSnapshot \/ Wipe
  <2>1. /\ task'.pc \in {"ask", "undo", "sent", "commit", "settle", "idle"}
        /\ row' = row /\ row.status = "archiving"
    BY <1>4, <1>0, TaskAt DEF StopForArchive, AskSnapshot, AwaitSnapshot, Waits,
          Wipe, PCs, TaskStates, Promise, RowOf, At, Before
  <2> QED BY <2>1 DEF Down, Bare, At
<1>5. CASE SettleArchive
  <2>1. task.pc = "settle"
    BY <1>5 DEF SettleArchive, At
  <2>2. row.status = "archiving" /\ row.snap # 0
    BY <2>1 DEF Promise, RowOf
  <2>3. ~up
    BY <2>2 DEF Promise, Sealed, Committed
  <2>4. row'.built = FALSE /\ up' = up
    BY <1>5, <1>0 DEF SettleArchive, Rows, backupVars
  <2> QED BY <2>3, <2>4 DEF Down
<1>6. CASE UndoArchive
  <2>1. row.status = "archiving" /\ task'.pc = "idle"
    BY <1>6, TaskAt DEF UndoArchive, At, Promise, RowOf, Before
  <2>2. row'.status \in {"running", "stopped", "error"}
    BY <1>6, <2>1, TaskAt DEF UndoArchive, Promise, RowOf
  <2> QED BY <2>1, <2>2 DEF Down, Bare, At
<1>7. CASE FetchArchive \/ RestoreAsked \/ AwaitRestore \/ Rebuild
  <2>1. row.status = "restoring" /\ up' = up /\ row'.built = row.built
    BY <1>7, TaskAt DEF FetchArchive, RestoreAsked, AwaitRestore, Waits, Rebuild,
          At, Promise, RowOf, Fetching, backupVars
  <2> QED BY <2>1 DEF Promise, Down, Bare
<1>8. CASE Create
  <2>1. row.status = "creating" /\ up' = up
    BY <1>8 DEF Create, Promise, RowOf, At
  <2>2. \/ row'.status = "stopped" /\ task'.pc = "clear"
        \/ row'.built = row.built
    BY <1>8, <1>0, TaskAt DEF Create, PCs, Rows
  <2> QED BY <2>1, <2>2 DEF Promise, Down, Bare, At
<1>9. CASE ClearPointers
  <2>1. row'.status = "stopped" /\ task'.pc = "idle"
    BY <1>9, <1>0, TaskAt DEF ClearPointers, Rows
  <2> QED BY <2>1 DEF Down, Bare, At
<1>10. CASE Reseal
  <2>1. /\ task.pc = "reseal" /\ up' = up /\ row'.built = row.built
    BY <1>10, TaskAt DEF Reseal, At, backupVars
  <2> QED BY <2>1 DEF Promise, Down, Bare, At
<1> QED BY <1>1, <1>2, <1>3, <1>4, <1>5, <1>6, <1>7, <1>8, <1>9, <1>10
        DEF TaskStep

\* The task asks for a snapshot of a server at rest and waits for it alone.
LEMMA TaskSnapshots ==
    ASSUME TypeOK, Bookkeeping, Promise, RowOf',
           TaskStep \/ AcceptArchive \/ AcceptUnarchive, ~spoiled'
    PROVE  Snapshots'
<1>0. /\ row \in Rows /\ task \in TaskStates
      /\ run \in [Runs -> RunRows] /\ job \in [Runs -> JobStates]
  BY DEF TypeOK, BackupTypeOK
<1>1. CASE task'.pc \notin {"ask", "sent", "wait", "commit"}
  BY <1>1 DEF Snapshots, Before, At
<1>2. CASE StopForArchive /\ task'.pc \in {"ask", "sent", "wait", "commit"}
  <2>1. task'.pc = "ask" /\ ~up'
    BY <1>2, TaskAt DEF StopForArchive, PCs
  <2> QED BY <2>1 DEF Snapshots, Before, At
<1>3. CASE AskSnapshot /\ task'.pc \in {"ask", "sent", "wait", "commit"}
  <2>1. /\ task.pc = "ask" /\ up' = up /\ ~HasActiveRun
        /\ CreateRun("backup", 0, "send")
        /\ task' = [task EXCEPT !.pc = "sent", !.run = used + 1]
        /\ UNCHANGED jobVars
    BY <1>3, TaskAt DEF AskSnapshot, At, PCs
  <2>2. 0 \in 0..MaxRuns
    BY BackupAssumption
  <2>3. PICK r : r = used + 1
    OBVIOUS
  <2>4. /\ r \in Runs /\ used' = r
        /\ run'[r] = [kind |-> "backup", status |-> "pending",
                      known |-> FALSE, snap |-> 0]
        /\ \A n \in Runs \ {r} : run'[n] = run[n]
    BY <2>1, <2>2, <2>3, RunCreated
  <2>5. task'.pc = "sent" /\ task'.run = r
    BY <1>0, <2>1, <2>3 DEF TaskStates
  <2>6. job'[r].phase = "none"
    <3>1. r > used
      BY <2>3 DEF TypeOK, BackupTypeOK
    <3> QED BY <2>1, <2>4, <3>1 DEF Bookkeeping, Unused, jobVars, NoJob
  <2>7. run'[r].kind = "backup" /\ run'[r].status = "pending"
    BY <2>4
  <2>8. \A n \in Runs \ {r} : ~Active(n)'
    BY <2>1, <2>4 DEF HasActiveRun, Active
  <2>9. r \in 1..used'
    BY <2>4, BackupAssumption DEF Runs
  <2>10. ~up'
    BY <2>1 DEF Promise, Snapshots, Before
  <2> QED BY <2>5, <2>6, <2>7, <2>8, <2>9, <2>10 DEF Snapshots, Sole, Before, At
<1>4. CASE SnapshotAsked /\ task'.pc \in {"ask", "sent", "wait", "commit"}
  <2>1. task.pc = "sent" /\ task'.pc = "wait" /\ task'.run = task.run
    BY <1>4, TaskAt DEF SnapshotAsked, At, PCs
  <2>2. UNCHANGED <<run, used, job, repo, whole, up>>
    BY <1>4 DEF SnapshotAsked, backupVars, rowVars, jobVars
  <2> QED BY <2>1, <2>2
          DEF Promise, Snapshots, Sole, Quiet, Active, Working, Before
<1>5. CASE AwaitSnapshot /\ task'.pc \in {"ask", "sent", "wait", "commit"}
  <2>1. /\ task.pc = "wait" /\ task'.pc = "commit" /\ task'.run = task.run
        /\ run[task.run].kind # "none" /\ run[task.run].status = "succeeded"
    BY <1>5, TaskAt DEF AwaitSnapshot, Waits, At, PCs
  <2>2. UNCHANGED <<run, used, job, repo, whole, up>>
    BY <1>5 DEF AwaitSnapshot, Waits, rowVars, jobVars
  <2>3. /\ task.run \in 1..used /\ ~up /\ task.run \in repo \cap whole /\ Quiet
    BY <2>1 DEF Promise, Snapshots, Before
  <2>4. Quiet' /\ task.run # 0
    BY <2>2, <2>3 DEF Quiet, Active, Working, TypeOK, BackupTypeOK
  <2> QED BY <2>1, <2>2, <2>3, <2>4 DEF Snapshots, Before
<1>6. CASE ~(StopForArchive \/ AskSnapshot \/ SnapshotAsked \/ AwaitSnapshot)
  <2>1. task'.pc \in {"accepted", "stop", "wipe", "settle", "idle", "undo",
                      "fetch", "sentBack", "waitBack", "rebuild", "create",
                      "clear", "reseal"}
    BY <1>0, <1>6, TaskAt
       DEF TaskStep, AcceptArchive, AcceptUnarchive, MarkArchiving, Commit, Wipe,
           SettleArchive, UndoArchive, FetchArchive, RestoreAsked, AwaitRestore,
           Waits, Rebuild, Create, ClearPointers, Reseal, PCs, TaskStates, NoTask
  <2> QED BY <1>1, <2>1
<1> QED BY <1>1, <1>2, <1>3, <1>4, <1>5, <1>6

\* What a step of the task leaves of the runs and of the repository.
LEMMA TaskKeeps ==
    ASSUME TypeOK, TaskStep \/ AcceptArchive \/ AcceptUnarchive
    PROVE  /\ UNCHANGED <<job, evicted, repo, whole>>
           /\ ~(AskSnapshot \/ FetchArchive) => UNCHANGED <<run, used, call>>
           /\ ~Wipe => files' = files
           /\ ~(Wipe \/ StopForArchive) => up' = up
           /\ (AskSnapshot \/ FetchArchive) => row' = row
BY DEF TaskStep, MarkArchiving, StopForArchive, AskSnapshot, SnapshotAsked,
       AwaitSnapshot, Waits, Commit, Wipe, SettleArchive, UndoArchive,
       FetchArchive, RestoreAsked, AwaitRestore, Rebuild, Create, ClearPointers,
       Reseal, AcceptArchive, AcceptUnarchive, backupVars, rowVars, jobVars

\* A step of the task commits only a stored snapshot of a server at rest, and
\* after it nothing moves.
LEMMA TaskSealed ==
    ASSUME TypeOK, Bookkeeping, Promise,
           TaskStep \/ AcceptArchive \/ AcceptUnarchive, ~spoiled'
    PROVE  Sealed' /\ Wiped'
<1>0. row \in Rows /\ task \in TaskStates
  BY DEF TypeOK
<1>1. CASE Commit
  <2>1. /\ row'.snap = task.run /\ task'.pc = "wipe" /\ task.pc = "commit"
    BY <1>1, <1>0, TaskAt DEF Commit, PCs, Rows, At
  <2>2. task.run \in repo \cap whole /\ Quiet /\ ~up
    BY <2>1 DEF Promise, Snapshots, Before
  <2>3. UNCHANGED <<run, job, repo, whole, up>>
    BY <1>1 DEF Commit, backupVars, rowVars, jobVars
  <2>4. Quiet'
    BY <2>2, <2>3 DEF Quiet, Active, Working
  <2> QED BY <2>1, <2>2, <2>3, <2>4 DEF Sealed, Stored, Wiped, At
<1>2. CASE Wipe
  <2>1. /\ row' = row /\ row.snap # 0 /\ row.status = "archiving"
    BY <1>2 DEF Wipe, Promise, RowOf, At
  <2>2. Stored /\ Quiet /\ ~up
    BY <2>1 DEF Promise, Sealed, Committed
  <2>3. UNCHANGED <<run, job, repo, whole>> /\ (~up' \/ up' = up)
    BY <1>2 DEF Wipe, rowVars
  <2>4. Quiet' /\ Stored'
    BY <2>1, <2>2, <2>3 DEF Quiet, Active, Working, Stored
  <2>5. task'.pc = "settle" => ~files'
    BY <1>2, TaskAt DEF Wipe, PCs
  <2> QED BY <2>2, <2>3, <2>4, <2>5 DEF Sealed, Wiped, At
<1>3. CASE ~(Commit \/ Wipe)
  <2>1. ~Committed'
    <3>1. CASE MarkArchiving \/ StopForArchive \/ AskSnapshot \/ SnapshotAsked
               \/ AwaitSnapshot
      <4>1. row.snap = 0 /\ row'.snap = row.snap
        BY <1>0, <3>1, TaskAt
           DEF MarkArchiving, StopForArchive, AskSnapshot, SnapshotAsked,
               AwaitSnapshot, Waits, Promise, RowOf, At, Before, Rows
      <4> QED BY <4>1 DEF Committed
    <3>2. CASE SettleArchive \/ Rebuild \/ Create \/ ClearPointers
               \/ AcceptUnarchive
      <4>1. CASE SettleArchive \/ Create \/ ClearPointers
        <5>1. row'.status \in {"archived", "stopped", "error"}
          BY <1>0, <4>1, TaskAt DEF SettleArchive, Create, ClearPointers, Rows
        <5> QED BY <5>1 DEF Committed
      <4>2. CASE Rebuild \/ AcceptUnarchive
        <5>1. row'.status \in {"creating", "restoring"}
          BY <4>2, TaskAt DEF Rebuild, AcceptUnarchive
        <5> QED BY <5>1 DEF Committed
      <4> QED BY <3>2, <4>1, <4>2
    <3>4. CASE UndoArchive
      <4>1. row.status = "archiving"
        BY <3>4 DEF UndoArchive, Promise, RowOf, At, Before
      <4>2. row'.status \in {"running", "stopped", "error"}
        BY <3>4, <4>1, TaskAt DEF UndoArchive, Promise, RowOf
      <4> QED BY <4>2 DEF Committed
    <3>5. CASE Reseal
      <4>1. row'.status = "archived"
        BY <3>5, TaskAt DEF Reseal, Promise, RowOf, At
      <4> QED BY <4>1 DEF Committed
    <3>3. CASE AcceptArchive \/ FetchArchive \/ RestoreAsked \/ AwaitRestore
      <4>1. row.status # "archiving" /\ row' = row
        BY <3>3 DEF AcceptArchive, FetchArchive, RestoreAsked, AwaitRestore, Waits,
                    Promise, RowOf, At, Fetching
      <4> QED BY <4>1 DEF Committed
    <3> QED BY <1>3, <3>1, <3>2, <3>3, <3>4, <3>5 DEF TaskStep
  <2>2. task'.pc # "settle"
    BY <1>0, <1>3, TaskAt
       DEF TaskStep, AcceptArchive, AcceptUnarchive, MarkArchiving, StopForArchive,
           AskSnapshot, SnapshotAsked, AwaitSnapshot, SettleArchive, UndoArchive,
           FetchArchive, RestoreAsked, AwaitRestore, Waits, Rebuild, Create,
           ClearPointers, Reseal, PCs, TaskStates, NoTask
  <2> QED BY <2>1, <2>2 DEF Sealed, Wiped, At
<1> QED BY <1>1, <1>2, <1>3

\* Only a task with a stored snapshot takes the files away, and it ends archived.
LEMMA TaskArchived ==
    ASSUME TypeOK, Bookkeeping, Promise, Sealed',
           TaskStep \/ AcceptArchive \/ AcceptUnarchive, ~spoiled'
    PROVE  Archived'
<1>0. /\ row \in Rows /\ task \in TaskStates
      /\ run \in [Runs -> RunRows] /\ job \in [Runs -> JobStates]
  BY DEF TypeOK, BackupTypeOK
<1>1. CASE files'
  BY <1>1 DEF Archived
<1>2. CASE Wipe /\ ~files'
  <2>1. /\ row' = row /\ row.snap # 0 /\ row.status = "archiving"
    BY <1>2 DEF Wipe, Promise, RowOf, At
  <2> QED BY <2>1 DEF Sealed, Committed, Archived
<1>3. CASE SettleArchive /\ ~files'
  <2>1. row.status = "archiving" /\ row.snap # 0
    BY <1>3 DEF SettleArchive, Promise, RowOf, At
  <2>2. Stored /\ Quiet
    BY <2>1 DEF Promise, Sealed, Committed
  <2>3. /\ row'.status = "archived" /\ row'.archived = TRUE
        /\ row'.snap = row.snap /\ task'.pc = "idle"
        /\ UNCHANGED <<run, job, repo, whole>>
    BY <1>0, <1>3, TaskAt DEF SettleArchive, Rows, backupVars, rowVars, jobVars
  <2>4. Stored' /\ NoBackup'
    BY <2>2, <2>3 DEF Stored, Quiet, NoBackup, Active, Working
  <2> QED BY <2>3, <2>4 DEF Archived
<1>4. CASE ~(Wipe \/ SettleArchive) /\ ~files'
  <2>1. ~files /\ UNCHANGED <<job, repo, whole>>
    BY <1>4, TaskKeeps
  <2>2. Stored /\ row.snap # 0
    <3>1. row.snap \in Runs
      BY <2>1 DEF Promise, Archived, Stored, TypeOK, BackupTypeOK
    <3> QED BY <2>1, <3>1 DEF Promise, Archived, Runs
  <2>3. /\ row.archived /\ row.status \in {"archived", "restoring"}
        /\ task.pc \in Fetching \cup {"idle", "reseal"} /\ NoBackup
    <3>1. CASE Committed
      <4>1. row.status = "archiving" /\ row.snap # 0
        BY <3>1 DEF Committed
      <4>2. task.pc \in {"idle", "wipe", "settle"}
        BY <1>0, <4>1 DEF Promise, RowOf, At, Before, Fetching, TaskStates, PCs,
                          Snapshots
      <4> QED BY <1>4, <4>1, <4>2
              DEF TaskStep, AcceptArchive, AcceptUnarchive, MarkArchiving,
                  StopForArchive, AskSnapshot, SnapshotAsked, AwaitSnapshot, Commit,
                  UndoArchive, FetchArchive, RestoreAsked, AwaitRestore, Waits,
                  Rebuild, Create, ClearPointers, Reseal, At
    <3> QED BY <2>1, <3>1 DEF Promise, Archived
  <2>4. CASE AcceptUnarchive
    <3>1. /\ row'.status = "restoring" /\ row'.archived = row.archived
          /\ row'.snap = row.snap /\ task'.pc = "fetch" /\ run' = run
      BY <2>4, TaskAt DEF AcceptUnarchive, NoTask, backupVars, rowVars
    <3>2. NoBackup'
      BY <2>1, <2>3, <3>1 DEF NoBackup, Active, Working
    <3> QED BY <2>1, <2>2, <2>3, <3>1, <3>2 DEF Archived, Stored, Fetching
  <2>5. CASE FetchArchive
    <3>1. row' = row /\ task'.pc \in {"reseal", "sentBack"}
      BY <1>0, <2>5, TaskAt DEF FetchArchive, PCs, TaskStates
    <3>2. NoBackup'
      <4>1. CASE HasActiveRun
        <5>1. run' = run
          BY <2>5, <4>1 DEF FetchArchive, rowVars
        <5> QED BY <2>1, <2>3, <5>1 DEF NoBackup, Active, Working
      <4>2. CASE ~HasActiveRun
        <5>1. CreateRun("restore", row.snap, "send") /\ row.snap \in 0..MaxRuns
          BY <1>0, <2>5, <4>2 DEF FetchArchive, Rows
        <5>2. PICK r : r = used + 1
          OBVIOUS
        <5>3. /\ run'[r] = [kind |-> "restore", status |-> "pending",
                            known |-> FALSE, snap |-> row.snap]
              /\ \A n \in Runs \ {r} : run'[n] = run[n]
          BY <5>1, <5>2, RunCreated
        <5>4. run'[r].kind = "restore"
          BY <5>3
        <5> QED BY <2>1, <2>3, <5>3, <5>4 DEF NoBackup, Active, Working
      <4> QED BY <4>1, <4>2
    <3> QED BY <2>1, <2>2, <2>3, <3>1, <3>2 DEF Archived, Stored, Fetching
  <2>6. CASE RestoreAsked \/ AwaitRestore
    <3>1. row' = row /\ run' = run
      BY <2>6 DEF RestoreAsked, AwaitRestore, Waits, backupVars, rowVars
    <3>2. task'.pc \in {"waitBack", "reseal", "rebuild"}
      BY <2>6, TaskAt DEF RestoreAsked, AwaitRestore, Waits, PCs
    <3>3. task'.pc # "rebuild"
      <4>1. SUFFICES ASSUME task'.pc = "rebuild" PROVE FALSE
        OBVIOUS
      <4>2. /\ task.pc = "waitBack"
            /\ run[task.run].kind # "none" /\ run[task.run].status = "succeeded"
        BY <2>6, <4>1, TaskAt DEF RestoreAsked, AwaitRestore, Waits, At, PCs
      <4> QED BY <2>1, <4>2 DEF Promise, Restores
    <3>4. NoBackup'
      BY <2>1, <2>3, <3>1 DEF NoBackup, Active, Working
    <3> QED BY <2>1, <2>2, <2>3, <3>1, <3>2, <3>3, <3>4 DEF Archived, Stored, Fetching
  <2>7. CASE Reseal
    <3>1. /\ row'.status = "archived" /\ row'.archived = row.archived
          /\ row'.snap = row.snap /\ task'.pc = "idle" /\ run' = run
      BY <2>3, <2>7, TaskAt DEF Reseal, backupVars, rowVars
    <3>2. NoBackup'
      BY <2>1, <2>3, <3>1 DEF NoBackup, Active, Working
    <3> QED BY <2>1, <2>2, <2>3, <3>1, <3>2 DEF Archived, Stored
  <2>8. CASE ~(AcceptUnarchive \/ FetchArchive \/ RestoreAsked \/ AwaitRestore
               \/ Reseal)
    BY <1>4, <2>3, <2>8
       DEF TaskStep, AcceptArchive, MarkArchiving, StopForArchive, AskSnapshot,
           SnapshotAsked, AwaitSnapshot, Waits, Commit, UndoArchive, Rebuild,
           Create, ClearPointers, At, Fetching
  <2> QED BY <2>4, <2>5, <2>6, <2>7, <2>8
<1> QED BY <1>1, <1>2, <1>3, <1>4

\* The rebuild begins only when the files are back.
LEMMA TaskRestores ==
    ASSUME TypeOK, Bookkeeping, Promise,
           TaskStep \/ AcceptArchive \/ AcceptUnarchive, ~spoiled'
    PROVE  Restores'
<1>0. /\ row \in Rows /\ task \in TaskStates
      /\ run \in [Runs -> RunRows] /\ job \in [Runs -> JobStates]
  BY DEF TypeOK, BackupTypeOK
<1>1. CASE task'.pc \notin {"sentBack", "waitBack", "rebuild", "create", "clear"}
  BY <1>1 DEF Restores
<1>2. CASE FetchArchive /\ task'.pc \in {"sentBack", "waitBack", "rebuild",
                                        "create", "clear"}
  <2>1. /\ task.pc = "fetch" /\ row' = row /\ ~HasActiveRun
        /\ CreateRun("restore", row.snap, "send") /\ row.snap \in 0..MaxRuns
        /\ task' = [task EXCEPT !.pc = "sentBack", !.run = used + 1]
        /\ UNCHANGED jobVars
    BY <1>0, <1>2, TaskAt DEF FetchArchive, At, PCs, Rows
  <2>2. PICK r : r = used + 1
    OBVIOUS
  <2>3. /\ r \in Runs /\ used' = r
        /\ run'[r] = [kind |-> "restore", status |-> "pending",
                      known |-> FALSE, snap |-> row.snap]
    BY <2>1, <2>2, RunCreated
  <2>4. /\ run'[r].kind = "restore" /\ run'[r].status = "pending"
        /\ run'[r].snap = row.snap
    BY <2>3
  <2>5. job'[r].phase = "none"
    <3>1. r > used
      BY <2>2 DEF TypeOK, BackupTypeOK
    <3> QED BY <2>1, <2>3, <3>1 DEF Bookkeeping, Unused, jobVars, NoJob
  <2>6. task'.pc = "sentBack" /\ task'.run = r
    BY <1>0, <2>1, <2>2 DEF TaskStates
  <2>7. r \in 1..used'
    BY <2>3, BackupAssumption DEF Runs
  <2> QED BY <2>1, <2>4, <2>5, <2>6, <2>7 DEF Restores
<1>3. CASE RestoreAsked \/ AwaitRestore
  <2>1. /\ task.pc \in {"sentBack", "waitBack"} /\ task'.run = task.run
        /\ task'.pc \in {"waitBack", "rebuild", "reseal"}
        /\ task'.pc = "rebuild" => /\ task.pc = "waitBack"
                                   /\ run[task.run].kind # "none"
                                   /\ run[task.run].status = "succeeded"
    BY <1>3, TaskAt DEF RestoreAsked, AwaitRestore, Waits, At, PCs
  <2>2. UNCHANGED <<run, used, job, files, row>>
    BY <1>3 DEF RestoreAsked, AwaitRestore, Waits, backupVars, rowVars, jobVars
  <2> QED BY <2>1, <2>2 DEF Promise, Restores
<1>4. CASE Rebuild \/ Create
  <2>1. /\ task.pc \in {"rebuild", "create"} /\ files' = files
        /\ task'.pc \in {"create", "clear", "reseal"}
    BY <1>4, TaskAt DEF Rebuild, Create, At, PCs, backupVars, jobVars
  <2> QED BY <2>1 DEF Promise, Restores
<1>5. CASE ~(FetchArchive \/ RestoreAsked \/ AwaitRestore \/ Rebuild \/ Create)
  <2>1. task'.pc \in {"accepted", "stop", "ask", "sent", "wait", "commit", "wipe",
                      "settle", "idle", "undo", "fetch"}
    BY <1>0, <1>5, TaskAt
       DEF TaskStep, AcceptArchive, AcceptUnarchive, MarkArchiving, StopForArchive,
           AskSnapshot, SnapshotAsked, AwaitSnapshot, Waits, Commit, Wipe,
           SettleArchive, UndoArchive, ClearPointers, Reseal, PCs, TaskStates,
           NoTask
  <2> QED BY <1>1, <2>1
<1> QED BY <1>1, <1>2, <1>3, <1>4, <1>5

\* All of it, for the steps of a task.
LEMMA TaskPromise ==
    ASSUME TypeOK, Bookkeeping, Promise,
           TaskStep \/ AcceptArchive \/ AcceptUnarchive, ~spoiled'
    PROVE  Promise'
BY TaskRowOf, TaskDown, TaskSnapshots, TaskSealed, TaskArchived, TaskRestores
   DEF Promise

\* What an owner may ask for is not asked of a server on its way to or from the
\* archive.
LEMMA OwnerPromise ==
    ASSUME TypeOK, Bookkeeping, Promise, ~spoiled',
           Power \/ RequestBackup \/ \E n \in Runs : RequestRestore(n)
    PROVE  Promise'
<1>0. row \in Rows /\ task \in TaskStates
  BY DEF TypeOK
<1>1. /\ NotArchived /\ task' = task /\ UNCHANGED jobVars
      /\ row'.archived = row.archived /\ row'.snap = row.snap
      /\ row'.built = row.built
      /\ \/ row' = row /\ up' = up
         \/ row'.status \in {"running", "stopped"} /\ row.built
            /\ row.status # "creating"
  BY <1>0, TaskAt DEF Power, RequestBackup, RequestRestore, archiveVars
<1>2. row.status \notin {"archiving", "archived", "restoring"}
  BY <1>1 DEF NotArchived
<1>3. /\ task.pc \in {"idle", "accepted", "rebuild", "create", "clear", "reseal"}
      /\ task.pc # "rebuild"
  BY <1>0, <1>2 DEF Promise, RowOf, Snapshots, At, Before, Fetching, TaskStates, PCs
<1>4. RowOf'
  BY <1>1, <1>2, <1>3 DEF Promise, RowOf, At, Before, Fetching
<1>5. Down'
  BY <1>1, <1>2 DEF Promise, Down, Bare, At
<1>6. Snapshots' /\ Wiped'
  BY <1>1, <1>3 DEF Snapshots, Wiped, At, Before
<1>7. Sealed'
  BY <1>1, <1>2 DEF Sealed, Committed
<1>8. Archived'
  BY <1>1, <1>2 DEF Promise, Archived, Committed, jobVars
<1>9. Restores'
  BY <1>1, <1>3 DEF Promise, Restores, jobVars
<1> QED BY <1>4, <1>5, <1>6, <1>7, <1>8, <1>9 DEF Promise

\* A restore that stops the server finds it up only outside the archive.
LEMMA StopPromise ==
    ASSUME TypeOK, Bookkeeping, Promise, ~spoiled', NEW n \in Runs, StopForRestore(n)
    PROVE  Promise'
<1>0. row \in Rows /\ task \in TaskStates
  BY DEF TypeOK
<1>1. /\ UNCHANGED <<run, used, jobVars, task>> /\ ~up'
      /\ row'.archived = row.archived /\ row'.snap = row.snap
      /\ row'.built = row.built
      /\ \/ row' = row
         \/ up /\ row'.status = "stopped" /\ row.status # "archiving"
  BY <1>0, TaskAt DEF StopForRestore
<1>2. Active(n)
  BY ActiveRows DEF StopForRestore, Asking
<1>3. row' # row =>
         /\ row'.status = "stopped"
         /\ row.status \in {"running", "stopped", "error"}
         /\ task.pc \in {"idle", "accepted", "clear"}
  <2>1. SUFFICES ASSUME row' # row
                 PROVE  /\ row'.status = "stopped"
                        /\ row.status \in {"running", "stopped", "error"}
                        /\ task.pc \in {"idle", "accepted", "clear"}
    OBVIOUS
  <2>2. row'.status = "stopped" /\ row.status # "archiving" /\ ~Bare
    BY <1>1, <2>1 DEF Promise, Down
  <2>3. row.status \in {"running", "stopped", "error"} /\ task.pc # "reseal"
    BY <1>0, <2>2 DEF Bare, Rows, Statuses, At
  <2>4. task.pc \in {"idle", "accepted", "clear"}
    BY <1>0, <2>3 DEF Promise, RowOf, Snapshots, At, Before, Fetching, TaskStates, PCs
  <2> QED BY <2>2, <2>3, <2>4
<1>4. RowOf'
  BY <1>1, <1>3 DEF Promise, RowOf, At, Before, Fetching
<1>5. Down'
  BY <1>1, <1>3 DEF Promise, Down, Bare, At
<1>6. Snapshots'
  BY <1>1 DEF Promise, Snapshots, Sole, Quiet, Active, Working, Before, jobVars
<1>7. Sealed'
  BY <1>1, <1>2, <1>3 DEF Promise, Sealed, Committed, Quiet
<1>8. Wiped'
  BY <1>1 DEF Promise, Wiped, At, jobVars
<1>9. Archived'
  BY <1>1, <1>2, <1>3
     DEF Promise, Archived, Stored, Committed, NoBackup, Sealed, Quiet, Active,
         Working, jobVars
<1>10. Restores'
  BY <1>1 DEF Promise, Restores, jobVars
<1> QED BY <1>4, <1>5, <1>6, <1>7, <1>8, <1>9, <1>10 DEF Promise

\* A deleted entry takes no snapshot with it that the row or the task names.
LEMMA EntryPromise ==
    ASSUME TypeOK, Bookkeeping, Promise, ~spoiled',
           DropEntry \/ \E n \in Runs : DeleteEntry(n)
    PROVE  Promise'
<1>0. row \in Rows /\ task \in TaskStates
  BY DEF TypeOK
<1>1. /\ UNCHANGED <<row, task, used, job, whole, files, up>>
      /\ \A s \in {row.snap, task.run} : s # 0 /\ s \in repo => s \in repo'
      /\ \A m \in Runs : run'[m] = run[m] \/ (run'[m].kind = "none" /\ ~Active(m))
  <2>1. CASE DropEntry
    <3>1. /\ deleting \in Runs /\ ~Active(deleting)
          /\ run' = [run EXCEPT ![deleting] = NoRun] /\ NoRun.kind = "none"
      BY <2>1 DEF DropEntry, TypeOK, Runs, Bookkeeping, DropsEnded, NoRun
    <3> QED BY <2>1, <3>1 DEF DropEntry, jobVars, TypeOK, BackupTypeOK
  <2>2. CASE \E n \in Runs : DeleteEntry(n)
    BY <2>2 DEF DeleteEntry, rowVars
  <2> QED BY <2>1, <2>2
<1>2. \A m \in Runs : /\ Active(m)' <=> Active(m)
                      /\ Active(m) => run'[m] = run[m]
                      /\ Working(m)' <=> Working(m)
  BY <1>1 DEF Active, Working
<1>3. Quiet' <=> Quiet
  BY <1>2 DEF Quiet
<1>4. RowOf' /\ Down' /\ Wiped'
  BY <1>1 DEF Promise, RowOf, Down, Bare, Wiped, At
<1>5. Runs = 1..MaxRuns /\ used \in 0..MaxRuns /\ MaxRuns \in Nat
  BY BackupAssumption DEF TypeOK, BackupTypeOK, Runs
<1>6. Snapshots'
  <2>1. task.pc \in Before \ {"stop", "undo"} => ~up'
    BY <1>1 DEF Promise, Snapshots
  <2>2. task.pc = "commit" =>
           task.run \in repo' \cap whole' /\ Quiet' /\ task.run # 0
    BY <1>1, <1>3 DEF Promise, Snapshots
  <2>3. ASSUME task.pc \in {"sent", "wait"}, NEW r, r = task.run
        PROVE  /\ r \in 1..used' /\ Sole'
               /\ run'[r].kind \in {"none", "backup"}
               /\ job'[r].phase # "none" =>
                     job'[r].from = 0 /\ \A n \in Runs : Working(n)' => n = r
               /\ job'[r].phase = "succeeded" => r \in repo' \cap whole'
               /\ (run'[r].kind = "backup" /\ run'[r].status = "succeeded") =>
                     r \in repo' \cap whole' /\ Quiet' /\ run'[r].snap = r
    <3>1. /\ r \in 1..used /\ r \in Runs /\ r # 0 /\ Sole
          /\ run[r].kind \in {"none", "backup"}
          /\ job[r].phase # "none" =>
                job[r].from = 0 /\ \A n \in Runs : Working(n) => n = r
          /\ job[r].phase = "succeeded" => r \in repo \cap whole
          /\ (run[r].kind = "backup" /\ run[r].status = "succeeded") =>
                r \in repo \cap whole /\ Quiet /\ run[r].snap = r
      BY <1>5, <2>3 DEF Promise, Snapshots
    <3>2. Sole'
      BY <1>1, <1>2, <3>1 DEF Sole
    <3>3. r \in repo => r \in repo'
      BY <1>1, <2>3, <3>1
    <3> QED BY <1>1, <1>2, <1>3, <3>1, <3>2, <3>3
  <2> QED BY <1>1, <2>1, <2>2, <2>3 DEF Snapshots
<1>7. Stored /\ row.snap # 0 => Stored'
  BY <1>1 DEF Stored
<1>8. Sealed'
  BY <1>1, <1>3, <1>7 DEF Promise, Sealed, Committed
<1>9. Archived'
  <2>1. Stored => row.snap # 0
    BY <1>5 DEF Stored, TypeOK, BackupTypeOK
  <2>2. NoBackup => NoBackup'
    BY <1>1, <1>2 DEF NoBackup
  <2> QED BY <1>1, <1>7, <2>1, <2>2 DEF Promise, Archived, Committed
<1>10. Restores'
  <2>1. task.pc \in {"sentBack", "waitBack"} => task.run \in Runs
    BY <1>5 DEF Promise, Restores
  <2> QED BY <1>1, <2>1 DEF Promise, Restores
<1> QED BY <1>4, <1>6, <1>8, <1>9, <1>10 DEF Promise

\* What a boot makes of an interrupted archive.
LEMMA BootPromise ==
    ASSUME TypeOK, Bookkeeping, Promise, ~spoiled', PanelRestarts
    PROVE  Promise'
<1>0. row \in Rows /\ task \in TaskStates
  BY DEF TypeOK
<1>1. /\ UNCHANGED <<run, used, job, evicted, repo, whole, files, up>>
      /\ row' = BootRow
  BY DEF PanelRestarts, jobVars
<1>2. /\ row'.archived = row.archived /\ row'.snap = row.snap
      /\ row'.built = row.built
      /\ row'.status = IF row.status = "creating" THEN "error"
                       ELSE IF row.status = "restoring" /\ row.archived
                       THEN "archived"
                       ELSE IF row.status = "archiving" /\ row.snap = 0
                       THEN "stopped" ELSE row.status
  BY <1>0, <1>1 DEF BootRow, Rows
<1>3. /\ task'.prev = "stopped"
      /\ \/ task'.pc = "wipe" /\ row'.status = "archiving"
         \/ task'.pc = "idle" /\ row'.status # "archiving"
  BY <1>1 DEF PanelRestarts, NoTask
<1>4. row.status = "restoring" => row.archived
  BY <1>0 DEF Promise, RowOf, At, Before, Fetching, TaskStates, PCs, Snapshots
<1>5. row.status = "archiving" => ~row.archived
  BY <1>0 DEF Promise, RowOf, At, Before, Fetching, TaskStates, PCs
<1>6. row.status # "archiving" /\ ~row.archived => row.snap = 0
  BY <1>0 DEF Promise, RowOf, At, Before, Fetching, TaskStates, PCs
<1>7. row.status = "creating" => row.archived
  BY <1>0 DEF Promise, RowOf, At, Before, Fetching, TaskStates, PCs
<1>8. RowOf'
  BY <1>2, <1>3, <1>4, <1>5, <1>6, <1>7 DEF RowOf, At, Before, Fetching
<1>9. Down'
  BY <1>1, <1>2, <1>3 DEF Promise, Down, Bare, At
<1>10. Snapshots' /\ Wiped' /\ Restores'
  BY <1>3 DEF Snapshots, Wiped, Restores, At, Before
<1>11. Quiet' <=> Quiet
  BY <1>1 DEF Quiet, Active, Working
<1>12. Sealed'
  BY <1>1, <1>2, <1>11 DEF Promise, Sealed, Committed, Stored
<1>13. Archived'
  <2>1. NoBackup' <=> NoBackup
    BY <1>1 DEF NoBackup, Active, Working
  <2>2. Stored' <=> Stored
    BY <1>1, <1>2 DEF Stored
  <2>3. Stored => row.snap # 0
    BY BackupAssumption DEF Stored, TypeOK, BackupTypeOK, Runs
  <2> QED BY <1>1, <1>2, <1>3, <2>1, <2>2, <2>3 DEF Promise, Archived, Committed
<1> QED BY <1>8, <1>9, <1>10, <1>12, <1>13 DEF Promise

-----------------------------------------------------------------------------
(* The steps of the backups.                                               *)

\* A step of one run, seen from the run itself and from the others.
LEMMA JobStep ==
    ASSUME TypeOK, Bookkeeping, NEW n \in Runs, BackupStep(n)
    PROVE  /\ used' = used /\ up' = up
           /\ \A m \in Runs \ {n} :
                 /\ job'[m] = job[m]
                 /\ run'[m] = run[m]
                    \/ (run'[m].kind = "none" /\ ~Active(m) /\ ~Active(m)')
           /\ run'[n].kind = run[n].kind
           /\ Active(n)' => Active(n) /\ run'[n].snap = run[n].snap
           /\ Active(n) \/ run'[n] = run[n]
           /\ ~Active(n) => Working(n) /\ job'[n].phase # "none"
           /\ run'[n].status = "succeeded" /\ run'[n].kind # "none" =>
                 \/ run'[n] = run[n] /\ Working(n)
                 \/ /\ Active(n) /\ job' = job /\ job[n].phase = "succeeded"
                    /\ run'[n].snap = IF job[n].from = 0 THEN n ELSE run[n].snap
           /\ run'[n].snap = run[n].snap
              \/ (run'[n].status = "succeeded" /\ job[n].from = 0)
<1>0. /\ run \in [Runs -> RunRows] /\ job \in [Runs -> JobStates]
      /\ call \in [Runs -> CallStates] /\ evicted \in [Runs -> SUBSET Runs]
  BY DEF TypeOK, BackupTypeOK
<1>1. CASE Deliver(n) \/ Refuse(n)
  <2>1. /\ Active(n) /\ used' = used /\ up' = up
        /\ run' = run \/ run' = Failed(n)
        /\ job' = job \/ job' = Started(n)
    BY <1>1, ActiveRows DEF Deliver, Refuse, Asking
  <2>2. \A m \in Runs \ {n} : job'[m] = job[m]
    BY <1>0, <2>1, JobStarted
  <2>3. /\ run'[n].kind = run[n].kind /\ run'[n].snap = run[n].snap
        /\ run'[n].status # "succeeded"
        /\ \A m \in Runs \ {n} : run'[m] = run[m]
    BY <1>0, <2>1, FailedRun DEF Active
  <2> QED BY <2>1, <2>2, <2>3
<1>2. CASE MarkRunAccepted(n)
  <2>1. Active(n) /\ used' = used /\ up' = up /\ job' = job
    BY <1>2, ActiveRows DEF MarkRunAccepted, Asking, jobVars
  <2>2. /\ run'[n].kind = run[n].kind /\ run'[n].snap = run[n].snap
        /\ run'[n].status = "running"
        /\ \A m \in Runs \ {n} : run'[m] = run[m]
    BY <1>0, <1>2 DEF MarkRunAccepted, RunRows
  <2> QED BY <2>1, <2>2
<1>3. CASE FailUnheard(n) \/ GiveUp(n)
  <2>1. /\ Active(n) /\ used' = used /\ up' = up /\ job' = job /\ run' = Failed(n)
    BY <1>3 DEF FailUnheard, GiveUp, jobVars
  <2>2. /\ run'[n].kind = run[n].kind /\ run'[n].snap = run[n].snap
        /\ run'[n].status # "succeeded"
        /\ \A m \in Runs \ {n} : run'[m] = run[m]
    BY <1>0, <2>1, FailedRun DEF Active
  <2> QED BY <2>1, <2>2
<1>4. CASE ReadJob(n)
  <2>1. /\ Active(n) /\ used' = used /\ up' = up /\ job' = job
    BY <1>4 DEF ReadJob, jobVars
  <2>2. \A m \in Runs \ {n} :
           run'[m] = run[m] \/ (run'[m].kind = "none" /\ ~Active(m) /\ ~Active(m)')
    <3>1. \A m \in Runs : run[m].snap \in evicted[n] => run[m].snap # 0
      BY <1>0, BackupAssumption DEF Runs
    <3>2. NoRun.kind = "none"
      BY DEF NoRun
    <3> QED BY <1>4, <3>1, <3>2, ReadRuns DEF Bookkeeping, RunsName, Active
  <2>3. CASE run'[n] = Won(n) /\ job[n].phase = "succeeded"
    <3>1. /\ run'[n].status = "succeeded" /\ run'[n].kind = run[n].kind
          /\ run'[n].snap = IF job[n].from = 0 THEN n ELSE run[n].snap
      BY <2>3, WonRun
    <3>2. ~Active(n)'
      BY <3>1 DEF Active
    <3> QED BY <2>1, <2>2, <2>3, <3>1, <3>2
  <2>4. CASE run' = Failed(n)
    <3>1. /\ run'[n].kind = run[n].kind /\ run'[n].snap = run[n].snap
          /\ run'[n].status # "succeeded"
      BY <1>0, <2>1, <2>4, FailedRun DEF Active
    <3> QED BY <2>1, <2>2, <3>1
  <2> QED BY <1>4, <2>3, <2>4, ReadRuns
<1>5. CASE EnforceLimit(n) \/ Upload(n) \/ Restore(n) \/ JobFails(n)
  <2>1. /\ Working(n) /\ run' = run /\ used' = used /\ up' = up
        /\ job'[n].phase # "none"
        /\ \A m \in Runs \ {n} : job'[m] = job[m]
    BY <1>0, <1>5
       DEF EnforceLimit, Upload, Restore, JobFails, rowVars, Working, JobStates
  <2>2. Active(n)' <=> Active(n)
    BY <2>1 DEF Active
  <2> QED BY <2>1, <2>2 DEF Active
<1> QED BY <1>1, <1>2, <1>3, <1>4, <1>5 DEF BackupStep

\* What it does to the jobs, the repository and the files: nothing, a job is
\* started, or a job of this run goes on.
Starts(n) ==
    /\ Active(n) /\ ~HasRunningJob
    /\ job'[n].from = run[n].snap
    /\ job'[n].phase \in {"limit", "restic"}
    /\ UNCHANGED <<repo, whole, files>>
Evicts(n) ==
    /\ job[n].phase = "limit" /\ job'[n].phase = "restic"
    /\ UNCHANGED <<whole, files>>
Uploads(n) ==
    /\ job[n].from = 0 /\ job'[n].phase = "succeeded"
    /\ repo' = repo \cup {n} /\ whole \subseteq whole' /\ files' = files
    /\ files /\ ~up => n \in whole'
Overlays(n) ==
    /\ job[n].from # 0 /\ job'[n].phase \in {"succeeded", "failed"}
    /\ UNCHANGED <<repo, whole>>
    /\ files' = (files \/ job[n].from \in repo \cap whole)
Fails(n) ==
    /\ job'[n].phase = "failed"
    /\ UNCHANGED <<repo, whole, files>>

\* One of the three happens at every step of a run.
LEMMA JobData ==
    ASSUME TypeOK, Bookkeeping, NEW n \in Runs, BackupStep(n)
    PROVE  \/ UNCHANGED <<job, repo, whole, files>>
           \/ Starts(n)
           \/ /\ Working(n) /\ job'[n].from = job[n].from /\ run' = run
              /\ Evicts(n) \/ Uploads(n) \/ Overlays(n) \/ Fails(n)
<1>0. /\ run \in [Runs -> RunRows] /\ job \in [Runs -> JobStates]
  BY DEF TypeOK, BackupTypeOK
<1>1. CASE Deliver(n) \/ Refuse(n)
  <2>1. Active(n) /\ UNCHANGED <<repo, whole, files>>
        /\ (job' = job \/ (job' = Started(n) /\ ~HasRunningJob))
    BY <1>1, ActiveRows DEF Deliver, Refuse, Asking
  <2> QED BY <1>0, <2>1, JobStarted DEF Starts
<1>2. CASE MarkRunAccepted(n) \/ FailUnheard(n) \/ ReadJob(n) \/ GiveUp(n)
  BY <1>2 DEF MarkRunAccepted, FailUnheard, ReadJob, GiveUp, jobVars
<1>3. CASE EnforceLimit(n)
  BY <1>0, <1>3 DEF EnforceLimit, Evicts, Working, JobStates, rowVars
<1>4. CASE Upload(n)
  BY <1>0, <1>4 DEF Upload, Uploads, Working, JobStates, rowVars
<1>5. CASE Restore(n)
  BY <1>0, <1>5 DEF Restore, Overlays, Working, JobStates, rowVars
<1>6. CASE JobFails(n)
  BY <1>0, <1>6 DEF JobFails, Fails, Working, JobStates, rowVars
<1> QED BY <1>1, <1>2, <1>3, <1>4, <1>5, <1>6 DEF BackupStep

\* While the archive waits for its snapshot.
LEMMA BackupSnapshots ==
    ASSUME TypeOK, Bookkeeping, Promise, NEW n \in Runs, BackupStep(n),
           UNCHANGED archiveVars
    PROVE  Snapshots'
<1>0. /\ row' = row /\ task' = task /\ up' = up /\ used' = used
  BY JobStep DEF archiveVars
<1>1. task.pc = "commit" => task.run \in repo' \cap whole' /\ Quiet' /\ task.run # 0
  BY QuietStays DEF Promise, Snapshots, BackupNext
<1>2. ASSUME task.pc \in {"sent", "wait"}, NEW r, r = task.run
      PROVE  /\ r \in 1..used' /\ Sole'
             /\ run'[r].kind \in {"none", "backup"}
             /\ job'[r].phase # "none" =>
                   job'[r].from = 0 /\ \A m \in Runs : Working(m)' => m = r
             /\ job'[r].phase = "succeeded" => r \in repo' \cap whole'
             /\ (run'[r].kind = "backup" /\ run'[r].status = "succeeded") =>
                   r \in repo' \cap whole' /\ Quiet' /\ run'[r].snap = r
  <2>1. /\ r \in 1..used /\ r \in Runs /\ r # 0 /\ Sole /\ ~up
        /\ run[r].kind \in {"none", "backup"}
        /\ job[r].phase # "none" =>
              job[r].from = 0 /\ \A m \in Runs : Working(m) => m = r
        /\ job[r].phase = "succeeded" => r \in repo \cap whole
        /\ (run[r].kind = "backup" /\ run[r].status = "succeeded") =>
              r \in repo \cap whole /\ Quiet /\ run[r].snap = r
    BY <1>2, BackupAssumption
       DEF Promise, Snapshots, Before, TypeOK, BackupTypeOK, Runs
  <2>2. files
    <3>1. row.status = "archiving" /\ ~row.archived /\ row.snap = 0
      BY <1>2 DEF Promise, RowOf, Before
    <3> QED BY <3>1 DEF Promise, Archived, Committed
  <2>3. Sole'
    BY <1>0, <2>1, JobStep DEF Sole, Active
  <2>4. CASE n # r
    <3>1. Working(n) /\ job[r].phase = "none"
      BY <1>2, <2>1, <2>4, JobStep DEF Sole
    <3>2. ~Quiet
      BY <3>1 DEF Quiet
    <3>3. /\ job'[r] = job[r]
          /\ run'[r] = run[r] \/ run'[r].kind = "none"
      BY <2>1, <2>4, JobStep
    <3> QED BY <1>0, <2>1, <2>3, <3>1, <3>2, <3>3
  <2>5. CASE n = r
    <3>0. /\ \A m \in Runs \ {r} : job'[m] = job[m]
          /\ run'[r].kind = run[r].kind
      BY <2>5, JobStep
    <3>1. /\ job'[r].phase # "none" =>
                job'[r].from = 0 /\ \A m \in Runs : Working(m)' => m = r
          /\ job'[r].phase = "succeeded" => r \in repo' \cap whole'
      <4>1. CASE UNCHANGED <<job, repo, whole, files>>
        BY <2>1, <4>1 DEF Working
      <4>2. CASE Starts(n)
        <5>1. run[r].snap = 0
          BY <2>1, <2>5, <4>2 DEF Starts, Bookkeeping, RunsName, Active
        <5>2. \A m \in Runs \ {r} : ~Working(m)'
          BY <3>0, <4>2 DEF Starts, HasRunningJob, Working
        <5> QED BY <2>5, <4>2, <5>1, <5>2 DEF Starts
      <4>3. CASE /\ Working(n) /\ job'[n].from = job[n].from
                 /\ Evicts(n) \/ Uploads(n) \/ Overlays(n) \/ Fails(n)
        <5>1. job[r].phase # "none" /\ job[r].from = 0 /\ job'[r].from = 0
          BY <2>1, <2>5, <4>3 DEF Working
        <5>2. \A m \in Runs \ {r} : ~Working(m)'
          BY <2>1, <3>0, <5>1 DEF Working
        <5>3. job'[r].phase = "succeeded" => r \in repo' \cap whole'
          BY <2>1, <2>2, <2>5, <4>3, <5>1 DEF Evicts, Uploads, Overlays, Fails
        <5> QED BY <5>1, <5>2, <5>3
      <4> QED BY <4>1, <4>2, <4>3, JobData
    <3>2. ASSUME run'[r].kind = "backup", run'[r].status = "succeeded"
          PROVE  r \in repo' \cap whole' /\ Quiet' /\ run'[r].snap = r
      <4>1. ~(run'[r] = run[r] /\ Working(r))
        BY <2>1, <3>2 DEF Quiet
      <4>2. /\ Active(r) /\ job' = job /\ job[r].phase = "succeeded"
            /\ run'[r].snap = IF job[r].from = 0 THEN r ELSE run[r].snap
        BY <2>5, <3>2, <4>1, JobStep
      <4>3. job[r].from = 0 /\ \A m \in Runs : ~Working(m)'
        BY <2>1, <4>2 DEF Working
      <4>4. \A m \in Runs : ~Active(m)'
        BY <2>3, <1>0, <1>2, <3>2 DEF Sole, Active
      <4>5. r \in repo' \cap whole'
        BY <3>1, <4>2
      <4> QED BY <4>2, <4>3, <4>4, <4>5 DEF Quiet
    <3> QED BY <1>0, <2>1, <2>3, <3>0, <3>1, <3>2
  <2> QED BY <2>4, <2>5
<1>3. task.pc \in Before \ {"stop", "undo"} => ~up'
  BY <1>0 DEF Promise, Snapshots
<1> QED BY <1>0, <1>1, <1>2, <1>3 DEF Snapshots

\* All of it, for the steps of the backups.
LEMMA BackupPromise ==
    ASSUME TypeOK, Bookkeeping, Promise, NEW n \in Runs, BackupStep(n),
           UNCHANGED archiveVars
    PROVE  Promise'
<1>0. /\ row' = row /\ task' = task /\ up' = up /\ used' = used
  BY JobStep DEF archiveVars
<1>1. RowOf' /\ Down'
  BY <1>0 DEF Promise, RowOf, Down, Bare, At
<1>2. Sealed'
  BY <1>0, QuietStays DEF Promise, Sealed, Committed, Stored, BackupNext
<1>3. Wiped'
  <2>1. task.pc = "settle" => Quiet
    BY DEF Promise, RowOf, Sealed, Committed
  <2> QED BY <1>0, <2>1, QuietStays DEF Promise, Wiped, At, BackupNext
<1>4. files => files'
  BY JobData DEF Starts, Evicts, Uploads, Overlays, Fails
<1>5. Stored => row.snap # 0
  BY BackupAssumption DEF Stored, TypeOK, BackupTypeOK, Runs
<1>6. Archived'
  <2>1. CASE files'
    BY <2>1 DEF Archived
  <2>2. CASE ~files' /\ Committed
    <3>1. Quiet /\ Stored
      BY <2>2 DEF Promise, Sealed
    <3> QED BY <1>0, <2>2, <3>1, QuietStays DEF Archived, Committed, Stored, BackupNext
  <2>3. CASE ~files' /\ ~Committed
    <3>1. /\ ~files /\ Stored /\ row.archived
          /\ row.status \in {"archived", "restoring"}
          /\ task.pc \in Fetching \cup {"idle", "reseal"} /\ NoBackup
      BY <1>4, <2>3 DEF Promise, Archived
    <3>2. \A m \in Runs : Active(m)' => run'[m].kind = "restore"
      BY <3>1, JobStep DEF NoBackup, Active
    <3>3. Stored' /\ \A m \in Runs : Working(m)' => job'[m].from # 0
      <4>1. CASE UNCHANGED <<job, repo, whole, files>>
        BY <1>0, <3>1, <4>1 DEF Stored, NoBackup, Working
      <4>2. CASE Starts(n)
        <5>1. run[n].snap # 0
          BY <3>1, <4>2 DEF Starts, NoBackup, Bookkeeping, RunsName
        <5>2. \A m \in Runs \ {n} : job'[m] = job[m]
          BY JobStep
        <5> QED BY <1>0, <3>1, <4>2, <5>1, <5>2 DEF Starts, Stored, NoBackup, Working
      <4>3. CASE /\ Working(n) /\ job'[n].from = job[n].from
                 /\ Evicts(n) \/ Uploads(n) \/ Overlays(n) \/ Fails(n)
        <5>1. job[n].from # 0
          BY <3>1, <4>3 DEF NoBackup
        <5>2. ~Evicts(n) /\ ~Uploads(n)
          BY <5>1 DEF Evicts, Uploads, Bookkeeping, RunsName
        <5>3. UNCHANGED <<repo, whole>>
          BY <4>3, <5>2 DEF Overlays, Fails
        <5>4. \A m \in Runs \ {n} : job'[m] = job[m]
          BY JobStep
        <5> QED BY <1>0, <3>1, <4>3, <5>1, <5>3, <5>4 DEF Stored, NoBackup, Working
      <4> QED BY <4>1, <4>2, <4>3, JobData
    <3> QED BY <1>0, <3>1, <3>2, <3>3 DEF Archived, NoBackup
  <2> QED BY <2>1, <2>2, <2>3
<1>7. Restores'
  <2>1. task.pc \in {"rebuild", "create", "clear"} => files'
    BY <1>4 DEF Promise, Restores
  <2>2. ASSUME task.pc \in {"sentBack", "waitBack"}, NEW r, r = task.run
        PROVE  /\ r \in 1..used'
               /\ run'[r].kind # "none" =>
                     run'[r].kind = "restore" /\ run'[r].snap = row.snap
               /\ job'[r].phase # "none" => job'[r].from = row.snap
               /\ job'[r].phase = "succeeded" => files'
               /\ (run'[r].kind # "none" /\ run'[r].status = "succeeded") => files'
    <3>1. /\ r \in 1..used /\ r \in Runs /\ row.snap # 0
          /\ run[r].kind # "none" => run[r].kind = "restore" /\ run[r].snap = row.snap
          /\ job[r].phase # "none" => job[r].from = row.snap
          /\ job[r].phase = "succeeded" => files
          /\ (run[r].kind # "none" /\ run[r].status = "succeeded") => files
      BY <2>2, BackupAssumption
         DEF Promise, Restores, RowOf, Fetching, TypeOK, BackupTypeOK, Runs
    <3>2. CASE n # r
      <4>1. /\ job'[r] = job[r]
            /\ run'[r] = run[r] \/ run'[r].kind = "none"
        BY <3>1, <3>2, JobStep
      <4> QED BY <1>0, <1>4, <3>1, <4>1
    <3>3. CASE n = r
      <4>1. run'[r].kind = run[r].kind
        BY <3>3, JobStep
      <4>2. (run'[r].kind # "none" /\ run'[r].status = "succeeded") =>
               run'[r] = run[r] \/ (job[r].phase = "succeeded"
                  /\ run'[r].snap = IF job[r].from = 0 THEN r ELSE run[r].snap)
        BY <3>3, JobStep
      <4>3. run'[r].kind # "none" => run'[r].snap = row.snap
        BY <3>1, <3>3, <4>1, <4>2, JobStep
      <4>4. (run'[r].kind # "none" /\ run'[r].status = "succeeded") => files'
        BY <1>4, <3>1, <4>2
      <4>5. /\ job'[r].phase # "none" => job'[r].from = row.snap
            /\ job'[r].phase = "succeeded" => files'
        <5>1. CASE UNCHANGED <<job, repo, whole, files>>
          BY <3>1, <5>1
        <5>2. CASE Starts(n)
          BY <3>1, <3>3, <5>2 DEF Starts, Active
        <5>3. CASE /\ Working(n) /\ job'[n].from = job[n].from
                   /\ Evicts(n) \/ Uploads(n) \/ Overlays(n) \/ Fails(n)
          <6>1. job[r].from = row.snap /\ ~Uploads(n)
            BY <3>1, <3>3, <5>3 DEF Working, Uploads
          <6>2. ~files => row.snap \in repo \cap whole
            BY DEF Promise, Archived, Stored
          <6> QED BY <1>4, <3>1, <3>3, <5>3, <6>1, <6>2 DEF Evicts, Overlays, Fails
        <5> QED BY <5>1, <5>2, <5>3, JobData
      <4> QED BY <1>0, <3>1, <4>1, <4>3, <4>4, <4>5
    <3> QED BY <3>2, <3>3
  <2> QED BY <1>0, <2>1, <2>2 DEF Restores
<1> QED BY <1>1, <1>2, <1>3, <1>6, <1>7, BackupSnapshots DEF Promise

\* An agent that starts again has no jobs, and its repository and files are as
\* they were.
LEMMA AgentPromise ==
    ASSUME TypeOK, Bookkeeping, Promise, AgentRestarts, UNCHANGED archiveVars
    PROVE  Promise'
<1>1. /\ UNCHANGED <<run, used, repo, whole, files, up, row, task>>
      /\ \A n \in Runs : job'[n].phase = "none"
  BY DEF AgentRestarts, rowVars, archiveVars, NoJob
<1>2. \A n \in Runs : (Active(n)' <=> Active(n)) /\ ~Working(n)'
  BY <1>1 DEF Active, Working
<1>3. RowOf' /\ Down' /\ Wiped'
  BY <1>1 DEF Promise, RowOf, Down, Bare, Wiped, At
<1>4. Quiet => Quiet'
  BY <1>2 DEF Quiet
<1>5. Runs = 1..MaxRuns /\ used \in 0..MaxRuns /\ MaxRuns \in Nat
  BY BackupAssumption DEF TypeOK, BackupTypeOK, Runs
<1>6. Snapshots'
  <2>1. task.pc \in {"sent", "wait", "sentBack", "waitBack"} => task.run \in Runs
    BY <1>5 DEF Promise, Snapshots, Restores
  <2>2. Sole => Sole'
    BY <1>1, <1>2 DEF Sole
  <2> QED BY <1>1, <1>4, <2>1, <2>2 DEF Promise, Snapshots
<1>7. Sealed' /\ Archived'
  <2>1. NoBackup => NoBackup'
    BY <1>1, <1>2 DEF NoBackup
  <2> QED BY <1>1, <1>4, <2>1 DEF Promise, Sealed, Archived, Stored, Committed
<1>8. Restores'
  <2>1. task.pc \in {"sentBack", "waitBack"} => task.run \in Runs
    BY <1>5 DEF Promise, Restores
  <2> QED BY <1>1, <2>1 DEF Promise, Restores
<1> QED BY <1>3, <1>6, <1>7, <1>8 DEF Promise

-----------------------------------------------------------------------------
(* The theorems.                                                           *)

\* It holds at the start.
LEMMA InitInv ==
    ASSUME Init
    PROVE  Inv
<1>0. MaxRuns \in Nat /\ MaxFaults \in Nat /\ MaxRequests \in Nat /\ 0 \notin Runs
  BY BackupAssumption, ArchiveAssumption DEF Runs
<1>1. /\ NoRun \in RunRows /\ NoRun.kind = "none" /\ NoJob \in JobStates
      /\ NoJob.phase = "none" /\ NoTask.prev = "stopped"
  BY <1>0 DEF NoRun, NoJob, RunRows, JobStates, NoTask
<1>2. /\ row \in Rows /\ row.status \in {"running", "stopped"}
      /\ ~row.archived /\ row.snap = 0
  <2>1. PICK s \in {"running", "stopped"} :
           row = [status |-> s, archived |-> FALSE, snap |-> 0, entry |-> 0,
                  built |-> TRUE]
    BY DEF Init
  <2>2. 0 \in 0..MaxRuns
    BY <1>0
  <2> QED BY <2>1, <2>2 DEF Rows, Statuses
<1>3. TypeOK
  <2>1. /\ run \in [Runs -> RunRows] /\ job \in [Runs -> JobStates]
        /\ call \in [Runs -> CallStates] /\ evicted \in [Runs -> SUBSET Runs]
    BY <1>1 DEF Init, BackupInit, CallStates
  <2>2. /\ used \in 0..MaxRuns /\ faults \in 0..MaxFaults
        /\ repo = {} /\ whole = {} /\ files \in BOOLEAN
        /\ deleting \in 0..MaxRuns /\ requests \in 0..MaxRequests
    BY <1>0 DEF Init, BackupInit
  <2>3. up \in BOOLEAN /\ spoiled \in BOOLEAN /\ task \in TaskStates
    BY NoTaskIdle DEF Init
  <2> QED BY <1>2, <2>1, <2>2, <2>3 DEF TypeOK, BackupTypeOK
<1>4. /\ \A n \in Runs : run[n] = NoRun /\ job[n] = NoJob /\ call[n] = "none"
      /\ deleting = 0 /\ files
  BY DEF Init, BackupInit
<1>5. \A n \in Runs : ~Active(n) /\ ~Asking(n) /\ ~Working(n)
  BY <1>1, <1>4 DEF Active, Asking, Working
<1>6. Bookkeeping
  BY <1>1, <1>4, <1>5
     DEF Bookkeeping, Unused, CallsOpen, OneActive, RunsName, DropsEnded
<1>7. task = NoTask /\ task.pc = "idle"
  BY NoTaskIdle DEF Init
<1>8. Promise
  BY <1>1, <1>2, <1>4, <1>7
     DEF Promise, RowOf, Down, Bare, Snapshots, Sealed, Committed, Wiped, Archived,
         Restores, At, Before, Fetching
<1> QED BY <1>3, <1>6, <1>8 DEF Inv

\* Every step keeps the invariant.
LEMMA NextInv ==
    ASSUME Inv, [Next]_vars
    PROVE  Inv'
<1>1. CASE UNCHANGED vars
  <2>1. UNCHANGED <<run, used, call, job, evicted, repo, whole, files, up, faults,
                    row, task, deleting, spoiled, requests>>
    BY <1>1 DEF vars, backupVars, rowVars, jobVars, archiveVars
  <2>2. TypeOK'
    BY <2>1 DEF Inv, TypeOK, BackupTypeOK
  <2>3. ~spoiled => Bookkeeping'
    BY <2>1, SameBooks DEF Inv, bookVars
  <2>4. ~spoiled => Promise'
    BY <2>1 DEF Inv, Promise, RowOf, Down, Bare, Snapshots, Sole, Sealed, Committed,
       Wiped, Archived, Restores, Stored, Quiet, NoBackup, Active, Working, At
  <2> QED BY <2>1, <2>2, <2>3, <2>4 DEF Inv
<1>2. CASE Next
  <2>1. TypeOK'
    BY <1>2, StepTyped DEF Inv
  <2>2. SUFFICES ASSUME ~spoiled'
                 PROVE  Bookkeeping' /\ Promise'
    BY <2>1 DEF Inv
  <2>3. ~spoiled
    BY <1>2, <2>2
       DEF Next, TaskStep, OwnerStep, MarkArchiving, StopForArchive, AskSnapshot,
           SnapshotAsked, AwaitSnapshot, Waits, Commit, Wipe, SettleArchive,
           UndoArchive, FetchArchive, RestoreAsked, AwaitRestore, Rebuild, Create,
           ClearPointers, Reseal, AcceptArchive, AcceptUnarchive, Power,
           RequestBackup, RequestRestore, StopForRestore, DeleteEntry, DropEntry,
           PanelRestarts, archiveVars
  <2>4. TypeOK /\ Bookkeeping /\ Promise
    BY <2>3 DEF Inv
  <2>5. Bookkeeping'
    BY <1>2, <2>4, StepBooks DEF Promise
  <2>6. Promise'
    BY <1>2, <2>2, <2>4, TaskPromise, OwnerPromise, StopPromise, EntryPromise,
       BootPromise, BackupPromise, AgentPromise DEF Next, OwnerStep, BackupNext
  <2> QED BY <2>5, <2>6
<1> QED BY <1>1, <1>2

\* The invariant the three theorems below rest on.
THEOREM InvHolds == Spec => []Inv
<1>1. Init => Inv
  BY InitInv
<1>2. Inv /\ [Next]_vars => Inv'
  BY NextInv
<1> QED BY <1>1, <1>2, PTL DEF Spec

\* Every variable keeps its type.
THEOREM ArchiveTypeCorrect == Spec => []TypeOK
<1>1. Inv => TypeOK
  BY DEF Inv
<1> QED BY <1>1, InvHolds, PTL

\* The server's files are on the node or in the snapshot its row names,
\* whatever dies and whatever is asked for, until one of the named steps.
THEOREM FilesNeverLost == Spec => []FilesExist
<1>1. Inv => FilesExist
  BY DEF Inv, Promise, Archived, FilesExist, NothingLost
<1> QED BY <1>1, InvHolds, PTL

\* A row becomes archived only when the files have left the node and nothing
\* runs there.
THEOREM ArchivesReclaim == Spec => ArchiveReclaims
<1>1. Inv /\ [Next]_vars
      => [~spoiled /\ ~row.archived /\ row'.archived => ~files' /\ ~up']_vars
  <2>1. SUFFICES ASSUME Inv, Next, ~spoiled, ~row.archived, row'.archived
                 PROVE  ~files' /\ ~up'
    BY DEF vars
  <2>2. SettleArchive
    <3>1. row \in Rows
      BY <2>1 DEF Inv, TypeOK
    <3> QED BY <2>1, <3>1
        DEF Next, TaskStep, OwnerStep, MarkArchiving, StopForArchive, AskSnapshot,
            SnapshotAsked, AwaitSnapshot, Waits, Commit, Wipe, UndoArchive,
            FetchArchive, RestoreAsked, AwaitRestore, Rebuild, Create,
            ClearPointers, Reseal, AcceptArchive, AcceptUnarchive, Power,
            RequestBackup, RequestRestore, StopForRestore, DeleteEntry, DropEntry,
            PanelRestarts, BootRow, SetStatus, archiveVars, Rows
  <2>3. task.pc = "settle" /\ files' = files /\ up' = up
    BY <2>2 DEF SettleArchive, At, backupVars, jobVars
  <2>4. ~files /\ ~up
    BY <2>1, <2>3 DEF Inv, Promise, RowOf, Wiped, Sealed, Committed, At
  <2> QED BY <2>3, <2>4
<1> QED BY <1>1, InvHolds, PTL DEF Spec, ArchiveReclaims

-----------------------------------------------------------------------------
(* A transition and its task.                                              *)
(*                                                                         *)
(* Nothing of this needs the promise: a restore that writes `stopped` over *)
(* a transition only ends it.                                              *)

Archiving == Before \cup {"wipe", "settle"}
Unarchiving == {"fetch", "sentBack", "waitBack", "rebuild", "create", "clear",
                "reseal"}

\* Where the task is while the status is a transition's, and what Reseal and
\* UndoArchive find to take it out again.
TaskOfRow ==
    /\ task.prev \in {"running", "stopped", "error"}
    /\ task.pc \in Unarchiving => row.archived
    /\ row.status = "archiving" => task.pc \in Archiving \/ WipeOutstanding
    /\ row.status = "restoring" =>
          row.archived /\ task.pc \in {"fetch", "sentBack", "waitBack", "rebuild",
                                       "reseal"}
    /\ row.status = "creating" => row.archived /\ At("create")

\* A step of the task moves it to the place its new status belongs to.
LEMMA TaskOwns ==
    ASSUME TypeOK, TaskOfRow, TaskStep
    PROVE  TaskOfRow'
<1>1. row \in Rows /\ task \in TaskStates
  BY DEF TypeOK
<1>2. CASE MarkArchiving \/ StopForArchive \/ AskSnapshot
  BY <1>1, <1>2 DEF MarkArchiving, StopForArchive, AskSnapshot, Goto, SetStatus, At,
     TaskOfRow, Archiving, Unarchiving, Before, WipeOutstanding, Rows, TaskStates
<1>3. CASE SnapshotAsked \/ AwaitSnapshot \/ Commit
  BY <1>1, <1>3 DEF SnapshotAsked, AwaitSnapshot, Waits, Commit, Goto, At,
     TaskOfRow, Archiving, Unarchiving, Before, WipeOutstanding, Rows, TaskStates
<1>4. CASE Wipe
  <2>1. /\ UNCHANGED row /\ task.pc = "wipe" /\ task'.prev = task.prev
        /\ \/ task'.pc \in {"undo", "settle"}
           \/ row.snap # 0 /\ task'.pc = "idle"
    BY <1>1, <1>4 DEF Wipe, Goto, At, TaskStates
  <2> QED
    BY <2>1 DEF At, TaskOfRow, Archiving, Unarchiving, Before, WipeOutstanding
<1>5. CASE SettleArchive \/ UndoArchive \/ ClearPointers \/ Reseal
  <2>1. task'.pc = "idle" /\ task'.prev = "stopped"
    BY <1>5 DEF SettleArchive, UndoArchive, ClearPointers, Reseal, NoTask
  <2>2. row'.status \notin Transitions
    BY <1>1, <1>5 DEF SettleArchive, UndoArchive, ClearPointers, Reseal, SetStatus,
       At, TaskOfRow, Unarchiving, WipeOutstanding, Rows, Transitions
  <2> QED
    BY <2>1, <2>2 DEF At, TaskOfRow, Unarchiving, Transitions
<1>6. CASE FetchArchive \/ RestoreAsked \/ AwaitRestore
  BY <1>1, <1>6 DEF FetchArchive, RestoreAsked, AwaitRestore, Waits, Goto, At,
     TaskOfRow, Archiving, Unarchiving, Before, WipeOutstanding, Rows, TaskStates
<1>7. CASE Rebuild \/ Create
  BY <1>1, <1>7 DEF Rebuild, Create, Goto, SetStatus, At,
     TaskOfRow, Archiving, Unarchiving, Before, WipeOutstanding, Rows, TaskStates
<1> QED
  BY <1>2, <1>3, <1>4, <1>5, <1>6, <1>7 DEF TaskStep

\* A request begins a task with the transition it writes, or writes a status
\* that is none.
LEMMA OwnerOwns ==
    ASSUME TypeOK, TaskOfRow, OwnerStep
    PROVE  TaskOfRow'
<1>1. row \in Rows /\ task \in TaskStates
  BY DEF TypeOK
<1>2. CASE AcceptArchive \/ AcceptUnarchive
  BY <1>1, <1>2 DEF AcceptArchive, AcceptUnarchive, NoTask, SetStatus, At,
     TaskOfRow, Archiving, Unarchiving, Before, WipeOutstanding, Rows, TaskStates
<1>3. CASE Power
  BY <1>1, <1>3 DEF Power, NotArchived, SetStatus, At,
     TaskOfRow, Archiving, Unarchiving, Before, WipeOutstanding, Rows, TaskStates
<1>4. CASE RequestBackup \/ DropEntry
           \/ \E n \in Runs : RequestRestore(n) \/ DeleteEntry(n)
  BY <1>4 DEF RequestBackup, DropEntry, RequestRestore, DeleteEntry, archiveVars,
     At, TaskOfRow, WipeOutstanding
<1>5. ASSUME NEW n \in Runs, StopForRestore(n) PROVE TaskOfRow'
  BY <1>1, <1>5 DEF StopForRestore, SetStatus, At,
     TaskOfRow, Archiving, Unarchiving, Before, WipeOutstanding, Rows, TaskStates
<1> QED
  BY <1>2, <1>3, <1>4, <1>5 DEF OwnerStep

\* A row in a transition has a task, or a wipe to do again.
THEOREM TransitionsHaveTasks == Spec => []TransitionHasTask
<1>1. Init => TaskOfRow
  BY DEF Init, NoTask, At, TaskOfRow, Unarchiving
<1>2. TypeOK /\ TaskOfRow /\ [Next]_vars => TaskOfRow'
  <2> SUFFICES ASSUME TypeOK, TaskOfRow, [Next]_vars
               PROVE  TaskOfRow'
    OBVIOUS
  <2>1. CASE UNCHANGED archiveVars
    BY <2>1 DEF archiveVars, TaskOfRow, At, WipeOutstanding
  <2>2. CASE TaskStep
    BY <2>2, TaskOwns
  <2>3. CASE OwnerStep
    BY <2>3, OwnerOwns
  <2>4. CASE PanelRestarts
    <3>1. row \in Rows
      BY DEF TypeOK
    <3> QED
      BY <2>4, <3>1 DEF PanelRestarts, BootRow, NoTask, At,
         TaskOfRow, Archiving, Unarchiving, Before, WipeOutstanding, Rows
  <2> QED
    BY <2>1, <2>2, <2>3, <2>4 DEF Next, vars
<1>3. TaskOfRow => TransitionHasTask
  BY DEF TaskOfRow, TransitionHasTask, Transitions, At, Archiving, Before
<1> QED BY <1>1, <1>2, <1>3, ArchiveTypeCorrect, PTL DEF Spec
=============================================================================

----------------------------- MODULE BackupRuns -----------------------------
(***************************************************************************)
(* The backups and restores of one server: the panel's history             *)
(* (backup_runs, services/backupCore.ts and nodes/backupScheduler.ts), the *)
(* agent's job registry (backup/jobs.ts), what its jobs do (backup/run.ts) *)
(* and the server's restic repository.                                     *)
(*                                                                         *)
(* Run n and the snapshot run n makes are both called n, so that an older  *)
(* snapshot is a smaller number.  Of a set of files it only matters here   *)
(* whether it is the whole server: every file, none of them half-written   *)
(* by a game that was running when the snapshot was taken.                 *)
(***************************************************************************)
EXTENDS Naturals, FiniteSets

CONSTANTS
    MaxRuns,     \* bound: runs ever requested
    Keep,        \* keepMax: snapshots of this server to keep, 0 for all
    Faults,      \* the faults this instance exercises
    MaxFaults    \* bound: faults injected

ASSUME BackupAssumption ==
    /\ MaxRuns \in Nat /\ MaxFaults \in Nat /\ Keep \in Nat
    /\ Faults \subseteq {"panel", "agent", "call", "job", "probe",
                    "wipe", "create"}

VARIABLES
    run,     \* [Runs -> the row, of kind "none" before and after it exists]
    used,    \* runs 1..used were inserted
    call,    \* [Runs -> the panel's request to the node for this run]
    job,     \* [Runs -> the agent's job for this run]
    evicted, \* [Runs -> snapshots the job removed to respect the limit]
    repo,    \* snapshots in the repository
    whole,   \* snapshots ever made that hold the whole server, at rest
    files,   \* the node's data directory is the whole server
    up,      \* the server's container runs and writes to it
    faults   \* faults injected

rowVars == <<run, used, call>>
jobVars == <<job, evicted, repo, whole, files>>
backupVars == <<rowVars, jobVars, up, faults>>

Runs == 1..MaxRuns

\* snap: the snapshot the row names, 0 for none; known: job_id is set.
RunRows == [kind: {"none", "backup", "restore"},
            status: {"pending", "running", "succeeded", "failed"},
            known: BOOLEAN, snap: 0..MaxRuns]
NoRun == [kind |-> "none", status |-> "failed", known |-> FALSE, snap |-> 0]

\* A call is `stop` while a restore first stops the server, `send` until the
\* node answers, `mark` until the answer is recorded.
CallStates == {"none", "stop", "send", "mark", "accepted", "refused"}

\* from: the snapshot a restore writes, 0 for a backup.
JobStates == [phase: {"none", "limit", "restic", "succeeded", "failed"},
              from: 0..MaxRuns]
NoJob == [phase |-> "none", from |-> 0]

BackupTypeOK ==
    /\ run \in [Runs -> RunRows]
    /\ used \in 0..MaxRuns
    /\ call \in [Runs -> CallStates]
    /\ job \in [Runs -> JobStates]
    /\ evicted \in [Runs -> SUBSET Runs]
    /\ repo \subseteq Runs /\ whole \subseteq Runs
    /\ files \in BOOLEAN /\ up \in BOOLEAN
    /\ faults \in 0..MaxFaults

-----------------------------------------------------------------------------
Fault(kind) ==
    /\ kind \in Faults
    /\ faults < MaxFaults
    /\ faults' = faults + 1

Active(n) == run[n].kind # "none" /\ run[n].status \in {"pending", "running"}

\* hasActiveRun: the panel's own idea of it.
HasActiveRun == \E n \in Runs : Active(n)

\* createRun, and the request to the node that follows it.
CreateRun(kind, snap, first) ==
    /\ used < MaxRuns
    /\ used' = used + 1
    /\ run' = [run EXCEPT ![used + 1] = [kind |-> kind, status |-> "pending",
                                         known |-> FALSE, snap |-> snap]]
    /\ call' = [call EXCEPT ![used + 1] = first]

\* failRun: only a run that has not ended, and job_id goes.
Failed(n) ==
    IF Active(n)
    THEN [run EXCEPT ![n].status = "failed", ![n].known = FALSE]
    ELSE run

\* hasRunningJob: what the agent refuses a second job for.
Working(n) == job[n].phase \in {"limit", "restic"}
HasRunningJob == \E n \in Runs : Working(n)

Started(n) ==
    [job EXCEPT ![n] = [phase |-> IF run[n].kind = "backup" THEN "limit"
                                  ELSE "restic",
                        from |-> run[n].snap]]

-----------------------------------------------------------------------------
(* The panel: asking for a run.                                            *)

\* The agent takes the job and answers with its id.
Deliver(n) ==
    /\ call[n] = "send" /\ ~HasRunningJob
    /\ job' = Started(n)
    /\ call' = [call EXCEPT ![n] = "mark"]
    /\ UNCHANGED <<run, used, evicted, repo, whole, files, up, faults>>

\* The agent refuses, cannot be reached, or its answer is lost after it took
\* the job: the run is failed and the caller gets the error.
Refuse(n) ==
    /\ call[n] = "send"
    /\ \/ HasRunningJob /\ UNCHANGED <<job, faults>>
       \/ Fault("call") /\ UNCHANGED job
       \/ Fault("call") /\ ~HasRunningJob /\ job' = Started(n)
    /\ run' = Failed(n)
    /\ call' = [call EXCEPT ![n] = "refused"]
    /\ UNCHANGED <<used, evicted, repo, whole, files, up>>

\* markRunAccepted.
MarkRunAccepted(n) ==
    /\ call[n] = "mark"
    /\ run' = [run EXCEPT ![n].status = "running", ![n].known = TRUE]
    /\ call' = [call EXCEPT ![n] = "accepted"]
    /\ UNCHANGED <<used, jobVars, up, faults>>

-----------------------------------------------------------------------------
(* The panel: reconcileOne, by the scheduler's tick or by whoever waits.   *)

\* PENDING_GRACE_MS is longer than a call to the node may take, so only a run
\* whose caller died is still without a job id when it passes.
FailUnheard(n) ==
    /\ Active(n) /\ ~run[n].known
    /\ call[n] \notin {"stop", "send", "mark"}
    /\ run' = Failed(n)
    /\ UNCHANGED <<used, call, jobVars, up, faults>>

\* Mutation of ReadJob: a job the agent lost is waited for.
ReadJobPatiently(n) ==
    /\ Active(n) /\ run[n].known
    /\ job[n].phase \in {"succeeded", "failed"}
    /\ run' = IF job[n].phase = "succeeded"
              THEN [run EXCEPT ![n].status = "succeeded", ![n].known = FALSE,
                    ![n].snap = IF job[n].from = 0 THEN n ELSE @]
              ELSE Failed(n)
    /\ UNCHANGED <<used, call, jobVars, up, faults>>

\* Mutation of ReadJob: the agent's phase goes into the row as it is.
ReadJobVerbatim(n) ==
    /\ Active(n) /\ run[n].known
    /\ run' = [run EXCEPT ![n].status = job[n].phase]
    /\ UNCHANGED <<used, call, jobVars, up, faults>>

\* The job's outcome goes into the row: a job the agent does not know any more
\* (404) has failed; with a success the rows of the snapshots evicted for it
\* go first (dropForgottenRuns), then the run completes (completeRun).
ReadJob(n) ==
    /\ Active(n) /\ run[n].known
    /\ job[n].phase \in {"none", "succeeded", "failed"}
    /\ run' = IF job[n].phase = "succeeded"
              THEN [m \in Runs |->
                      IF m = n
                      THEN [run[n] EXCEPT !.status = "succeeded", !.known = FALSE,
                                          !.snap = IF job[n].from = 0 THEN n ELSE @]
                      ELSE IF run[m].kind = "backup" /\ run[m].snap \in evicted[n]
                           THEN NoRun ELSE run[m]]
              ELSE Failed(n)
    /\ UNCHANGED <<used, call, jobVars, up, faults>>

\* The node was unreachable for STALE_RUNNING_MS; its job may go on.
GiveUp(n) ==
    /\ Active(n) /\ run[n].known
    /\ Fault("call")
    /\ run' = Failed(n)
    /\ UNCHANGED <<used, call, jobVars, up>>

-----------------------------------------------------------------------------
(* The agent's jobs.                                                       *)

\* snapshotsToForget: the oldest, until one more fits the limit.
Doomed ==
    IF Keep = 0 THEN {}
    ELSE {s \in repo : Cardinality({t \in repo : t >= s}) >= Keep}

\* enforceLimit, before anything is uploaded.
EnforceLimit(n) ==
    /\ job[n].phase = "limit"
    /\ repo' = repo \ Doomed
    /\ evicted' = [evicted EXCEPT ![n] = Doomed]
    /\ job' = [job EXCEPT ![n].phase = "restic"]
    /\ UNCHANGED <<rowVars, whole, files, up, faults>>

\* runBackup: a directory that is not there is snapshot as an empty one.
Upload(n) ==
    /\ job[n].phase = "restic" /\ job[n].from = 0
    /\ repo' = repo \cup {n}
    /\ whole' = IF files /\ ~up THEN whole \cup {n} ELSE whole
    /\ job' = [job EXCEPT ![n].phase = "succeeded"]
    /\ UNCHANGED <<rowVars, evicted, files, up, faults>>

\* A restore overlays: it completes a directory and never removes a file.
Restore(n) ==
    /\ job[n].phase = "restic" /\ job[n].from # 0
    /\ files' = (files \/ job[n].from \in repo \cap whole)
    /\ job' = [job EXCEPT ![n].phase = IF job[n].from \in repo THEN "succeeded"
                                       ELSE "failed"]
    /\ UNCHANGED <<rowVars, evicted, repo, whole, up, faults>>

\* restic fails, its container is killed, or it runs out of time.
JobFails(n) ==
    /\ Working(n)
    /\ Fault("job")
    /\ job' = [job EXCEPT ![n].phase = "failed"]
    /\ UNCHANGED <<rowVars, evicted, repo, whole, files, up>>

\* The registry is memory, and removeOrphanedToolContainers ends the restic of
\* the process before.
AgentRestarts ==
    /\ Fault("agent")
    /\ job' = [n \in Runs |-> NoJob]
    /\ UNCHANGED <<rowVars, evicted, repo, whole, files, up>>

-----------------------------------------------------------------------------
BackupInit ==
    /\ run = [n \in Runs |-> NoRun] /\ used = 0
    /\ call = [n \in Runs |-> "none"]
    /\ job = [n \in Runs |-> NoJob]
    /\ evicted = [n \in Runs |-> {}]
    /\ repo = {} /\ whole = {}
    /\ files = TRUE
    /\ faults = 0

BackupStep(n) ==
    \/ Deliver(n) \/ Refuse(n) \/ MarkRunAccepted(n)
    \/ FailUnheard(n) \/ ReadJob(n) \/ GiveUp(n)
    \/ EnforceLimit(n) \/ Upload(n) \/ Restore(n) \/ JobFails(n)

BackupNext == AgentRestarts \/ \E n \in Runs : BackupStep(n)

\* A call to the node returns, the scheduler ticks (and never overlaps itself),
\* and a job of the agent makes progress or fails.
BackupFairness ==
    \A n \in Runs :
        /\ WF_backupVars(Deliver(n) \/ Refuse(n)) /\ WF_backupVars(MarkRunAccepted(n))
        /\ WF_backupVars(FailUnheard(n) \/ ReadJob(n))
        /\ WF_backupVars(EnforceLimit(n) \/ Upload(n) \/ Restore(n))

\* Every backup and restore ends, whatever died on the way: a run nobody ends
\* would block every later backup of the server through hasActiveRun.
RunsEnd == \A n \in Runs : Active(n) ~> ~Active(n)
=============================================================================

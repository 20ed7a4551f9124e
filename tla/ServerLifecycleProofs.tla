------------------------ MODULE ServerLifecycleProofs ------------------------
(***************************************************************************)
(* What ServerLifecycle guarantees for every set of tasks and watches,     *)
(* every choice of operations and faults and every bound.                  *)
(***************************************************************************)
EXTENDS ServerLifecycle, TLAPS

-----------------------------------------------------------------------------
(* Lemmas: the helpers every action is made of keep the types.             *)

\* Docker's answer always turns into a status the column may hold.
LEMMA ObservedIsStatus == \A c : StatusFromContainerState(c) \in Statuses
BY DEF StatusFromContainerState, Statuses

\* reconcileStatus keeps the stored status or returns an observed one.
LEMMA ReconciledIsStatus ==
    ASSUME NEW s, NEW c, NEW recent,
           ReconcileStatus(s, c, recent) # s
    PROVE  ReconcileStatus(s, c, recent) \in Statuses
BY ObservedIsStatus DEF ReconcileStatus

\* An UPDATE by id leaves a row.
LEMMA UpdateType ==
    ASSUME row \in Rows, NEW r \in Rows, Update(r)
    PROVE  row' \in Rows
<1>1. Transitional(r.status) = TRUE \/ Transitional(r.status) = FALSE
  BY SMT DEF Transitional
<1>2. [r EXCEPT !.recent = TRUE] \in Rows /\ [r EXCEPT !.recent = FALSE] \in Rows
  BY DEF Rows
<1>3. [r EXCEPT !.recent = Transitional(r.status)] \in Rows
  BY <1>1, <1>2, Zenon
<1> QED BY <1>3, Zenon DEF Update

\* Whatever the column may hold, a row may say.
LEMMA StatusesAreRowStatuses == \A s \in Statuses : s \in RowStatuses
BY DEF RowStatuses

\* setStatus leaves a row.
LEMMA SetStatusType ==
    ASSUME row \in Rows, NEW s \in RowStatuses, SetStatus(s)
    PROVE  row' \in Rows
<1>1. [row EXCEPT !.status = s] \in Rows
  BY DEF Rows, RowStatuses
<1> QED BY <1>1, UpdateType DEF SetStatus

\* A task moves on and sets one of its locals.
LEMMA TaskMoves ==
    ASSUME NEW s \in TaskStates, NEW pc \in PCs, NEW b \in BOOLEAN
    PROVE  /\ [s EXCEPT !.pc = pc, !.building = b] \in TaskStates
           /\ [s EXCEPT !.again = b, !.pc = pc] \in TaskStates
BY DEF TaskStates

\* A task moves on as another operation.
LEMMA TaskBecomes ==
    ASSUME NEW s \in TaskStates, NEW pc \in PCs, NEW op \in AllOps
    PROVE  [s EXCEPT !.pc = pc, !.op = op] \in TaskStates
BY DEF TaskStates

\* Moving a task's program counter keeps the tasks well formed.
LEMMA GotoType ==
    ASSUME TypeOK, NEW t \in Tasks, NEW pc \in PCs, Goto(t, pc)
    PROVE  task' \in [Tasks -> TaskStates] /\ building' \in BOOLEAN
BY DEF TypeOK, Goto, TaskStates

\* So does ending it, whoever holds the entry of inFlightProvisions.
LEMMA FinishType ==
    ASSUME TypeOK, NEW t \in Tasks, Finish(t)
    PROVE  task' \in [Tasks -> TaskStates] /\ building' \in BOOLEAN
<1>1. NoTask \in TaskStates
  BY DEF NoTask, TaskStates, PCs, RowStatuses, Statuses
<1> QED BY <1>1 DEF TypeOK, Finish

\* cancelStartWatch keeps the watches well formed.
LEMMA CancelType ==
    ASSUME TypeOK, CancelStartWatch
    PROVE  watch' \in [Watches -> WatchStates]
           /\ inFlight' \in Watches \cup {NoWatch}
BY DEF TypeOK, CancelStartWatch, WatchStates

\* A call to the node leaves a container state behind.
LEMMA NodeType ==
    ASSUME ctr \in Containers, NEW call,
           NodeAnswers(call) \/ NodeErrs(call) \/ NodeTried(call)
    PROVE  ctr' \in Containers
BY DEF NodeAnswers, NodeErrs, NodeTried, Carried, Containers

\* A task accepted by a request is well formed, whatever it carries.
LEMMA AcceptType ==
    ASSUME TypeOK, NEW t \in Tasks, NEW op \in AllOps, NEW pc \in PCs,
           NEW must \in BOOLEAN, Accept(t, op, pc, must)
    PROVE  task' \in [Tasks -> TaskStates] /\ requests' \in 0..MaxRequests
<1>1. row.status \in RowStatuses /\ "none" \in RowStatuses
  BY DEF TypeOK, Rows, RowStatuses
<1>2. \A seen \in RowStatuses :
        [NoTask EXCEPT !.op = op, !.pc = pc, !.seen = seen, !.must = must]
            \in TaskStates
  BY DEF NoTask, TaskStates, Statuses
<1>3. task' \in [Tasks -> TaskStates]
  BY <1>1, <1>2 DEF TypeOK, Accept
<1> QED BY <1>3, LifecycleAssumption DEF TypeOK, Accept

\* Every request a task accepts.
LEMMA RequestType ==
    ASSUME TypeOK, NEW t \in Tasks, Request(t)
    PROVE  TypeOK'
<1>1. ASSUME NEW op \in PowerOps, BeginPower(t, op) PROVE TypeOK'
  BY <1>1, AcceptType, CancelType, "mark" \in PCs
     DEF TypeOK, BeginPower, AllOps, PCs, watchVars
<1>2. ASSUME NEW op \in PortOps, BeginPorts(t, op) PROVE TypeOK'
  BY <1>2, AcceptType DEF TypeOK, BeginPorts, AllOps, PCs
<1>3. ASSUME BeginSuspend(t) PROVE TypeOK'
  BY <1>3, AcceptType, CancelType DEF TypeOK, BeginSuspend, AllOps, PCs
<1>4. ASSUME BeginUnsuspend(t) PROVE TypeOK'
  BY <1>4, AcceptType DEF TypeOK, BeginUnsuspend, AllOps, PCs
<1>5. ASSUME NEW data \in BOOLEAN, BeginDelete(t, data) PROVE TypeOK'
  BY <1>5, AcceptType, CancelType DEF TypeOK, BeginDelete, AllOps, PCs, Rows
<1>6. ASSUME BeginForget(t) PROVE TypeOK'
  BY <1>6, AcceptType, CancelType DEF TypeOK, BeginForget, AllOps, PCs
<1>7. ASSUME BeginView(t) PROVE TypeOK'
  BY <1>7, AcceptType DEF TypeOK, BeginView, AllOps, PCs
<1>8. ASSUME BeginCreate(t) PROVE TypeOK'
  BY <1>8, AcceptType
     DEF TypeOK, BeginCreate, NoRow, AllOps, PCs, Rows, RowStatuses, Statuses
<1>9. ASSUME BeginReinstall(t) PROVE TypeOK'
  BY <1>9, AcceptType DEF TypeOK, BeginReinstall, AllOps, PCs
<1> QED
  BY <1>1, <1>2, <1>3, <1>4, <1>5, <1>6, <1>7, <1>8, <1>9 DEF Request

\* The power actions, suspend, delete and the detail reconcile.
LEMMA PowerStepType ==
    ASSUME TypeOK, NEW t \in Tasks, PowerStep(t)
    PROVE  TypeOK'
<1>1. ASSUME Mark(t) PROVE TypeOK'
  BY <1>1, SetStatusType, StatusesAreRowStatuses, GotoType
     DEF TypeOK, Mark, Transition, PCs, Statuses, bounds
<1>14. ASSUME Remark(t) PROVE TypeOK'
  <2>1. Transition(task[t].op) \in RowStatuses
    BY DEF Transition, RowStatuses, Statuses
  <2>2. row' \in Rows
    BY <1>14, <2>1, SetStatusType DEF TypeOK, Remark
  <2>3. [task[t] EXCEPT !.pc = "call", !.op = "start"] \in TaskStates
    BY TaskBecomes, "call" \in PCs, "start" \in AllOps
       DEF TypeOK, PCs, AllOps, PowerOps
  <2> QED BY <1>14, <2>2, <2>3 DEF TypeOK, Remark, bounds
<1>2. ASSUME RefreshEnv(t) PROVE TypeOK'
  BY <1>2, GotoType, CancelType DEF TypeOK, RefreshEnv, PCs, watchVars, bounds
<1>3. ASSUME CallPower(t) PROVE TypeOK'
  BY <1>3, GotoType, NodeType DEF TypeOK, CallPower, PCs, bounds
<1>4. ASSUME Relaunch(t) PROVE TypeOK'
  BY <1>4, GotoType, NodeType DEF TypeOK, Relaunch, PCs, bounds
<1>5. ASSUME Heal(t) PROVE TypeOK'
  BY <1>5, GotoType DEF TypeOK, Heal, PCs, TaskStates, bounds
<1>6. ASSUME CallSuspend(t) PROVE TypeOK'
  BY <1>6, GotoType, NodeType DEF TypeOK, CallSuspend, PCs, bounds
<1>7. ASSUME CallDelete(t) PROVE TypeOK'
  BY <1>7, GotoType, NodeType DEF TypeOK, CallDelete, PCs, bounds
<1>8. ASSUME NEW recent \in BOOLEAN, CallView(t, recent) PROVE TypeOK'
  BY <1>8, FinishType, ReconciledIsStatus
     DEF TypeOK, CallView, PCs, TaskStates, bounds
<1>9. ASSUME Settle(t) PROVE TypeOK'
  BY <1>9, SetStatusType, StatusesAreRowStatuses, GotoType, FinishType
     DEF TypeOK, Settle, PCs, TaskStates, Settled, Statuses, bounds
<1>10. ASSUME BeginStartWatch(t) PROVE TypeOK'
  <2>1. \A v \in Watches :
          [watch[v] EXCEPT !.aborted = TRUE] \in WatchStates
    BY DEF TypeOK, WatchStates
  <2>2. [NoWatchState EXCEPT !.phase = "poll"] \in WatchStates
    BY DEF NoWatchState, WatchStates, Statuses
  <2>3. watch' \in [Watches -> WatchStates] /\ inFlight' \in Watches
    BY <1>10, <2>1, <2>2 DEF TypeOK, BeginStartWatch
  <2> QED
    BY <1>10, <2>3, FinishType DEF TypeOK, BeginStartWatch, bounds
<1>11. ASSUME Fail(t) PROVE TypeOK'
  BY <1>11, SetStatusType, StatusesAreRowStatuses, FinishType DEF TypeOK, Fail, Statuses, bounds
<1>12. ASSUME RestoreStatus(t) PROVE TypeOK'
  BY <1>12, SetStatusType, StatusesAreRowStatuses, FinishType
     DEF TypeOK, RestoreStatus, TaskStates, bounds
<1>13. ASSUME DropRow(t) PROVE TypeOK'
  BY <1>13, FinishType DEF TypeOK, DropRow, NoRow, Rows, RowStatuses, bounds
<1> QED
  BY <1>1, <1>2, <1>3, <1>4, <1>5, <1>6, <1>7, <1>8, <1>9, <1>10, <1>11,
     <1>12, <1>13, <1>14 DEF PowerStep

\* Where a rebuild ends, in success or in error.
LEMMA ReturnType ==
    ASSUME TypeOK, NEW t \in Tasks, Returned(t) \/ Thrown(t)
    PROVE  task' \in [Tasks -> TaskStates] /\ building' \in BOOLEAN
<1>1. \A pc \in {"call", "remark", "fail"} : pc \in PCs
  BY DEF PCs
<1>2. CASE Returned(t)
  BY <1>1, <1>2, GotoType, FinishType DEF Returned
<1>3. CASE Thrown(t)
  BY <1>1, <1>3, GotoType, FinishType DEF Thrown
<1> QED BY <1>2, <1>3

\* recreateServerContainer.
LEMMA RebuildStepType ==
    ASSUME TypeOK, NEW t \in Tasks, RebuildStep(t)
    PROVE  TypeOK'
<1>1. ASSUME ClearContainer(t) PROVE TypeOK'
  BY <1>1, UpdateType, GotoType DEF TypeOK, ClearContainer, PCs, Rows, bounds
<1>2. ASSUME RebuildLoad(t) PROVE TypeOK'
  <2>1. (row.status = "running") = TRUE \/ (row.status = "running") = FALSE
    BY SMT
  <2>2. \A b \in BOOLEAN, pc \in {"rstop", "rmark"} :
          [task[t] EXCEPT !.again = b, !.pc = pc] \in TaskStates
    BY TaskMoves, "rstop" \in PCs, "rmark" \in PCs DEF TypeOK, PCs
  <2>3. task' \in [Tasks -> TaskStates] /\ building' \in BOOLEAN
    BY <1>2, <2>1, <2>2, ReturnType DEF TypeOK, RebuildLoad
  <2> QED BY <1>2, <2>3 DEF TypeOK, RebuildLoad, bounds
<1>3. ASSUME RebuildStop(t) PROVE TypeOK'
  BY <1>3, GotoType, NodeType DEF TypeOK, RebuildStop, PCs, bounds
<1>4. ASSUME RebuildRemove(t) PROVE TypeOK'
  BY <1>4, GotoType, NodeType DEF TypeOK, RebuildRemove, PCs, bounds
<1>5. ASSUME RebuildMark(t) PROVE TypeOK'
  BY <1>5, SetStatusType, StatusesAreRowStatuses, GotoType
     DEF TypeOK, RebuildMark, PCs, Statuses, bounds
<1>6. ASSUME CreateContainer(t) PROVE TypeOK'
  BY <1>6, GotoType, NodeType DEF TypeOK, CreateContainer, PCs, bounds
<1>7. ASSUME SaveContainer(t) PROVE TypeOK'
  <2>1. [row EXCEPT !.container = TRUE, !.status = "stopped"] \in Rows
    BY DEF TypeOK, Rows, RowStatuses, Statuses
  <2>2. row' \in Rows
    BY <1>7, <2>1, UpdateType DEF TypeOK, SaveContainer
  <2>3. \A pc \in {"first", "rstart"} : pc \in PCs
    BY DEF PCs
  <2>4. task' \in [Tasks -> TaskStates] /\ building' \in BOOLEAN
    BY <1>7, <2>3, GotoType, FinishType, ReturnType DEF SaveContainer
  <2> QED BY <1>7, <2>2, <2>4 DEF TypeOK, SaveContainer, bounds
<1>8. ASSUME RebuildStart(t) PROVE TypeOK'
  BY <1>8, GotoType, NodeType DEF TypeOK, RebuildStart, PCs, bounds
<1>9. ASSUME RebuildRunning(t) PROVE TypeOK'
  BY <1>9, SetStatusType, StatusesAreRowStatuses, ReturnType
     DEF TypeOK, RebuildRunning, Statuses, bounds
<1>10. ASSUME RebuildFail(t) PROVE TypeOK'
  BY <1>10, SetStatusType, StatusesAreRowStatuses, ReturnType
     DEF TypeOK, RebuildFail, Statuses, bounds
<1> QED
  BY <1>1, <1>2, <1>3, <1>4, <1>5, <1>6, <1>7, <1>8, <1>9, <1>10 DEF
     RebuildStep

\* provisionServer and rebuildServerFromBlueprint.
LEMMA BuildStepType ==
    ASSUME TypeOK, NEW t \in Tasks, BuildStep(t)
    PROVE  TypeOK'
<1>1. ASSUME ReservePorts(t) PROVE TypeOK'
  BY <1>1, GotoType DEF TypeOK, ReservePorts, PCs, bounds
<1>2. ASSUME AssertStillProvisioning(t) PROVE TypeOK'
  BY <1>2, GotoType, FinishType
     DEF TypeOK, AssertStillProvisioning, PCs, bounds
<1>3. ASSUME MarkInstalling(t) PROVE TypeOK'
  BY <1>3, SetStatusType, StatusesAreRowStatuses, GotoType
     DEF TypeOK, MarkInstalling, PCs, Statuses, bounds
<1>4. ASSUME RunInstall(t) PROVE TypeOK'
  BY <1>4, GotoType DEF TypeOK, RunInstall, PCs, bounds
<1>5. ASSUME FirstStart(t) PROVE TypeOK'
  BY <1>5, FinishType
     DEF TypeOK, FirstStart, PCs, TaskStates, AllOps, PowerOps, bounds
<1>6. ASSUME ReinstallMark(t) PROVE TypeOK'
  BY <1>6, SetStatusType, StatusesAreRowStatuses, GotoType
     DEF TypeOK, ReinstallMark, PCs, Statuses, bounds
<1>10. ASSUME TrackBuild(t) PROVE TypeOK'
  <2>1. \A pc \in {"ports", "iload"} :
          [task[t] EXCEPT !.pc = pc, !.building = TRUE] \in TaskStates
    BY TaskMoves, "ports" \in PCs, "iload" \in PCs DEF TypeOK, PCs
  <2> QED BY <1>10, <2>1 DEF TypeOK, TrackBuild, bounds
<1>7. ASSUME ReinstallLoad(t) PROVE TypeOK'
  BY <1>7, GotoType DEF TypeOK, ReinstallLoad, PCs, bounds
<1>8. ASSUME ReinstallStop(t) PROVE TypeOK'
  BY <1>8, GotoType, NodeType DEF TypeOK, ReinstallStop, PCs, bounds
<1>9. ASSUME ReinstallWipe(t) PROVE TypeOK'
  BY <1>9, GotoType, NodeType DEF TypeOK, ReinstallWipe, PCs, bounds
<1> QED
  BY <1>1, <1>2, <1>3, <1>4, <1>5, <1>6, <1>7, <1>8, <1>9, <1>10
     DEF BuildStep

\* The start watches.
LEMMA WatchStepType ==
    ASSUME TypeOK, NEW w \in Watches, WatchStep(w)
    PROVE  TypeOK'
<1>1. NoWatchState \in WatchStates
  BY DEF NoWatchState, WatchStates, Statuses
<1>2. ASSUME WatchOver(w)
      PROVE  /\ watch' \in [Watches -> WatchStates]
             /\ inFlight' \in Watches \cup {NoWatch}
  BY <1>1, <1>2 DEF TypeOK, WatchOver
<1>3. ASSUME WatchEnds(w) PROVE TypeOK'
  BY <1>2, <1>3 DEF TypeOK, WatchEnds, bounds
<1>4. ASSUME WatchFails(w) PROVE TypeOK'
  BY <1>4, ObservedIsStatus DEF TypeOK, WatchFails, WatchStates, bounds
<1>5. ASSUME WatchRecords(w) PROVE TypeOK'
  <2>1. watch[w].verdict \in RowStatuses
    BY StatusesAreRowStatuses DEF TypeOK, WatchStates
  <2>2. row' \in Rows
    BY <1>5, <2>1, SetStatusType DEF TypeOK, WatchRecords
  <2> QED BY <1>2, <1>5, <2>2 DEF TypeOK, WatchRecords, bounds
<1> QED BY <1>3, <1>4, <1>5 DEF WatchStep

\* The sweeper.
LEMMA SweepStepType ==
    ASSUME TypeOK, SweepStep
    PROVE  TypeOK'
<1>1. NoSweep \in SweepStates
  BY DEF NoSweep, SweepStates, RowStatuses, Statuses
<1>2. ASSUME SweepLoad PROVE TypeOK'
  BY <1>2, <1>1 DEF TypeOK, SweepLoad, SweepStates, Rows, bounds
<1>3. ASSUME NEW recent \in BOOLEAN, SweepObserve(recent) PROVE TypeOK'
  <2>1. sweep' \in SweepStates
    BY <1>1, <1>3, ReconciledIsStatus DEF TypeOK, SweepObserve, SweepStates
  <2> QED BY <1>3, <2>1 DEF TypeOK, SweepObserve, bounds
<1>4. ASSUME SweepUnreachable PROVE TypeOK'
  BY <1>1, <1>4 DEF TypeOK, SweepUnreachable, bounds
<1>5. ASSUME SweepApply PROVE TypeOK'
  <2>1. sweep.to \in RowStatuses
    BY StatusesAreRowStatuses DEF TypeOK, SweepStates
  <2>2. row' \in Rows
    BY <1>5, <2>1, SetStatusType DEF TypeOK, SweepApply
  <2> QED BY <1>1, <1>5, <2>2 DEF TypeOK, SweepApply, bounds
<1> QED
  BY <1>2, <1>3, <1>4, <1>5 DEF SweepStep, SweepAnswered

\* The environment.
LEMMA EnvironmentType ==
    ASSUME TypeOK, Environment
    PROVE  TypeOK'
<1>1. ASSUME TrustExpires PROVE TypeOK'
  BY <1>1 DEF TypeOK, TrustExpires, Rows, bounds
<1>2. ASSUME GameExits PROVE TypeOK'
  BY <1>2 DEF TypeOK, GameExits, Containers, bounds
<1>3. ASSUME RemovedOutOfBand PROVE TypeOK'
  BY <1>3, LifecycleAssumption DEF TypeOK, RemovedOutOfBand, Containers
<1>4. ASSUME PanelRestarts PROVE TypeOK'
  <2>1. /\ NoTask \in TaskStates /\ NoWatchState \in WatchStates
        /\ NoSweep \in SweepStates
    BY DEF NoTask, TaskStates, PCs, NoWatchState, WatchStates, NoSweep,
           SweepStates, RowStatuses, Statuses
  <2>2. BootRow \in Rows
    BY DEF TypeOK, BootRow, Rows, RowStatuses, Statuses
  <2>3. faults' \in 0..MaxFaults
    BY <1>4, LifecycleAssumption DEF TypeOK, PanelRestarts
  <2> QED BY <1>4, <2>1, <2>2, <2>3 DEF TypeOK, PanelRestarts
<1> QED BY <1>1, <1>2, <1>3, <1>4 DEF Environment

-----------------------------------------------------------------------------
(* The theorems.                                                           *)

\* The panel starts well formed.
LEMMA InitType == Init => TypeOK
<1> SUFFICES ASSUME Init PROVE TypeOK
  OBVIOUS
<1>1. /\ NoTask \in TaskStates /\ NoWatchState \in WatchStates
      /\ NoSweep \in SweepStates
  BY DEF NoTask, TaskStates, PCs, NoWatchState, WatchStates, NoSweep,
         SweepStates, RowStatuses, Statuses
<1>2. row \in Rows /\ ctr \in Containers
  <2>1. \A s \in {"none", "stopped", "running"} :
          NoRow(s) \in Rows /\ BuiltRow(s) \in Rows
    BY DEF NoRow, BuiltRow, Rows, RowStatuses, Statuses
  <2> QED BY <2>1 DEF Init, Containers
<1>3. task \in [Tasks -> TaskStates] /\ watch \in [Watches -> WatchStates]
  BY <1>1 DEF Init
<1>4. inFlight \in Watches \cup {NoWatch} /\ building \in BOOLEAN
  BY DEF Init
<1>5. requests \in 0..MaxRequests /\ faults \in 0..MaxFaults
  BY LifecycleAssumption DEF Init
<1>6. sweep \in SweepStates
  BY <1>1 DEF Init
<1> QED BY <1>2, <1>3, <1>4, <1>5, <1>6 DEF TypeOK

\* No step, of any actor, leaves the types.
LEMMA NextType == TypeOK /\ [Next]_vars => TypeOK'
<1> SUFFICES ASSUME TypeOK, [Next]_vars PROVE TypeOK'
  OBVIOUS
<1>1. ASSUME NEW t \in Tasks, Request(t) PROVE TypeOK'
  BY <1>1, RequestType
<1>2. ASSUME NEW t \in Tasks, TaskStep(t) PROVE TypeOK'
  BY <1>2, PowerStepType, RebuildStepType, BuildStepType DEF TaskStep
<1>3. ASSUME NEW w \in Watches, WatchStep(w) PROVE TypeOK'
  BY <1>3, WatchStepType
<1>4. CASE SweepStep
  BY <1>4, SweepStepType
<1>5. CASE Environment
  BY <1>5, EnvironmentType
<1>6. CASE UNCHANGED vars
  BY <1>6 DEF TypeOK, vars
<1> QED BY <1>1, <1>2, <1>3, <1>4, <1>5, <1>6 DEF Next

\* Every reachable state of the panel is well formed: no interleaving writes a
\* status the column cannot hold or leaves a task outside the code.
THEOREM TypeCorrect == Spec => []TypeOK
BY InitType, NextType, PTL DEF Spec

\* Everything that is not a request, the start of a watch or a watch itself
\* leaves the watches alone, but for the rebuild that calls one off and the
\* restart that loses them all.
LEMMA WatchesKept ==
    ASSUME NEW t \in Tasks, TaskStep(t)
    PROVE  \/ UNCHANGED watchVars
           \/ CancelStartWatch
           \/ BeginStartWatch(t)
<1>1. CASE PowerStep(t)
  BY <1>1 DEF PowerStep, Mark, RefreshEnv, Remark, CallPower, Relaunch, Heal,
     CallSuspend, CallDelete, CallView, Settle, Fail, RestoreStatus, DropRow,
     watchVars
<1>2. CASE RebuildStep(t)
  BY <1>2 DEF RebuildStep, ClearContainer, RebuildLoad, RebuildStop,
     RebuildRemove, RebuildMark, CreateContainer, SaveContainer, RebuildStart,
     RebuildRunning, RebuildFail, watchVars
<1>3. CASE BuildStep(t)
  BY <1>3 DEF BuildStep, TrackBuild, ReservePorts, AssertStillProvisioning,
     MarkInstalling, RunInstall, FirstStart, ReinstallMark, ReinstallLoad,
     ReinstallStop, ReinstallWipe, watchVars
<1> QED BY <1>1, <1>2, <1>3 DEF TaskStep

\* A request either calls the watch off or does not touch the watches.
LEMMA RequestsCancel ==
    ASSUME NEW t \in Tasks, Request(t)
    PROVE  UNCHANGED watchVars \/ CancelStartWatch
BY DEF Request, BeginPower, BeginPorts, BeginSuspend, BeginUnsuspend,
   BeginDelete, BeginForget, BeginView, BeginCreate, BeginReinstall, watchVars

\* Calling the watch off keeps it the only one that may write, by leaving none.
LEMMA CancelKeepsSingle ==
    ASSUME TypeOK, SingleLiveWatch, CancelStartWatch
    PROVE  \A w \in Watches : watch'[w].phase # "off" => watch'[w].aborted
<1> SUFFICES ASSUME NEW w \in Watches, watch'[w].phase # "off"
             PROVE  watch'[w].aborted
  OBVIOUS
<1>1. CASE inFlight = NoWatch
  BY <1>1, LifecycleAssumption
     DEF SingleLiveWatch, CancelStartWatch, LifecycleAssumption
<1>2. CASE inFlight # NoWatch
  <2>1. inFlight \in Watches
    BY <1>2 DEF TypeOK
  <2>2. watch' = [watch EXCEPT ![inFlight].aborted = TRUE]
    BY <1>2 DEF CancelStartWatch
  <2>3. CASE w = inFlight
    BY <2>1, <2>2, <2>3 DEF TypeOK, WatchStates
  <2>4. CASE w # inFlight
    BY <2>1, <2>2, <2>4 DEF TypeOK, SingleLiveWatch
  <2> QED BY <2>3, <2>4
<1> QED BY <1>1, <1>2

\* The sweeper and the environment leave the watches alone, but for the restart
\* that loses them.
LEMMA WatchesElsewhere ==
    /\ SweepStep => UNCHANGED watchVars
    /\ Environment => UNCHANGED watchVars \/ PanelRestarts
    /\ UNCHANGED vars => UNCHANGED watchVars
<1>1. SweepStep => UNCHANGED watchVars
  <2>1. ASSUME NEW recent \in BOOLEAN, SweepObserve(recent)
        PROVE  UNCHANGED watchVars
    BY <2>1 DEF SweepObserve, watchVars
  <2>2. SweepLoad \/ SweepUnreachable \/ SweepApply => UNCHANGED watchVars
    BY Zenon DEF SweepLoad, SweepUnreachable, SweepApply, watchVars
  <2> QED BY <2>1, <2>2 DEF SweepStep, SweepAnswered
<1>2. Environment => UNCHANGED watchVars \/ PanelRestarts
  BY DEF Environment, TrustExpires, GameExits, RemovedOutOfBand, watchVars
<1>3. UNCHANGED vars => UNCHANGED watchVars
  BY DEF vars, watchVars
<1> QED BY <1>1, <1>2, <1>3

\* One live watch is an invariant of every step.
LEMMA SingleStep ==
    TypeOK /\ SingleLiveWatch /\ [Next]_vars => SingleLiveWatch'
<1> SUFFICES ASSUME TypeOK, SingleLiveWatch, [Next]_vars,
                    NEW w \in Watches,
                    watch'[w].phase # "off", ~watch'[w].aborted
             PROVE  inFlight' = w
  BY DEF SingleLiveWatch
<1>1. CASE UNCHANGED watchVars
  BY <1>1 DEF SingleLiveWatch, watchVars
<1>2. CASE CancelStartWatch
  BY <1>2, CancelKeepsSingle
<1>3. ASSUME NEW t \in Tasks, BeginStartWatch(t) PROVE inFlight' = w
  <2>1. PICK new \in Watches :
          /\ watch[new].phase = "off"
          /\ inFlight' = new
          /\ watch' = [v \in Watches |->
                CASE v = new      -> [NoWatchState EXCEPT !.phase = "poll"]
                  [] v = inFlight -> [watch[v] EXCEPT !.aborted = TRUE]
                  [] OTHER        -> watch[v]]
    BY <1>3 DEF BeginStartWatch
  <2>2. SUFFICES ASSUME w # new PROVE FALSE
    BY <2>1
  <2>3. CASE w = inFlight
    <3>1. watch'[w] = [watch[w] EXCEPT !.aborted = TRUE]
      BY <2>1, <2>2, <2>3
    <3> QED BY <3>1 DEF TypeOK, WatchStates
  <2>4. CASE w # inFlight
    <3>1. watch'[w] = watch[w]
      BY <2>1, <2>2, <2>4
    <3> QED BY <3>1, <2>4 DEF SingleLiveWatch
  <2> QED BY <2>3, <2>4
<1>4. ASSUME NEW v \in Watches, WatchStep(v) PROVE inFlight' = w
  <2>1. CASE WatchOver(v)
    BY <2>1 DEF WatchOver, TypeOK, NoWatchState, SingleLiveWatch
  <2>2. CASE WatchFails(v)
    <3>1. /\ inFlight' = inFlight
          /\ watch[w].phase # "off" /\ ~watch[w].aborted
      BY <2>2 DEF WatchFails, TypeOK, WatchStates
    <3> QED BY <3>1 DEF SingleLiveWatch
  <2> QED BY <1>4, <2>1, <2>2 DEF WatchStep, WatchEnds, WatchRecords
<1>5. CASE PanelRestarts
  BY <1>5 DEF PanelRestarts, NoWatchState
<1> QED
  BY <1>1, <1>2, <1>3, <1>4, <1>5, WatchesKept, RequestsCancel,
     WatchesElsewhere DEF Next

\* However many starts overlap, at most one watch can still write to the
\* server, and it is the one a stop would call off.
THEOREM OneLiveWatch == Spec => []SingleLiveWatch
<1>1. Init => SingleLiveWatch
  BY DEF Init, SingleLiveWatch, NoWatchState
<1> QED BY <1>1, SingleStep, TypeCorrect, PTL DEF Spec

\* A stop, kill, suspend or delete that is accepted leaves no watch polling
\* that could still report it as a failed start.
THEOREM StopOutlivesWatches == Spec => NoWatchOutlivesStop
<1>1. TypeOK /\ SingleLiveWatch /\ [Next]_vars => [StopCallsOffWatches]_vars
  <2> SUFFICES ASSUME TypeOK, SingleLiveWatch
               PROVE  StopCallsOffWatches
    OBVIOUS
  <2>1. SUFFICES ASSUME NEW t \in Tasks,
                        \/ BeginPower(t, "stop") \/ BeginPower(t, "kill")
                        \/ BeginSuspend(t)
                        \/ \E data \in BOOLEAN : BeginDelete(t, data)
                 PROVE  CancelStartWatch
    BY CancelKeepsSingle DEF StopCallsOffWatches
  <2> QED BY <2>1 DEF BeginPower, BeginSuspend, BeginDelete
<1> QED
  BY <1>1, OneLiveWatch, TypeCorrect, PTL DEF Spec, NoWatchOutlivesStop

\* Nobody but the sweeper and a restart touches the sweeper's pass.
LEMMA SweepSteps ==
    ASSUME [Next]_vars
    PROVE  \/ UNCHANGED sweep
           \/ sweep' = NoSweep
           \/ SweepLoad
           \/ \E recent \in BOOLEAN : SweepObserve(recent)
<1>1. SweepStep => \/ sweep' = NoSweep \/ SweepLoad
                   \/ \E recent \in BOOLEAN : SweepObserve(recent)
  BY DEF SweepStep, SweepAnswered, SweepUnreachable, SweepApply
<1>2. ASSUME NEW t \in Tasks, Request(t) PROVE UNCHANGED sweep
  BY <1>2 DEF Request, BeginPower, BeginPorts, BeginSuspend, BeginUnsuspend,
     BeginDelete, BeginForget, BeginView, BeginCreate, BeginReinstall
<1>3. ASSUME NEW t \in Tasks, PowerStep(t) PROVE UNCHANGED sweep
  BY <1>3 DEF PowerStep, Mark, RefreshEnv, Remark, CallPower, Relaunch, Heal,
     CallSuspend, CallDelete, CallView, Settle, BeginStartWatch, Fail,
     RestoreStatus, DropRow
<1>4. ASSUME NEW t \in Tasks, RebuildStep(t) PROVE UNCHANGED sweep
  BY <1>4 DEF RebuildStep, ClearContainer, RebuildLoad, RebuildStop,
     RebuildRemove, RebuildMark, CreateContainer, SaveContainer,
     RebuildStart, RebuildRunning, RebuildFail
<1>5. ASSUME NEW t \in Tasks, BuildStep(t) PROVE UNCHANGED sweep
  BY <1>5 DEF BuildStep, TrackBuild, ReservePorts, AssertStillProvisioning,
     MarkInstalling, RunInstall, FirstStart, ReinstallMark, ReinstallLoad,
     ReinstallStop, ReinstallWipe
<1>6. ASSUME NEW w \in Watches, WatchStep(w) PROVE UNCHANGED sweep
  BY <1>6 DEF WatchStep, WatchEnds, WatchFails, WatchRecords
<1>7. Environment => UNCHANGED sweep \/ sweep' = NoSweep
  BY DEF Environment, TrustExpires, GameExits, RemovedOutOfBand, PanelRestarts
<1>8. UNCHANGED vars => UNCHANGED sweep
  BY DEF vars
<1> QED
  BY <1>1, <1>2, <1>3, <1>4, <1>5, <1>6, <1>7, <1>8 DEF Next, TaskStep

\* What the sweeper carries across its awaits was sweepable when it read it.
SweepReadSweepable == sweep.phase # "off" => ~NotSwept(sweep.from)

\* The sweeper only ever reads rows it may sweep.
LEMMA SweepReadsSweepable == Spec => []SweepReadSweepable
<1>1. Init => SweepReadSweepable
  BY DEF Init, SweepReadSweepable, NoSweep
<1>2. TypeOK /\ SweepReadSweepable /\ [Next]_vars => SweepReadSweepable'
  <2> SUFFICES ASSUME TypeOK, SweepReadSweepable, [Next]_vars
               PROVE  SweepReadSweepable'
    OBVIOUS
  <2>1. CASE UNCHANGED sweep
    BY <2>1 DEF SweepReadSweepable
  <2>2. CASE sweep' = NoSweep
    BY <2>2 DEF SweepReadSweepable, NoSweep
  <2>3. CASE SweepLoad
    BY <2>3 DEF SweepLoad, Sweepable, SweepReadSweepable, NoSweep
  <2>4. ASSUME NEW recent \in BOOLEAN, SweepObserve(recent)
        PROVE  SweepReadSweepable'
    <3>1. sweep'.from = sweep.from \/ sweep' = NoSweep
      BY <2>4 DEF SweepObserve, TypeOK, SweepStates
    <3> QED BY <2>2, <2>4, <3>1 DEF SweepObserve, SweepReadSweepable
  <2> QED BY <2>1, <2>2, <2>3, <2>4, SweepSteps
<1> QED BY <1>1, <1>2, TypeCorrect, PTL DEF Spec

\* However stale its reading, a sweep never moves a row that a task of the
\* panel or an administrator has taken over in the meantime.
THEOREM SweeperRespectsOwners == Spec => SweepRespectsOwners
<1>1. SweepReadSweepable => [SweepWritesOnlySwept]_vars
  BY DEF SweepReadSweepable, SweepWritesOnlySwept, SweepApply
<1> QED
  BY <1>1, SweepReadsSweepable, PTL DEF SweepRespectsOwners

-----------------------------------------------------------------------------
(* Builds and their owners: without deletes, which put a stale status back, *)
(* a row being built always has a task that has yet to write how it ended.  *)

BuildOps == {"create", "reinstall"}

\* The task still owes the row a word on the build it is in.  Once a create has
\* saved its container it does not, and may end in silence.
Owes(s) ==
    \/ s.pc \in {"track", "create", "save", "rfail"}
    \/ s.building /\ s.op \in BuildOps /\ s.pc # "first"

\* What a task is, as far as builds are concerned: only a create or a reinstall
\* passes through their steps, both are in inFlightProvisions from the moment
\* they are detached, and no task carries a build's status to write later.
BuildTask(s) ==
    /\ s.op # "delete"
    /\ s.pc = "idle" => s.op = "none"
    /\ s.pc # "restore"
    /\ s.pc = "imark" => s.op = "reinstall"
    /\ s.pc = "track" => s.op \in BuildOps
    /\ s.pc \in {"ports", "pmark", "pskip"} => s.op = "create"
    /\ s.pc = "watch" => s.op \in {"start", "restart"}
    /\ s.op \in BuildOps => s.building \/ s.pc \in {"imark", "track"}
    /\ ~IsProvisioning(s.write)

\* ProvisioningHasOwner as a step can keep it.
BuildInv ==
    /\ IsProvisioning(row.status) => \E t \in Tasks : Owes(task[t])
    /\ \A t \in Tasks : BuildTask(task[t])
    /\ \A w \in Watches : ~IsProvisioning(watch[w].verdict)
    /\ ~IsProvisioning(sweep.to)

\* What a step of one task has to do for BuildInv: leave the other tasks alone,
\* and where it leaves the row being built, owe it the end of the build or have
\* had no part in it.
StepSound(t) ==
    /\ \A u \in Tasks \ {t} : task'[u] = task[u]
    /\ BuildTask(task'[t])
    /\ \/ ~IsProvisioning(row'.status)
       \/ Owes(task'[t])
       \/ row'.status = row.status /\ ~Owes(task[t])

\* Steps that are only passed through on the way of one operation.
Guarded == {"idle", "restore", "imark", "track", "ports", "pmark", "pskip",
            "watch"}

\* An observation of the node is never a build.
LEMMA ObservedIsNoBuild ==
    /\ \A c : ~IsProvisioning(StatusFromContainerState(c))
    /\ \A s, c, recent : \/ ReconcileStatus(s, c, recent) = s
                         \/ ~IsProvisioning(ReconcileStatus(s, c, recent))
<1>1. \A c : ~IsProvisioning(StatusFromContainerState(c))
  BY DEF StatusFromContainerState, IsProvisioning
<1> QED BY <1>1 DEF ReconcileStatus

\* setStatus writes the status of a row that is there and nothing else.
LEMMA SetStatusWrites ==
    ASSUME row \in Rows, NEW s, SetStatus(s)
    PROVE  /\ Exists => row'.status = s
           /\ ~IsProvisioning(s) => ~IsProvisioning(row'.status)
           /\ ~Exists => ~IsProvisioning(row'.status)
<1>1. ~Exists => ~IsProvisioning(row.status)
  BY DEF Exists, IsProvisioning
<1>2. CASE Exists
  <2>1. row' = [[row EXCEPT !.status = s] EXCEPT !.recent = Transitional([row EXCEPT !.status = s].status)]
    BY <1>2, Zenon DEF SetStatus, Update
  <2>2. row'.status = s
    BY <2>1 DEF Rows
  <2> QED BY <1>2, <2>2
<1>3. CASE ~Exists
  <2>1. row' = row
    BY <1>3, Zenon DEF SetStatus, Update
  <2> QED BY <1>1, <1>3, <2>1
<1> QED BY <1>2, <1>3

\* A task that has ended is no part of a build.
LEMMA NoTaskSound == BuildTask(NoTask) /\ ~Owes(NoTask)
BY DEF BuildTask, Owes, NoTask, BuildOps, IsProvisioning

\* Ending a task.
LEMMA FinishMoves ==
    ASSUME TypeOK, NEW t \in Tasks, Finish(t)
    PROVE  /\ \A u \in Tasks \ {t} : task'[u] = task[u]
           /\ BuildTask(task'[t])
BY NoTaskSound DEF TypeOK, Finish

\* Moving a task on, off the guarded steps.
LEMMA GotoMoves ==
    ASSUME TypeOK, BuildInv, NEW t \in Tasks, NEW pc \in PCs \ Guarded,
           Goto(t, pc), task[t].op \in BuildOps => task[t].building
    PROVE  /\ \A u \in Tasks \ {t} : task'[u] = task[u]
           /\ BuildTask(task'[t])
           /\ task'[t] = [task[t] EXCEPT !.pc = pc]
<1>1. /\ \A u \in Tasks \ {t} : task'[u] = task[u]
      /\ task'[t] = [task[t] EXCEPT !.pc = pc]
  BY DEF TypeOK, Goto
<1>2. task[t] \in TaskStates /\ BuildTask(task[t])
  BY DEF TypeOK, BuildInv
<1> QED BY <1>1, <1>2 DEF BuildTask, TaskStates, Guarded

\* A task outside the steps every rebuild owes for goes on owing while it moves.
LEMMA GotoSound ==
    ASSUME TypeOK, BuildInv, NEW t \in Tasks,
           NEW pc \in PCs \ (Guarded \cup {"first"}), Goto(t, pc),
           UNCHANGED row,
           task[t].op \in BuildOps => task[t].building,
           task[t].pc \notin {"track", "create", "save", "rfail"}
    PROVE  StepSound(t)
<1>1. /\ \A u \in Tasks \ {t} : task'[u] = task[u]
      /\ BuildTask(task'[t])
      /\ task'[t] = [task[t] EXCEPT !.pc = pc]
  BY GotoMoves
<1>2. task[t] \in TaskStates
  BY DEF TypeOK
<1>3. Owes(task[t]) => Owes(task'[t])
  BY <1>1, <1>2 DEF Owes, TaskStates
<1> QED BY <1>1, <1>3 DEF StepSound

\* A step that writes an ordinary status may do with the task what it likes.
LEMMA WriteSound ==
    ASSUME TypeOK, BuildInv, NEW t \in Tasks, NEW s, SetStatus(s),
           ~IsProvisioning(s),
           \/ Finish(t)
           \/ \E pc \in PCs \ Guarded :
                 Goto(t, pc) /\ (task[t].op \in BuildOps => task[t].building)
    PROVE  StepSound(t)
<1>1. ~IsProvisioning(row'.status)
  BY SetStatusWrites DEF TypeOK
<1>2. /\ \A u \in Tasks \ {t} : task'[u] = task[u]
      /\ BuildTask(task'[t])
  BY FinishMoves, GotoMoves
<1> QED BY <1>1, <1>2 DEF StepSound

\* A task may end in silence when it owes nothing, or nothing is being built.
LEMMA SilenceSound ==
    ASSUME TypeOK, BuildInv, NEW t \in Tasks, Finish(t), UNCHANGED row,
           ~Owes(task[t]) \/ ~IsProvisioning(row.status)
    PROVE  StepSound(t)
BY FinishMoves DEF StepSound

\* Accepting a request: the task starts anew, and had no part in a build.
LEMMA AcceptSound ==
    ASSUME TypeOK, BuildInv, NEW t \in Tasks, NEW op \in AllOps \ {"delete"},
           NEW pc \in PCs, NEW must \in BOOLEAN, Accept(t, op, pc, must),
           pc \notin Guarded \ {"imark", "track"},
           pc = "imark" => op = "reinstall",
           pc = "track" => op = "create",
           op \in BuildOps => pc \in {"imark", "track"}
    PROVE  /\ \A u \in Tasks \ {t} : task'[u] = task[u]
           /\ BuildTask(task'[t])
           /\ ~Owes(task[t])
           /\ pc = "track" => Owes(task'[t])
<1>1. PICK seen : task'[t] = [NoTask EXCEPT !.op = op, !.pc = pc, !.seen = seen, !.must = must]
  BY Zenon DEF Accept, TypeOK
<1>2. \A u \in Tasks \ {t} : task'[u] = task[u]
  BY DEF Accept, TypeOK
<1>3. /\ task'[t].op = op /\ task'[t].pc = pc /\ task'[t].building = FALSE
      /\ task'[t].write = "error"
  BY <1>1 DEF NoTask
<1>4. BuildTask(task'[t])
  BY <1>3 DEF BuildTask, Guarded, BuildOps, IsProvisioning
<1>5. ~Owes(task[t])
  BY DEF Accept, At, BuildInv, BuildTask, Owes, BuildOps
<1> QED BY <1>2, <1>3, <1>4, <1>5 DEF Owes

\* Every request but a delete.
LEMMA RequestSound ==
    ASSUME TypeOK, BuildInv, "delete" \notin Ops, NEW t \in Tasks, Request(t)
    PROVE  StepSound(t)
<1>1. ASSUME NEW op \in AllOps \ ({"delete"} \cup BuildOps), NEW pc \in PCs \ Guarded,
             Accept(t, op, pc, FALSE), UNCHANGED row
      PROVE  StepSound(t)
  BY <1>1, AcceptSound DEF StepSound, Guarded
<1>2. ASSUME NEW op \in PowerOps, BeginPower(t, op) PROVE StepSound(t)
  <2>1. op \in AllOps \ ({"delete"} \cup BuildOps) /\ "mark" \in PCs \ Guarded
    BY DEF AllOps, PowerOps, BuildOps, PCs, Guarded
  <2> QED BY <1>1, <1>2, <2>1 DEF BeginPower
<1>3. ASSUME NEW op \in PortOps, BeginPorts(t, op) PROVE StepSound(t)
  <2>1. op \in AllOps \ ({"delete"} \cup BuildOps) /\ "rload" \in PCs \ Guarded
    BY DEF AllOps, PortOps, BuildOps, PCs, Guarded
  <2> QED BY <1>1, <1>3, <2>1 DEF BeginPorts
<1>4. CASE BeginSuspend(t)
  <2>1. /\ "suspend" \in AllOps \ ({"delete"} \cup BuildOps)
        /\ (IF row.container THEN "call" ELSE "settle") \in PCs \ Guarded
    BY DEF AllOps, BuildOps, PCs, Guarded
  <2> QED BY <1>1, <1>4, <2>1 DEF BeginSuspend
<1>5. CASE BeginUnsuspend(t) \/ BeginForget(t) \/ BeginView(t)
  <2>1. /\ {"unsuspend", "forget", "view"} \subseteq AllOps \ ({"delete"} \cup BuildOps)
        /\ {"settle", "drop", "call"} \subseteq PCs \ Guarded
    BY DEF AllOps, BuildOps, PCs, Guarded
  <2> QED BY <1>1, <1>5, <2>1 DEF BeginUnsuspend, BeginForget, BeginView
<1>6. ASSUME NEW data \in BOOLEAN, BeginDelete(t, data) PROVE FALSE
  BY <1>6 DEF BeginDelete, Accept
<1>7. CASE BeginCreate(t)
  <2>1. "create" \in AllOps \ {"delete"} /\ "track" \in PCs
    BY DEF AllOps, PCs
  <2> QED BY <1>7, <2>1, AcceptSound DEF BeginCreate, StepSound, Guarded
<1>8. CASE BeginReinstall(t)
  <2>1. "reinstall" \in AllOps \ {"delete"} /\ "imark" \in PCs
    BY DEF AllOps, PCs
  <2> QED BY <1>8, <2>1, AcceptSound DEF BeginReinstall, StepSound, Guarded
<1> QED BY <1>2, <1>3, <1>4, <1>5, <1>6, <1>7, <1>8 DEF Request

\* A task of a build past its first steps is in inFlightProvisions.
LEMMA DetachedIsTracked ==
    ASSUME BuildInv, NEW t \in Tasks, task[t].pc \notin {"imark", "track"}
    PROVE  task[t].op \in BuildOps => task[t].building
BY DEF BuildInv, BuildTask

\* The power actions, suspend and the detail reconcile: none of them leaves a
\* row being built, and only the ends of a start or a look are silent.
LEMMA PowerStepSound ==
    ASSUME TypeOK, BuildInv, NEW t \in Tasks, PowerStep(t)
    PROVE  StepSound(t)
<1>a. /\ BuildTask(task[t]) /\ task[t] \in TaskStates
      /\ task[t].pc \notin {"imark", "track"} =>
            (task[t].op \in BuildOps => task[t].building)
  BY DetachedIsTracked DEF BuildInv, TypeOK
<1>1. CASE Mark(t)
  <2>1. PICK pc \in {"refresh", "call"} : Goto(t, pc)
    BY <1>1 DEF Mark
  <2>2. /\ SetStatus(Transition(task[t].op)) /\ task[t].pc = "mark"
        /\ pc \in PCs \ Guarded /\ ~IsProvisioning(Transition(task[t].op))
    BY <1>1 DEF Mark, At, Transition, IsProvisioning, PCs, Guarded
  <2> QED BY <1>a, <2>1, <2>2, WriteSound
<1>2. CASE RefreshEnv(t)
  BY <1>a, <1>2, GotoSound DEF RefreshEnv, At, PCs, Guarded
<1>3. CASE Remark(t)
  <2>1. /\ task'[t] = [task[t] EXCEPT !.pc = "call", !.op = "start"]
        /\ \A u \in Tasks \ {t} : task'[u] = task[u]
    BY <1>3 DEF Remark, TypeOK
  <2>2. BuildTask(task'[t])
    BY <1>a, <2>1 DEF BuildTask, TaskStates, BuildOps
  <2>3. ~IsProvisioning(Transition(task[t].op))
    BY DEF Transition, IsProvisioning
  <2>4. ~IsProvisioning(row'.status)
    BY <1>3, <2>3, SetStatusWrites DEF Remark, TypeOK
  <2> QED BY <2>1, <2>2, <2>4 DEF StepSound
<1>4. CASE CallPower(t)
  <2>1. PICK pc \in {"relaunch", "settle", "fail", "heal"} : Goto(t, pc)
    BY <1>4 DEF CallPower
  <2> QED BY <1>a, <1>4, <2>1, GotoSound DEF CallPower, At, PCs, Guarded
<1>5. CASE Relaunch(t)
  BY <1>a, <1>5, GotoSound DEF Relaunch, At, PCs, Guarded
<1>6. CASE Heal(t)
  <2>1. CASE Goto(t, "fail")
    BY <1>a, <1>6, <2>1, GotoSound DEF Heal, At, PCs, Guarded
  <2>2. CASE task' = [task EXCEPT ![t].pc = "hclear", ![t].retried = TRUE]
    <3>1. /\ task'[t] = [task[t] EXCEPT !.pc = "hclear", !.retried = TRUE]
          /\ \A u \in Tasks \ {t} : task'[u] = task[u]
      BY <2>2 DEF TypeOK
    <3>2. BuildTask(task'[t]) /\ (Owes(task[t]) => Owes(task'[t]))
      BY <1>6, <1>a, <3>1 DEF BuildTask, Owes, TaskStates, Heal, At
    <3> QED BY <1>6, <3>1, <3>2 DEF StepSound, Heal
  <2> QED BY <1>6, <2>1, <2>2 DEF Heal
<1>7. CASE CallSuspend(t)
  BY <1>a, <1>7, GotoSound DEF CallSuspend, At, PCs, Guarded
<1>8. CASE CallDelete(t)
  BY <1>a, <1>8 DEF CallDelete, BuildTask
<1>9. ASSUME NEW recent \in BOOLEAN, CallView(t, recent) PROVE StepSound(t)
  <2>1. ~Owes(task[t])
    BY <1>9 DEF CallView, At, Owes, BuildOps
  <2>2. CASE Finish(t)
    BY <1>9, <2>1, <2>2, SilenceSound DEF CallView
  <2>3. CASE ~Finish(t)
    <3>1. PICK resolved :
            /\ ~IsProvisioning(resolved)
            /\ task' = [task EXCEPT ![t].pc = "settle", ![t].write = resolved]
      BY <1>9, <2>3, ObservedIsNoBuild DEF CallView
    <3>2. /\ task'[t] = [task[t] EXCEPT !.pc = "settle", !.write = resolved]
          /\ \A u \in Tasks \ {t} : task'[u] = task[u]
      BY <3>1 DEF TypeOK
    <3>3. /\ task'[t].pc = "settle" /\ task'[t].write = resolved
          /\ task'[t].op = "view" /\ task'[t].building = task[t].building
      BY <1>a, <1>9, <3>2 DEF TaskStates, CallView
    <3>4. BuildTask(task'[t])
      BY <3>1, <3>3 DEF BuildTask, BuildOps
    <3> QED BY <1>9, <2>1, <3>2, <3>4 DEF StepSound, CallView
  <2> QED BY <2>2, <2>3
<1>10. CASE Settle(t)
  <2>1. PICK s : SetStatus(s) /\ ~IsProvisioning(s)
    <3>1. ~IsProvisioning(task[t].write) /\ ~IsProvisioning(Settled(task[t].op))
      BY <1>a DEF BuildTask, Settled, IsProvisioning
    <3> QED BY <1>10, <3>1 DEF Settle
  <2>2. CASE Finish(t)
    BY <2>1, <2>2, WriteSound
  <2>3. CASE task[t].op \in {"start", "restart"} /\ Goto(t, "watch")
    <3>1. /\ task'[t] = [task[t] EXCEPT !.pc = "watch"]
          /\ \A u \in Tasks \ {t} : task'[u] = task[u]
      BY <2>3 DEF TypeOK, Goto
    <3>2. BuildTask(task'[t])
      BY <1>a, <2>3, <3>1 DEF BuildTask, TaskStates, BuildOps
    <3>3. ~IsProvisioning(row'.status)
      BY <2>1, SetStatusWrites DEF TypeOK
    <3> QED BY <3>1, <3>2, <3>3 DEF StepSound
  <2> QED BY <1>10, <2>2, <2>3 DEF Settle
<1>11. CASE BeginStartWatch(t)
  <2>1. ~Owes(task[t])
    BY <1>a, <1>11 DEF BeginStartWatch, At, Owes, BuildTask, BuildOps
  <2> QED BY <1>11, <2>1, SilenceSound DEF BeginStartWatch
<1>12. CASE Fail(t)
  <2>1. ~IsProvisioning("error")
    BY DEF IsProvisioning
  <2> QED BY <1>12, <2>1, WriteSound DEF Fail
<1>13. CASE RestoreStatus(t)
  BY <1>a, <1>13 DEF RestoreStatus, At, BuildTask
<1>14. CASE DropRow(t)
  <2>1. ~IsProvisioning(row'.status)
    BY <1>14 DEF DropRow, NoRow, Exists, IsProvisioning
  <2> QED BY <1>14, <2>1, FinishMoves DEF StepSound, DropRow
<1> QED
  BY <1>1, <1>2, <1>3, <1>4, <1>5, <1>6, <1>7, <1>8, <1>9, <1>10, <1>11,
     <1>12, <1>13, <1>14 DEF PowerStep

\* recreateServerContainer: from the row's `creating` to the write that ends it
\* the task owes that write, whatever operation it belongs to.
LEMMA RebuildStepSound ==
    ASSUME TypeOK, BuildInv, NEW t \in Tasks, RebuildStep(t)
    PROVE  StepSound(t)
<1>a. /\ BuildTask(task[t]) /\ task[t] \in TaskStates /\ row \in Rows
      /\ task[t].pc \notin {"imark", "track"} =>
            (task[t].op \in BuildOps => task[t].building)
  BY DetachedIsTracked DEF BuildInv, TypeOK
<1>b. ~IsProvisioning("error") /\ ~IsProvisioning("stopped")
      /\ ~IsProvisioning("running") /\ (~Exists => ~IsProvisioning(row.status))
  BY DEF IsProvisioning, Exists
<1>c. \A pc \in {"call", "remark", "fail", "rstart", "first"} : pc \in PCs \ Guarded
  BY DEF PCs, Guarded
<1>1. CASE ClearContainer(t)
  <2>1. PICK pc \in {"rload", "rmark", "check1", "check2"} : Goto(t, pc)
    BY <1>1 DEF ClearContainer
  <2>2. pc \in PCs \ Guarded /\ task[t].pc \in {"hclear", "rclear", "iclear"}
    BY <1>1 DEF ClearContainer, At, PCs, Guarded
  <2>3. /\ \A u \in Tasks \ {t} : task'[u] = task[u]
        /\ BuildTask(task'[t])
        /\ task'[t] = [task[t] EXCEPT !.pc = pc]
    BY <1>a, <2>1, <2>2, GotoMoves
  <2>4. Owes(task[t]) => Owes(task'[t])
    BY <1>a, <2>2, <2>3 DEF Owes, TaskStates
  <2>5. row'.status = row.status
    BY <1>1, <1>a DEF ClearContainer, Update, Rows
  <2> QED BY <2>3, <2>4, <2>5 DEF StepSound
<1>2. CASE RebuildLoad(t)
  <2>1. CASE ~Exists
    <3>1. Thrown(t) /\ UNCHANGED row /\ task[t].pc = "rload"
      BY <1>2, <2>1 DEF RebuildLoad, At
    <3>2. CASE Finish(t)
      BY <1>b, <2>1, <3>1, <3>2, SilenceSound
    <3>3. CASE Goto(t, "fail")
      BY <1>a, <1>c, <3>1, <3>3, GotoSound
    <3> QED BY <3>1, <3>2, <3>3 DEF Thrown
  <2>2. CASE Exists
    <3> DEFINE again == (row.status = "running")
               pc == IF row.container THEN "rstop" ELSE "rmark"
    <3>1. task' = [task EXCEPT ![t] = [@ EXCEPT !.again = again, !.pc = pc]]
      BY <1>2, <2>2, Zenon DEF RebuildLoad
    <3>5. again \in BOOLEAN /\ pc \in {"rstop", "rmark"}
      OBVIOUS
    <3> HIDE DEF again, pc
    <3>2. /\ task'[t] = [task[t] EXCEPT !.again = again, !.pc = pc]
          /\ \A u \in Tasks \ {t} : task'[u] = task[u]
      BY <3>1 DEF TypeOK
    <3>3. /\ task'[t].pc = pc /\ task'[t].op = task[t].op
          /\ task'[t].building = task[t].building
          /\ task'[t].write = task[t].write
      BY <1>a, <3>2, <3>5 DEF TaskStates
    <3>4. BuildTask(task'[t]) /\ (Owes(task[t]) => Owes(task'[t]))
      BY <1>a, <1>2, <3>3, <3>5 DEF BuildTask, Owes, RebuildLoad, At
    <3> QED BY <1>2, <3>2, <3>4 DEF StepSound, RebuildLoad
  <2> QED BY <2>1, <2>2
<1>3. CASE RebuildStop(t)
  BY <1>a, <1>3, GotoSound DEF RebuildStop, At, PCs, Guarded
<1>4. CASE RebuildRemove(t)
  BY <1>a, <1>4, GotoSound DEF RebuildRemove, At, PCs, Guarded
<1>5. CASE RebuildMark(t)
  <2>1. PICK pc \in {"create", "rfail"} : Goto(t, pc)
    BY <1>5 DEF RebuildMark
  <2>2. /\ \A u \in Tasks \ {t} : task'[u] = task[u]
        /\ BuildTask(task'[t])
        /\ task'[t] = [task[t] EXCEPT !.pc = pc]
    BY <1>a, <1>5, <2>1, GotoMoves DEF RebuildMark, At, PCs, Guarded
  <2>3. Owes(task'[t])
    BY <1>a, <2>2 DEF Owes, TaskStates
  <2> QED BY <2>2, <2>3 DEF StepSound
<1>6. CASE CreateContainer(t)
  <2>1. task[t].pc = "create" /\ UNCHANGED row
    BY <1>6 DEF CreateContainer, At
  <2>2. PICK pc \in {"save", "rfail", "fail"} :
          Goto(t, pc) /\ (pc = "fail" => task[t].op = "create")
    BY <1>6 DEF CreateContainer
  <2>3. /\ \A u \in Tasks \ {t} : task'[u] = task[u]
        /\ BuildTask(task'[t])
        /\ task'[t] = [task[t] EXCEPT !.pc = pc]
    BY <1>a, <2>1, <2>2, GotoMoves DEF PCs, Guarded
  <2>4. Owes(task'[t])
    BY <1>a, <2>1, <2>2, <2>3 DEF Owes, TaskStates, BuildOps
  <2> QED BY <2>3, <2>4 DEF StepSound
<1>7. CASE SaveContainer(t)
  <2>1. ~IsProvisioning(row'.status)
    <3>1. CASE Exists
      <4>1. row'.status = "stopped"
        BY <1>7, <1>a, <3>1 DEF SaveContainer, Update, Rows
      <4> QED BY <1>b, <4>1
    <3>2. CASE ~Exists
      <4>1. row' = row
        BY <1>7, <3>2 DEF SaveContainer, Update
      <4> QED BY <1>b, <3>2, <4>1
    <3> QED BY <3>1, <3>2
  <2>2. \/ Finish(t)
        \/ \E pc \in {"first", "rstart", "call", "remark"} : Goto(t, pc)
    BY <1>7 DEF SaveContainer, Returned
  <2>3. task[t].pc = "save"
    BY <1>7 DEF SaveContainer, At
  <2>4. /\ \A u \in Tasks \ {t} : task'[u] = task[u]
        /\ BuildTask(task'[t])
    BY <1>a, <1>c, <2>2, <2>3, FinishMoves, GotoMoves
  <2> QED BY <2>1, <2>4 DEF StepSound
<1>8. CASE RebuildStart(t)
  BY <1>a, <1>8, GotoSound DEF RebuildStart, At, PCs, Guarded
<1>9. CASE RebuildRunning(t)
  <2>1. SetStatus("running") /\ Returned(t) /\ task[t].pc = "rrun"
    BY <1>9 DEF RebuildRunning, At
  <2> QED BY <1>a, <1>b, <1>c, <2>1, WriteSound DEF Returned
<1>10. CASE RebuildFail(t)
  <2>1. SetStatus("error") /\ Thrown(t) /\ task[t].pc = "rfail"
    BY <1>10 DEF RebuildFail, At
  <2> QED BY <1>a, <1>b, <1>c, <2>1, WriteSound DEF Thrown
<1> QED
  BY <1>1, <1>2, <1>3, <1>4, <1>5, <1>6, <1>7, <1>8, <1>9, <1>10 DEF RebuildStep

\* provisionServer and rebuildServerFromBlueprint: the task owes the row from
\* the moment it is detached, and gives up in silence only over a row that is
\* not being built any more.
LEMMA BuildStepSound ==
    ASSUME TypeOK, BuildInv, NEW t \in Tasks, BuildStep(t)
    PROVE  StepSound(t)
<1>a. /\ BuildTask(task[t]) /\ task[t] \in TaskStates /\ row \in Rows
      /\ task[t].pc \notin {"imark", "track"} =>
            (task[t].op \in BuildOps => task[t].building)
  BY DetachedIsTracked DEF BuildInv, TypeOK
<1>1. CASE TrackBuild(t)
  <2>1. PICK next \in {"ports", "iload"} :
          /\ next = "ports" <=> task[t].op = "create"
          /\ task' = [task EXCEPT ![t] = [@ EXCEPT !.pc = next,
                                                  !.building = TRUE]]
    BY <1>1 DEF TrackBuild
  <2>2. /\ task'[t] = [task[t] EXCEPT !.pc = next, !.building = TRUE]
        /\ \A u \in Tasks \ {t} : task'[u] = task[u]
    BY <2>1 DEF TypeOK
  <2>3. task[t].op \in BuildOps
    BY <1>a, <1>1 DEF BuildTask, TrackBuild, At
  <2>4. /\ task'[t].pc = next /\ task'[t].op = task[t].op
        /\ task'[t].building = TRUE /\ task'[t].write = task[t].write
    BY <1>a, <2>2 DEF TaskStates
  <2>5. BuildTask(task'[t])
    BY <1>a, <2>1, <2>3, <2>4 DEF BuildTask, BuildOps
  <2>6. Owes(task'[t])
    BY <2>3, <2>4 DEF Owes
  <2> QED BY <2>2, <2>5, <2>6 DEF StepSound
<1>2. CASE ReservePorts(t)
  <2>1. task[t].pc = "ports" /\ task[t].op = "create" /\ UNCHANGED row
    BY <1>a, <1>2 DEF ReservePorts, At, BuildTask
  <2>2. CASE Goto(t, "pskip")
    <3>1. /\ task'[t] = [task[t] EXCEPT !.pc = "pskip"]
          /\ \A u \in Tasks \ {t} : task'[u] = task[u]
      BY <2>2 DEF Goto, TypeOK
    <3>2. BuildTask(task'[t]) /\ Owes(task'[t])
      BY <1>a, <2>1, <3>1 DEF BuildTask, Owes, TaskStates, BuildOps
    <3> QED BY <3>1, <3>2 DEF StepSound
  <2>3. CASE Goto(t, "check1") \/ Goto(t, "fail")
    BY <1>a, <2>1, <2>3, GotoSound DEF PCs, Guarded
  <2> QED BY <1>2, <2>2, <2>3 DEF ReservePorts
<1>3. CASE AssertStillProvisioning(t)
  <2>1. task[t].pc \in {"check0", "check1", "check2"} /\ UNCHANGED row
    BY <1>3 DEF AssertStillProvisioning, At
  <2>2. CASE ~IsProvisioning(row.status)
    BY <1>3, <2>1, <2>2, SilenceSound DEF AssertStillProvisioning
  <2>3. CASE IsProvisioning(row.status)
    <3>1. PICK pc \in {"wipe", "pmark", "install", "create", "rload"} :
            Goto(t, pc) /\ (pc = "pmark" => task[t].op = "create")
      BY <1>3, <2>1, <2>3 DEF AssertStillProvisioning, At
    <3>2. CASE pc = "pmark"
      <4>1. /\ task'[t] = [task[t] EXCEPT !.pc = "pmark"]
            /\ \A u \in Tasks \ {t} : task'[u] = task[u]
        BY <3>1, <3>2 DEF Goto, TypeOK
      <4>2. BuildTask(task'[t]) /\ Owes(task'[t])
        BY <1>a, <2>1, <3>1, <3>2, <4>1 DEF BuildTask, Owes, TaskStates, BuildOps
      <4> QED BY <4>1, <4>2 DEF StepSound
    <3>3. CASE pc # "pmark"
      BY <1>a, <2>1, <3>1, <3>3, GotoSound DEF PCs, Guarded
    <3> QED BY <3>2, <3>3
  <2> QED BY <2>2, <2>3
<1>4. CASE MarkInstalling(t)
  <2>1. task[t].pc \in {"pmark", "pskip"} /\ task[t].op = "create"
    BY <1>a, <1>4 DEF MarkInstalling, At, BuildTask
  <2>2. PICK pc \in {"install", "check2"} : Goto(t, pc)
    BY <1>4 DEF MarkInstalling
  <2>3. /\ \A u \in Tasks \ {t} : task'[u] = task[u]
        /\ BuildTask(task'[t])
        /\ task'[t] = [task[t] EXCEPT !.pc = pc]
    BY <1>a, <2>1, <2>2, GotoMoves DEF PCs, Guarded
  <2>4. Owes(task'[t])
    BY <1>a, <2>1, <2>2, <2>3 DEF Owes, TaskStates, BuildOps
  <2> QED BY <2>3, <2>4 DEF StepSound
<1>5. CASE RunInstall(t)
  BY <1>a, <1>5, GotoSound DEF RunInstall, At, PCs, Guarded
<1>6. CASE FirstStart(t)
  <2>1. UNCHANGED row /\ task[t].pc = "first" /\ ~Owes(task[t])
    BY <1>6 DEF FirstStart, At, Owes
  <2>2. CASE Finish(t)
    BY <2>1, <2>2, SilenceSound
  <2>3. CASE task' = [task EXCEPT ![t].op = "start", ![t].pc = "mark"]
    <3>1. /\ task'[t] = [task[t] EXCEPT !.op = "start", !.pc = "mark"]
          /\ \A u \in Tasks \ {t} : task'[u] = task[u]
      BY <2>3 DEF TypeOK
    <3>2. BuildTask(task'[t])
      BY <1>a, <3>1 DEF BuildTask, TaskStates, BuildOps
    <3> QED BY <2>1, <3>1, <3>2 DEF StepSound
  <2> QED BY <1>6, <2>2, <2>3 DEF FirstStart
<1>7. CASE ReinstallMark(t)
  <2>1. /\ task'[t] = [task[t] EXCEPT !.pc = "track"]
        /\ \A u \in Tasks \ {t} : task'[u] = task[u]
    BY <1>7 DEF ReinstallMark, Goto, TypeOK
  <2>2. task[t].op = "reinstall"
    BY <1>a, <1>7 DEF ReinstallMark, At, BuildTask
  <2>3. BuildTask(task'[t]) /\ Owes(task'[t])
    BY <1>a, <2>1, <2>2 DEF BuildTask, Owes, TaskStates, BuildOps
  <2> QED BY <2>1, <2>3 DEF StepSound
<1>8. CASE ReinstallLoad(t)
  BY <1>a, <1>8, GotoSound DEF ReinstallLoad, At, PCs, Guarded
<1>9. CASE ReinstallStop(t)
  BY <1>a, <1>9, GotoSound DEF ReinstallStop, At, PCs, Guarded
<1>10. CASE ReinstallWipe(t)
  BY <1>a, <1>10, GotoSound DEF ReinstallWipe, At, PCs, Guarded
<1> QED
  BY <1>1, <1>2, <1>3, <1>4, <1>5, <1>6, <1>7, <1>8, <1>9, <1>10 DEF BuildStep

\* Until it applies its correction the sweeper writes to nothing but its pass,
\* which starts from no correction at all.
LEMMA SweepOnlyReads ==
    /\ SweepLoad \/ SweepAnswered \/ SweepUnreachable => UNCHANGED <<task, row>>
    /\ sweep' = NoSweep \/ SweepLoad => sweep'.to = "error"
<1>1. SweepLoad => UNCHANGED <<task, row>>
  BY DEF SweepLoad
<1>2. SweepAnswered => UNCHANGED <<task, row>>
  BY DEF SweepAnswered, SweepObserve
<1>3. SweepUnreachable => UNCHANGED <<task, row>>
  BY DEF SweepUnreachable
<1>4. sweep' = NoSweep => sweep'.to = "error"
  BY DEF NoSweep
<1>5. SweepLoad => sweep'.to = "error"
  <2> SUFFICES ASSUME SweepLoad PROVE sweep'.to = "error"
    OBVIOUS
  <2>1. sweep' = [NoSweep EXCEPT !.phase = "read", !.from = row.status,
                                 !.recent = row.recent]
    BY DEF SweepLoad
  <2> QED BY <2>1 DEF NoSweep
<1> QED BY <1>1, <1>2, <1>3, <1>4, <1>5

\* Watches and sweeps never carry a build's status either.
LEMMA ObserversSound ==
    ASSUME TypeOK, BuildInv, [Next]_vars
    PROVE  /\ \A w \in Watches : ~IsProvisioning(watch'[w].verdict)
           /\ ~IsProvisioning(sweep'.to)
<1>a. ~IsProvisioning("error")
  BY DEF IsProvisioning
<1>1. \A w \in Watches : ~IsProvisioning(watch'[w].verdict)
  <2> SUFFICES ASSUME NEW w \in Watches PROVE ~IsProvisioning(watch'[w].verdict)
    OBVIOUS
  <2>a. watch[w] \in WatchStates /\ ~IsProvisioning(watch[w].verdict)
    BY DEF TypeOK, BuildInv
  <2>1. CASE UNCHANGED watchVars
    BY <2>a, <2>1 DEF watchVars
  <2>2. CASE CancelStartWatch
    BY <2>a, <2>2 DEF CancelStartWatch, TypeOK, WatchStates
  <2>3. ASSUME NEW t \in Tasks, BeginStartWatch(t)
        PROVE  ~IsProvisioning(watch'[w].verdict)
    <3>1. \/ watch'[w] = [NoWatchState EXCEPT !.phase = "poll"]
          \/ watch'[w] = [watch[w] EXCEPT !.aborted = TRUE]
          \/ watch'[w] = watch[w]
      BY <2>3 DEF BeginStartWatch
    <3> QED BY <1>a, <2>a, <3>1 DEF NoWatchState, WatchStates
  <2>4. ASSUME NEW v \in Watches, WatchStep(v)
        PROVE  ~IsProvisioning(watch'[w].verdict)
    <3>1. CASE WatchOver(v)
      BY <1>a, <2>a, <3>1 DEF WatchOver, TypeOK, NoWatchState
    <3>2. CASE WatchFails(v)
      BY <2>a, <3>2, ObservedIsNoBuild DEF WatchFails, TypeOK, WatchStates
    <3> QED BY <2>4, <3>1, <3>2 DEF WatchStep, WatchEnds, WatchRecords
  <2>5. CASE PanelRestarts
    BY <1>a, <2>5 DEF PanelRestarts, NoWatchState
  <2> QED
    BY <2>1, <2>2, <2>3, <2>4, <2>5, WatchesKept, RequestsCancel,
       WatchesElsewhere DEF Next
<1>2. ~IsProvisioning(sweep'.to)
  <2>a. sweep \in SweepStates /\ ~IsProvisioning(sweep.to)
    BY DEF TypeOK, BuildInv
  <2>1. CASE UNCHANGED sweep
    BY <2>a, <2>1
  <2>2. CASE sweep' = NoSweep \/ SweepLoad
    BY <1>a, <2>2, SweepOnlyReads
  <2>3. ASSUME NEW recent \in BOOLEAN, SweepObserve(recent)
        PROVE  ~IsProvisioning(sweep'.to)
    <3> DEFINE to == ReconcileStatus(sweep.from, ctr, recent)
    <3>1. CASE to = sweep.from
      BY <2>2, <2>3, <3>1 DEF SweepObserve
    <3>2. CASE to # sweep.from
      <4>1. ~IsProvisioning(to)
        BY <3>2, ObservedIsNoBuild
      <4>2. sweep' = [sweep EXCEPT !.phase = "write", !.to = to]
        BY <2>3, <3>2 DEF SweepObserve
      <4> HIDE DEF to
      <4> QED BY <2>a, <4>1, <4>2 DEF SweepStates
    <3> QED BY <3>1, <3>2
  <2> QED BY <2>1, <2>2, <2>3, SweepSteps
<1> QED BY <1>1, <1>2

\* A step of nobody's task leaves the tasks alone and builds nothing, or it is
\* the restart that ends every build it interrupts.
LEMMA OthersSound ==
    ASSUME TypeOK, BuildInv,
           \/ \E w \in Watches : WatchStep(w)
           \/ SweepStep \/ Environment \/ UNCHANGED vars
    PROVE  /\ \A t \in Tasks : BuildTask(task'[t])
           /\ IsProvisioning(row'.status) => \E t \in Tasks : Owes(task'[t])
<1>1. CASE UNCHANGED task /\ (~IsProvisioning(row'.status) \/ row'.status = row.status)
  BY <1>1 DEF BuildInv
<1>2. CASE PanelRestarts
  <2>1. ~IsProvisioning(BootRow.status)
    BY DEF BootRow, TypeOK, Rows, IsProvisioning
  <2> QED BY <1>2, <2>1, NoTaskSound DEF PanelRestarts
<1>3. ASSUME NEW w \in Watches, WatchStep(w)
      PROVE  UNCHANGED task /\ (~IsProvisioning(row'.status) \/ row'.status = row.status)
  <2>1. ~IsProvisioning(watch[w].verdict)
    BY DEF BuildInv
  <2> QED
    BY <1>3, <2>1, SetStatusWrites
       DEF WatchStep, WatchEnds, WatchFails, WatchRecords, TypeOK
<1>4. SweepStep =>
        UNCHANGED task /\ (~IsProvisioning(row'.status) \/ row'.status = row.status)
  <2>1. ~IsProvisioning(sweep.to)
    BY DEF BuildInv
  <2>2. SweepApply =>
          UNCHANGED task /\ (~IsProvisioning(row'.status) \/ row'.status = row.status)
    BY <2>1, SetStatusWrites DEF SweepApply, TypeOK
  <2> QED BY <2>2, SweepOnlyReads DEF SweepStep
<1>5. Environment =>
        \/ PanelRestarts
        \/ UNCHANGED task /\ (~IsProvisioning(row'.status) \/ row'.status = row.status)
  <2>1. TrustExpires => row'.status = row.status
    BY DEF TrustExpires, TypeOK, Rows
  <2> QED BY <2>1 DEF Environment, TrustExpires, GameExits, RemovedOutOfBand
<1> QED BY <1>1, <1>2, <1>3, <1>4, <1>5 DEF vars

\* BuildInv is inductive when no delete runs.
LEMMA BuildStepsKeep ==
    ASSUME "delete" \notin Ops
    PROVE  TypeOK /\ BuildInv /\ [Next]_vars => BuildInv'
<1> SUFFICES ASSUME TypeOK, BuildInv, [Next]_vars PROVE BuildInv'
  OBVIOUS
<1>1. ASSUME NEW t \in Tasks, StepSound(t)
      PROVE  /\ \A u \in Tasks : BuildTask(task'[u])
             /\ IsProvisioning(row'.status) => \E u \in Tasks : Owes(task'[u])
  <2>1. \A u \in Tasks : BuildTask(task'[u])
    BY <1>1 DEF StepSound, BuildInv
  <2>2. ASSUME row'.status = row.status, ~Owes(task[t]),
               IsProvisioning(row.status)
        PROVE  \E u \in Tasks : Owes(task'[u])
    <3>1. PICK u \in Tasks : Owes(task[u])
      BY <2>2 DEF BuildInv
    <3> QED BY <1>1, <2>2, <3>1 DEF StepSound
  <2> QED BY <1>1, <2>1, <2>2 DEF StepSound
<1>2. ASSUME NEW t \in Tasks, Request(t) \/ TaskStep(t) PROVE StepSound(t)
  BY <1>2, RequestSound, PowerStepSound, RebuildStepSound, BuildStepSound
     DEF TaskStep
<1>3. /\ \A t \in Tasks : BuildTask(task'[t])
      /\ IsProvisioning(row'.status) => \E t \in Tasks : Owes(task'[t])
  BY <1>1, <1>2, OthersSound DEF Next
<1> QED BY <1>3, ObserversSound DEF BuildInv

\* Whatever else overlaps, crashes and fails, a row that says it is being built
\* has a task building it, as long as nobody deletes the server: the status a
\* failed delete puts back is the only way to a build without an owner (the
\* run `stuck`).
THEOREM BuildsAreOwned ==
    ASSUME "delete" \notin Ops
    PROVE  Spec => []ProvisioningHasOwner
<1>1. Init => BuildInv
  <2> SUFFICES ASSUME Init PROVE BuildInv
    OBVIOUS
  <2>1. ~IsProvisioning(row.status)
    BY DEF Init, NoRow, BuiltRow, IsProvisioning
  <2>2. /\ \A t \in Tasks : BuildTask(task[t])
        /\ \A w \in Watches : ~IsProvisioning(watch[w].verdict)
        /\ ~IsProvisioning(sweep.to)
    BY NoTaskSound DEF Init, NoWatchState, NoSweep, IsProvisioning
  <2> QED BY <2>1, <2>2 DEF BuildInv
<1>2. TypeOK /\ BuildInv /\ [Next]_vars => BuildInv'
  BY BuildStepsKeep
<1>3. BuildInv => ProvisioningHasOwner
  BY DEF BuildInv, ProvisioningHasOwner, Owes, Builds
<1> QED BY <1>1, <1>2, <1>3, TypeCorrect, PTL DEF Spec
==============================================================================

----------------------------- MODULE Schedules -----------------------------
(***************************************************************************)
(* One schedule of one server: the runner's tick (nodes/scheduleRunner.ts) *)
(* and the runs, their recovery and the edits of                           *)
(* services/serverSchedules.ts.  What a task does to the server is in the  *)
(* modules of the actions it calls; here it succeeds or fails.             *)
(*                                                                         *)
(* Time passes in half-minutes, the period of the tick.  Delays and the    *)
(* budget of a task are a few of those instead of minutes.                 *)
(***************************************************************************)
EXTENDS Naturals, Sequences, FiniteSets

CONSTANTS
    MaxRuns,     \* bound: runs ever started
    Versions,    \* task lists an author may save
    PerTask,     \* PER_TASK_BUDGET_MS, in half-minutes
    MaxAge,      \* bound: a run's age is counted up to here
    MaxEdits,    \* bound: edits
    MaxFaults    \* bound: deaths of the panel and writes that fail

\* A task waits `delay` half-minutes; goesOn is continue_on_failure.
Tasks == [delay: Nat, goesOn: BOOLEAN]

ASSUME SchedulesAssumption ==
    /\ MaxRuns \in Nat /\ PerTask \in Nat /\ MaxAge \in Nat \ 0..1
    /\ MaxEdits \in Nat /\ MaxFaults \in Nat
    /\ Versions \subseteq Seq(Tasks) \ {<<>>}

VARIABLES
    tasks,     \* server_schedule_tasks
    unsaved,   \* what an edit has still to insert, <<>> for none
    exists,    \* the schedule's row is there
    run,       \* [Runs -> its row in server_schedule_runs]
    owner,     \* [Runs -> executeSchedule's promise for it]
    tick,      \* the runner's tick
    half,      \* the half of the minute it is
    edits, faults

vars == <<tasks, unsaved, exists, run, owner, tick, half,
          edits, faults>>

Runs == 1..MaxRuns

\* age: half-minutes since it started; ours: this process started it.
\* over: succeeded or failed.
RunRows == [status: {"none", "running", "over"},
            trigger: {"manual", "scheduled"}, age: 0..MaxAge, ours: BOOLEAN]
NoRun == [status |-> "none", trigger |-> "manual", age |-> 0, ours |-> FALSE]

\* list: the tasks it was given; at: the next one; left: of its delay; spent:
\* on the task itself; edited: these are not the saved tasks any more (history).
NoOwner == [pc |-> "none", trigger |-> "manual", list |-> <<>>, at |-> 1,
            left |-> 0, spent |-> 0, edited |-> FALSE]

\* A tick reads the rows to sweep, closes them, lists the candidates and asks
\* for a recent run; doomed: rows still to close.
NoTick == [pc |-> "idle", done |-> FALSE, doomed |-> {}, list |-> <<>>]

TypeOK ==
    /\ tasks \in Seq(Tasks) /\ unsaved \in Seq(Tasks)
    /\ exists \in BOOLEAN
    /\ run \in [Runs -> RunRows]
    /\ \A n \in Runs :
          /\ owner[n].pc \in {"none", "open", "work", "close"}
          /\ owner[n].trigger \in {"manual", "scheduled"}
          /\ owner[n].list \in Seq(Tasks)
          /\ owner[n].pc = "work" => owner[n].at \in DOMAIN owner[n].list
          /\ owner[n].spent \in 0..PerTask
          /\ owner[n].edited \in BOOLEAN
    /\ tick.pc \in {"idle", "sweep", "list", "check"}
    /\ tick.done \in BOOLEAN
    /\ tick.doomed \subseteq Runs
    /\ half \in {0, 1}
    /\ edits \in 0..MaxEdits /\ faults \in 0..MaxFaults

-----------------------------------------------------------------------------
Fault == faults < MaxFaults /\ faults' = faults + 1

Running(n) == run[n].status = "running"
Alive(n) == owner[n].pc # "none"

\* A row that has ended is asked about for a minute.
Recent(n) == run[n].status = "over" /\ run[n].age < 2

\* The row the next run will have.
Unused == {n \in Runs : run[n] = NoRun /\ ~Alive(n)}
NextRun == CHOOSE n \in Unused : TRUE

\* What listCandidateSchedules asks of the schedule's runs; whether it is
\* enabled, and its server and node in a state to act on, is left open.
Candidate == exists /\ tasks # <<>> /\ ~\E n \in Runs : Running(n)

\* The half-minutes a list has its run wait, each with the task that waits.
Waits(list) == UNION {{i} \X (1..list[i].delay) : i \in DOMAIN list}

\* runBudgetMs, as the sweep computes it from the tasks of now.
TotalDelay == Cardinality(Waits(tasks))
Budget == TotalDelay + (IF tasks = <<>> THEN 1 ELSE Len(tasks)) * PerTask

\* hasScheduledRunSince the top of this minute.
ScheduledThisMinute ==
    \E n \in Runs : /\ run[n].status # "none"
                    /\ run[n].trigger = "scheduled"
                    /\ run[n].age <= half

\* executeSchedule is called with these tasks.
Execute(n, trigger, list) ==
    owner' = [owner EXCEPT ![n] =
                [NoOwner EXCEPT !.pc = "open", !.trigger = trigger, !.list = list,
                                !.edited = list # tasks]]

-----------------------------------------------------------------------------
(* The tick: failInterruptedScheduleRuns, then fireDue.                    *)

\* Mutation of ReadInterrupted: the delays are not in the budget.
ReadImpatiently ==
    /\ tick.pc = "idle" /\ ~tick.done
    /\ ~\E n \in Runs : owner[n].pc = "open" /\ owner[n].trigger = "scheduled"
    /\ tick' = [tick EXCEPT !.pc = "sweep", !.done = TRUE,
                  !.doomed = {n \in Runs : Running(n) /\
                    (~run[n].ours \/ run[n].age > Len(tasks) * PerTask)}]
    /\ UNCHANGED <<tasks, unsaved, exists, run, owner, half, edits, faults>>

\* Mutation of ReadInterrupted: runs of this process are left alone.
ReadAbandoned ==
    /\ tick.pc = "idle" /\ ~tick.done
    /\ ~\E n \in Runs : owner[n].pc = "open" /\ owner[n].trigger = "scheduled"
    /\ tick' = [tick EXCEPT !.pc = "sweep", !.done = TRUE,
                  !.doomed = {n \in Runs : Running(n) /\ ~run[n].ours}]
    /\ UNCHANGED <<tasks, unsaved, exists, run, owner, half, edits, faults>>

\* Abandoned or expired runs are read first.  An INSERT of the previous tick is
\* done by now (bound: it takes less than half a minute).
ReadInterrupted ==
    /\ tick.pc = "idle" /\ ~tick.done
    /\ ~\E n \in Runs : owner[n].pc = "open" /\ owner[n].trigger = "scheduled"
    /\ tick' = [tick EXCEPT !.pc = "sweep", !.done = TRUE,
                  !.doomed = {n \in Runs : Running(n) /\
                                (~run[n].ours \/ run[n].age > Budget)}]
    /\ UNCHANGED <<tasks, unsaved, exists, run, owner, half, edits, faults>>

\* Then each is closed by its id, also one that has ended since.
CloseInterrupted(n) ==
    /\ tick.pc = "sweep" /\ n \in tick.doomed
    /\ run' = [run EXCEPT ![n].status = IF @ = "none" THEN @ ELSE "over"]
    /\ tick' = [tick EXCEPT !.doomed = @ \ {n}]
    /\ UNCHANGED <<tasks, unsaved, exists, owner, half, edits, faults>>

\* The sweep is over, or a write of it failed and the tick with it.
SweepDone ==
    /\ tick.pc = "sweep"
    /\ \/ tick.doomed = {} /\ tick' = [tick EXCEPT !.pc = "list"]
          /\ UNCHANGED faults
       \/ Fault /\ tick' = [NoTick EXCEPT !.done = TRUE]
    /\ UNCHANGED <<tasks, unsaved, exists, run, owner, half, edits>>

\* fireDue: the expression may match this minute, and a schedule in the middle
\* of an edit has the tasks that are back so far.
ListCandidates ==
    /\ tick.pc = "list"
    /\ \/ Candidate
          /\ tick' = [tick EXCEPT !.pc = "check", !.list = tasks]
       \/ tick' = [NoTick EXCEPT !.done = TRUE]
    /\ UNCHANGED <<tasks, unsaved, exists, run, owner, half, edits, faults>>

\* Mutation of FireDue: a run of the half-minute before is forgotten.
FireAgain ==
    /\ tick.pc = "check"
    /\ IF Unused = {} THEN UNCHANGED owner
       ELSE Execute(NextRun, "scheduled", tick.list)
    /\ tick' = [NoTick EXCEPT !.done = TRUE]
    /\ UNCHANGED <<tasks, unsaved, exists, run, half, edits, faults>>

FireDue ==
    /\ tick.pc = "check"
    /\ IF ScheduledThisMinute \/ Unused = {}
       THEN UNCHANGED owner
       ELSE Execute(NextRun, "scheduled", tick.list)
    /\ tick' = [NoTick EXCEPT !.done = TRUE]
    /\ UNCHANGED <<tasks, unsaved, exists, run, half, edits, faults>>

-----------------------------------------------------------------------------
(* executeSchedule.                                                        *)

\* The row is written before the first task; the schedule may be gone.
OpenRun(n) ==
    /\ owner[n].pc = "open"
    /\ IF exists
       THEN /\ run' = [run EXCEPT ![n] = [status |-> "running",
                          trigger |-> owner[n].trigger, age |-> 0, ours |-> TRUE]]
            /\ owner' = [owner EXCEPT ![n].pc = "work",
                                      ![n].left = owner[n].list[1].delay]
       ELSE /\ owner' = [owner EXCEPT ![n] = NoOwner]
            /\ UNCHANGED run
    /\ UNCHANGED <<tasks, unsaved, exists, tick, half, edits, faults>>

\* Mutation of DoTask: off by one at the end of the list.
DoTaskAndOneMore(n) ==
    /\ owner[n].pc = "work" /\ owner[n].left = 0
    /\ \E ok \in BOOLEAN :
          LET o == owner[n]
              over == ~ok /\ ~o.list[o.at].goesOn
          IN owner' = [owner EXCEPT ![n] =
               [o EXCEPT !.pc = IF over THEN "close" ELSE "work",
                         !.at = IF over THEN @ ELSE @ + 1,
                         !.spent = 0]]
    /\ UNCHANGED <<tasks, unsaved, exists, run, tick, half, edits, faults>>

\* One task, after its delay, and what follows it: the next one, or the end
\* when it was the last or failed without goesOn.
DoTask(n) ==
    /\ owner[n].pc = "work" /\ owner[n].left = 0
    /\ \E ok \in BOOLEAN :
          LET o == owner[n]
              task == o.list[o.at]
              over == o.at = Len(o.list) \/ (~ok /\ ~task.goesOn)
          IN owner' = [owner EXCEPT ![n] =
               [o EXCEPT !.pc = IF over THEN "close" ELSE "work",
                         !.at = IF over THEN @ ELSE @ + 1,
                         !.left = IF over THEN 0 ELSE o.list[o.at + 1].delay,
                         !.spent = 0]]
    /\ UNCHANGED <<tasks, unsaved, exists, run, tick, half, edits, faults>>

\* closeRun, by the id alone; when it fails the row is left to the sweep.
CloseRun(n) ==
    /\ owner[n].pc = "close"
    /\ \/ /\ run' = [run EXCEPT ![n].status =
                       IF @ = "none" THEN @ ELSE "over"]
          /\ UNCHANGED faults
       \/ Fault /\ UNCHANGED run
    /\ owner' = [owner EXCEPT ![n] = NoOwner]
    /\ UNCHANGED <<tasks, unsaved, exists, tick, half, edits>>

-----------------------------------------------------------------------------
(* The author.                                                             *)

\* runScheduleNow: what it checked may have changed when it writes its row.
RunNow ==
    /\ Candidate
    /\ Unused # {}
    /\ Execute(NextRun, "manual", tasks)
    /\ UNCHANGED <<tasks, unsaved, exists, run, tick, half, edits, faults>>

\* updateServerSchedule: replaceTasks deletes the tasks and inserts the new
\* ones one by one (bound: one edit at a time).
BeginEdit(list) ==
    /\ exists /\ unsaved = <<>> /\ edits < MaxEdits
    /\ tasks' = <<>> /\ unsaved' = list
    /\ edits' = edits + 1
    /\ owner' = [n \in Runs |->
                   IF Alive(n) THEN [owner[n] EXCEPT !.edited = TRUE] ELSE NoOwner]
    /\ UNCHANGED <<exists, run, tick, half, faults>>

InsertTask ==
    /\ unsaved # <<>>
    /\ tasks' = IF exists THEN Append(tasks, Head(unsaved)) ELSE tasks
    /\ unsaved' = IF exists THEN Tail(unsaved) ELSE <<>>
    /\ UNCHANGED <<exists, run, owner, tick, half, edits, faults>>

\* deleteServerSchedule: tasks and runs go with it, a run at work goes on.
Delete ==
    /\ exists /\ edits < MaxEdits
    /\ exists' = FALSE
    /\ tasks' = <<>>
    /\ run' = [n \in Runs |-> NoRun]
    /\ edits' = edits + 1
    /\ UNCHANGED <<unsaved, owner, tick, half, faults>>

-----------------------------------------------------------------------------
(* The clock and the panel.                                                *)

\* Bounds: a task is done within PerTask of its turn, the premise of the budget,
\* and an edit and a last write within half a minute.
Advance ==
    /\ unsaved = <<>>
    /\ \A n \in Runs : owner[n].pc = "work" => owner[n].spent < PerTask
                                               \/ owner[n].left > 0
    /\ \A n \in Runs : owner[n].pc # "close"
    /\ half' = 1 - half
    /\ tick' = [tick EXCEPT !.done = tick.pc # "idle"]
    /\ run' = [n \in Runs |-> IF (Running(n) /\ run[n].age < MaxAge) \/ Recent(n)
                              THEN [run[n] EXCEPT !.age = @ + 1] ELSE run[n]]
    /\ owner' = [n \in Runs |->
                   IF owner[n].pc # "work" THEN owner[n]
                   ELSE IF owner[n].left > 0
                        THEN [owner[n] EXCEPT !.left = @ - 1]
                        ELSE [owner[n] EXCEPT !.spent = @ + 1]]
    /\ UNCHANGED <<tasks, unsaved, exists, edits, faults>>

\* The panel dies; failAbandonedScheduleRuns at the next boot, which may fail
\* and is not fatal.  An edit that was under way stays where it is.
PanelRestarts ==
    /\ Fault
    /\ \E swept \in BOOLEAN :
          run' = [n \in Runs |->
                    [run[n] EXCEPT !.ours = FALSE,
                                   !.status = IF swept /\ Running(n)
                                              THEN "over" ELSE @]]
    /\ owner' = [n \in Runs |-> NoOwner]
    /\ tick' = NoTick
    /\ unsaved' = <<>>
    /\ UNCHANGED <<tasks, exists, half, edits>>

-----------------------------------------------------------------------------
Init ==
    /\ tasks \in Versions /\ unsaved = <<>>
    /\ exists = TRUE
    /\ run = [n \in Runs |-> NoRun]
    /\ owner = [n \in Runs |-> NoOwner]
    /\ tick = NoTick /\ half = 0
    /\ edits = 0 /\ faults = 0

TickStep ==
    \/ ReadInterrupted \/ SweepDone \/ ListCandidates \/ FireDue
    \/ \E n \in Runs : CloseInterrupted(n)

Next ==
    \/ TickStep \/ Advance \/ PanelRestarts
    \/ RunNow \/ InsertTask \/ Delete
    \/ \E list \in Versions : BeginEdit(list)
    \/ \E n \in Runs : OpenRun(n) \/ DoTask(n) \/ CloseRun(n)

Spec == Init /\ [][Next]_vars

\* The interval fires, time passes, and a run's own awaits end.
Fairness ==
    /\ WF_vars(TickStep) /\ WF_vars(Advance) /\ WF_vars(InsertTask)
    /\ \A n \in Runs : WF_vars(OpenRun(n) \/ DoTask(n) \/ CloseRun(n))

FairSpec == Spec /\ Fairness

-----------------------------------------------------------------------------
(* Properties.                                                             *)

\* The double-fire guard: "needs no extra state and survives a restart
\* mid-minute".  No second scheduled run is opened within a minute of the
\* clock, however the panel dies and whatever the author edits.
OnceAMinute ==
    [][\A n \in Runs : owner[n].pc = "open" /\ owner[n].trigger = "scheduled"
                       /\ run'[n].status = "running"
                       => ~ScheduledThisMinute]_vars

\* "Stops a later tick starting a second copy of a slow run": two scheduled
\* runs are at work at once only when the schedule was edited under one of
\* them, which shrinks the budget the sweep closes it by.
NoSecondCopy ==
    \A n, m \in Runs :
        /\ n # m
        /\ owner[n].pc = "work" /\ owner[n].trigger = "scheduled"
        /\ owner[m].pc = "work" /\ owner[m].trigger = "scheduled"
        => owner[n].edited \/ owner[m].edited

\* "Stops one lost run from silencing a schedule forever": a running row ends
\* also when its panel died, the boot's sweep failed, or its last write did.
RunsClose == \A n \in Runs : Running(n) ~> ~Running(n)
=============================================================================

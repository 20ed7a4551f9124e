--------------------------- MODULE SchedulesProofs ---------------------------
(***************************************************************************)
(* Proofs about Schedules: the types, the guard against a second run in    *)
(* the same minute, and the one against a second copy of a slow run.       *)
(***************************************************************************)
EXTENDS Schedules, SequenceTheorems, FiniteSetTheorems, TLAPS

\* The types the invariant needs of what TypeOK leaves open.
Owners == [pc: {"none", "open", "work", "close"},
           trigger: {"manual", "scheduled"}, list: Seq(Tasks), at: Nat,
           left: Nat, spent: 0..PerTask, edited: BOOLEAN]
Ticks == [pc: {"idle", "sweep", "list", "check"}, done: BOOLEAN,
          doomed: SUBSET Runs, list: Seq(Tasks)]

Typed ==
    /\ tasks \in Seq(Tasks) /\ unsaved \in Seq(Tasks) /\ exists \in BOOLEAN
    /\ run \in [Runs -> RunRows]
    /\ owner \in [Runs -> Owners]
    /\ tick \in Ticks
    /\ half \in {0, 1}
    /\ edits \in 0..MaxEdits /\ faults \in 0..MaxFaults

\* A run that has work has tasks, and one it is at.
OwnersWork ==
    \A n \in Runs :
        /\ owner[n].pc = "work" => owner[n].at \in DOMAIN owner[n].list
        /\ owner[n].pc = "open" => owner[n].list # <<>> /\ owner[n].at = 1
ChecksTasks == tick.pc = "check" => tick.list # <<>>

\* The scheduler called executeSchedule for run n, whose row is not written.
Opening(n) == owner[n].pc = "open" /\ owner[n].trigger = "scheduled"

\* Nothing of a run is written before its owner writes it.
OpensFresh == \A n \in Runs : owner[n].pc = "open" => run[n] = NoRun

\* The tick starts one at a time and does not begin anew before it is written.
OpensAlone ==
    /\ tick.pc # "idle" => \A n \in Runs : ~Opening(n)
    /\ \A n, m \in Runs : Opening(n) /\ Opening(m) => n = m

\* What the tick found when it asked for a run of this minute is still so.
OpensQuiet == (\E n \in Runs : Opening(n)) => ~ScheduledThisMinute

Inv ==
    /\ Typed /\ OwnersWork /\ ChecksTasks
    /\ OpensFresh /\ OpensAlone /\ OpensQuiet

-----------------------------------------------------------------------------
(* What keeps a run at work from the sweep: its row is younger than what   *)
(* its owner has waited and worked, and that is at most the budget.        *)

\* A run whose tasks, as far as it was given them, are still the saved ones.
AtWork(n) == owner[n].pc = "work" /\ ~owner[n].edited

\* The half-minutes of work a list may take, each with the task that works.
Turns(list) == (DOMAIN list) \X (1..PerTask)

\* Those of them that the owner o of a run has had.
WaitedBy(o) == {w \in Waits(o.list) : \/ w[1] < o.at
                                      \/ /\ w[1] = o.at
                                         /\ w[2] + o.left <= o.list[o.at].delay}
WorkedBy(o) == {w \in Turns(o.list) : \/ w[1] < o.at
                                      \/ w[1] = o.at /\ w[2] <= o.spent}

\* An owner works on a task only after its delay.
OwnerFits(o) ==
    /\ o.pc = "open" => o.spent = 0
    /\ o.pc = "work" => /\ o.left <= o.list[o.at].delay
                        /\ o.spent # 0 => o.left = 0
\* A list is the beginning of another.
Begins(list, longer) ==
    /\ DOMAIN list \subseteq DOMAIN longer
    /\ \A i \in DOMAIN list : list[i] = longer[i]

\* A row is no older than what its owner has had.
InTime(r, o) == r.age <= Cardinality(WaitedBy(o)) + Cardinality(WorkedBy(o))

\* An owner that nobody edited under has the first of the saved tasks (all of
\* them, unless it was started in the middle of an edit); once at work its row
\* is there, this process opened it, and it is in time.
WorkerFits(n) ==
    /\ OwnerFits(owner[n])
    /\ exists /\ ~owner[n].edited /\ owner[n].pc \in {"open", "work"}
         => Begins(owner[n].list, tasks)
    /\ exists /\ AtWork(n)
         => Running(n) /\ run[n].ours /\ InTime(run[n], owner[n])
WorkersFit == \A n \in Runs : WorkerFits(n)

\* So the sweep's list has no such run on it, nor one that may still become one.
WorkersSpared ==
    \A n \in tick.doomed : exists => run[n] # NoRun /\ ~AtWork(n)

\* A tick on its way to a new run found no scheduled run at work.
OpensOnly ==
    tick.pc = "check" \/ (\E m \in Runs : Opening(m))
    => \A n \in Runs : ~(AtWork(n) /\ owner[n].trigger = "scheduled")

CopyInv ==
    WorkersFit /\ WorkersSpared /\ OpensOnly /\ NoSecondCopy

-----------------------------------------------------------------------------
(* Lemmas about the operators.                                             *)

\* One fault more is still within the bound.
LEMMA FaultsTyped ==
    ASSUME faults \in 0..MaxFaults, Fault
    PROVE  faults' \in 0..MaxFaults
BY SchedulesAssumption DEF Fault

\* The row a run gets was nobody's.
LEMMA NextRunUnused ==
    ASSUME Unused # {}
    PROVE  NextRun \in Runs /\ run[NextRun] = NoRun /\ ~Alive(NextRun)
BY DEF NextRun, Unused

\* A run that nobody carries.
LEMMA NoOwnerTyped == NoOwner \in Owners
BY SchedulesAssumption, EmptySeq DEF NoOwner, Owners

\* A call of executeSchedule gives one run an owner.
LEMMA ExecuteOwns ==
    ASSUME owner \in [Runs -> Owners], NEW n \in Runs,
           NEW trigger \in {"manual", "scheduled"}, NEW list \in Seq(Tasks),
           Execute(n, trigger, list)
    PROVE  /\ owner' \in [Runs -> Owners]
           /\ owner'[n].pc = "open" /\ owner'[n].trigger = trigger
           /\ owner'[n].list = list /\ owner'[n].at = 1
           /\ \A m \in Runs : m # n => owner'[m] = owner[m]
<1> DEFINE new == [NoOwner EXCEPT !.pc = "open", !.trigger = trigger,
                                  !.list = list, !.edited = list # tasks]
<1>1. /\ new \in Owners /\ new.pc = "open" /\ new.trigger = trigger
      /\ new.list = list /\ new.at = 1
  BY NoOwnerTyped DEF NoOwner, Owners
<1>2. owner' = [owner EXCEPT ![n] = new]
  BY DEF Execute
<1> HIDE DEF new
<1> QED BY <1>1, <1>2

\* A run whose row was never written.
LEMMA NoRunTyped == NoRun \in RunRows /\ NoRun.status = "none"
BY SchedulesAssumption DEF NoRun, RunRows

\* A step that opens nothing and makes no run younger keeps the guard.
LEMMA OpensKept ==
    ASSUME Inv, tick'.pc # "idle" => tick.pc # "idle",
           \A n \in Runs : Opening(n)' => Opening(n),
           ScheduledThisMinute' => ScheduledThisMinute
    PROVE  OpensAlone' /\ OpensQuiet'
BY DEF Inv, OpensAlone, OpensQuiet

\* ... for instance one that only closes rows.
LEMMA SameRunsSameMinute ==
    ASSUME \A n \in Runs : /\ run'[n].status # "none" => run[n].status # "none"
                           /\ run'[n].trigger = run[n].trigger
                           /\ run'[n].age = run[n].age,
           half' = half
    PROVE  ScheduledThisMinute' => ScheduledThisMinute
BY DEF ScheduledThisMinute

\* A row that ends keeps everything else, and one that is not there stays away.
LEMMA StatusTyped ==
    ASSUME NEW r \in RunRows, NEW q,
           q = [r EXCEPT !.status = IF @ = "none" THEN @ ELSE "over"]
    PROVE  /\ q \in RunRows
           /\ q.status # "none" => r.status # "none"
           /\ q.trigger = r.trigger /\ q.age = r.age
           /\ r = NoRun <=> q = NoRun
<1>1. /\ q \in RunRows /\ q.trigger = r.trigger /\ q.age = r.age
      /\ q.status # "none" => r.status # "none"
  BY DEF RunRows
<1>2. CASE r.status = "none"
  <2>1. q = [r EXCEPT !.status = r.status]
    BY <1>2
  <2>2. q = r
    BY <2>1 DEF RunRows
  <2> QED BY <1>1, <2>2
<1>3. CASE r.status # "none"
  BY <1>3 DEF NoRun, RunRows
<1> QED BY <1>1, <1>2, <1>3 DEF NoRun

-----------------------------------------------------------------------------
(* Inv is inductive.                                                       *)

\* Nothing has run, and the tick is at rest.
LEMMA InitInv == Init => Inv
<1> SUFFICES ASSUME Init PROVE Inv
  OBVIOUS
<1>1. tick \in Ticks
  BY EmptySeq DEF Init, NoTick, Ticks
<1>2. Typed
  BY <1>1, SchedulesAssumption, EmptySeq, NoOwnerTyped, NoRunTyped DEF Init,
     Typed
<1>3. \A n \in Runs : owner[n].pc = "none"
  BY DEF Init, NoOwner
<1> QED
  BY <1>2, <1>3 DEF Init, Inv, OwnersWork, ChecksTasks, OpensFresh,
     OpensAlone, OpensQuiet, Opening, NoTick

\* A step that leaves the runs and who carries them alone.
LEMMA TickKeeps ==
    ASSUME Inv, Typed', UNCHANGED <<run, owner, half>>, ChecksTasks',
           tick'.pc # "idle" => tick.pc # "idle"
    PROVE  Inv'
<1>1. OpensAlone' /\ OpensQuiet'
  <2>1. \A n \in Runs : Opening(n)' => Opening(n)
    BY DEF Opening
  <2>2. ScheduledThisMinute' => ScheduledThisMinute
    BY DEF ScheduledThisMinute
  <2> QED BY <2>1, <2>2, OpensKept
<1> QED BY <1>1 DEF Inv, OwnersWork, OpensFresh

LEMMA StepInv == Inv /\ [Next]_vars => Inv'
<1> SUFFICES ASSUME Inv, [Next]_vars PROVE Inv'
  OBVIOUS
<1>1. CASE ReadInterrupted
  <2>1. Typed'
    <3>1. tick' \in Ticks
      BY <1>1 DEF ReadInterrupted, Inv, Typed, Ticks
    <3> QED BY <1>1, <3>1 DEF ReadInterrupted, Inv, Typed
  <2>2. ChecksTasks' /\ OpensAlone'
    BY <1>1 DEF ReadInterrupted, ChecksTasks, OpensAlone, Opening, Inv, Typed,
       Ticks
  <2>3. OpensQuiet'
    BY <1>1 DEF ReadInterrupted, Inv, OpensQuiet, ScheduledThisMinute, Opening
  <2> QED
    BY <1>1, <2>1, <2>2, <2>3 DEF ReadInterrupted, Inv, OwnersWork, OpensFresh
<1>2. ASSUME NEW n \in Runs, CloseInterrupted(n) PROVE Inv'
  <2>1. /\ run' \in [Runs -> RunRows]
        /\ \A m \in Runs : /\ run'[m].status # "none" => run[m].status # "none"
                           /\ run'[m].trigger = run[m].trigger
                           /\ run'[m].age = run[m].age
                           /\ run[m] = NoRun => run'[m] = NoRun
    BY <1>2, StatusTyped DEF CloseInterrupted, Inv, Typed
  <2>2. /\ UNCHANGED <<tasks, unsaved, exists, owner, half, edits, faults>>
        /\ tick' \in Ticks /\ UNCHANGED <<tick.pc, tick.list>>
    BY <1>2 DEF CloseInterrupted, Inv, Typed, Ticks
  <2>3. OpensAlone' /\ OpensQuiet'
    BY <2>1, <2>2, OpensKept, SameRunsSameMinute DEF Opening
  <2> QED
    BY <2>1, <2>2, <2>3 DEF Inv, Typed, OwnersWork, ChecksTasks, OpensFresh
<1>3. CASE SweepDone \/ ListCandidates
  <2>1. UNCHANGED <<tasks, unsaved, exists, run, owner, half, edits>>
    BY <1>3 DEF SweepDone, ListCandidates
  <2>2. faults' \in 0..MaxFaults
    BY <1>3, FaultsTyped DEF SweepDone, ListCandidates, Inv, Typed
  <2>3. /\ tick' \in Ticks /\ tick.pc # "idle"
        /\ tick'.pc = "check" => tick'.list # <<>>
    <3>1. tick \in Ticks /\ tasks \in Seq(Tasks)
      BY DEF Inv, Typed
    <3>2. CASE tick' = [NoTick EXCEPT !.done = TRUE]
      BY <1>3, <3>2, EmptySeq DEF SweepDone, ListCandidates, NoTick, Ticks
    <3>3. CASE tick' = [tick EXCEPT !.pc = "list"]
      BY <1>3, <3>1, <3>3 DEF SweepDone, ListCandidates, Ticks
    <3>4. CASE /\ Candidate
               /\ tick' = [tick EXCEPT !.pc = "check", !.list = tasks]
      BY <1>3, <3>1, <3>4 DEF SweepDone, ListCandidates, Candidate, Ticks
    <3> QED BY <1>3, <3>2, <3>3, <3>4 DEF SweepDone, ListCandidates
  <2>4. Typed' /\ ChecksTasks'
    BY <2>1, <2>2, <2>3 DEF Inv, Typed, ChecksTasks
  <2> QED BY <2>1, <2>3, <2>4, TickKeeps
<1>4. CASE FireDue
  <2>1. /\ UNCHANGED <<tasks, unsaved, exists, run, half, edits, faults>>
        /\ tick' \in Ticks /\ tick'.pc = "idle"
    BY <1>4, EmptySeq DEF FireDue, NoTick, Ticks
  <2>2. CASE UNCHANGED owner
    BY <2>1, <2>2, TickKeeps DEF Inv, Typed, ChecksTasks
  <2>3. CASE /\ ~ScheduledThisMinute /\ Unused # {}
             /\ Execute(NextRun, "scheduled", tick.list)
    <3>1. tick.list \in Seq(Tasks) /\ tick.list # <<>>
      BY <1>4 DEF FireDue, Inv, Typed, Ticks, ChecksTasks
    <3>2. NextRun \in Runs /\ run[NextRun] = NoRun
      BY <2>3, NextRunUnused
    <3>3. /\ owner' \in [Runs -> Owners]
          /\ owner'[NextRun].pc = "open"
          /\ owner'[NextRun].list # <<>> /\ owner'[NextRun].at = 1
          /\ \A m \in Runs : m # NextRun => owner'[m] = owner[m]
      BY <2>3, <3>1, <3>2, ExecuteOwns DEF Inv, Typed
    <3>4. \A m \in Runs : ~Opening(m)
      BY <1>4 DEF FireDue, Inv, OpensAlone
    <3>5. \A m \in Runs : Opening(m)' => m = NextRun
      BY <3>3, <3>4 DEF Opening
    <3>6. ~ScheduledThisMinute'
      BY <2>1, <2>3 DEF ScheduledThisMinute
    <3> QED
      BY <2>1, <3>2, <3>3, <3>5, <3>6 DEF Inv, Typed, OwnersWork, ChecksTasks,
         OpensFresh, OpensAlone, OpensQuiet
  <2> QED BY <1>4, <2>2, <2>3 DEF FireDue
<1>5. ASSUME NEW n \in Runs, OpenRun(n) PROVE Inv'
  <2>1. UNCHANGED <<tasks, unsaved, exists, tick, half, edits, faults>>
    BY <1>5 DEF OpenRun
  <2>2. CASE exists
    <3> DEFINE row == [status |-> "running", trigger |-> owner[n].trigger,
                       age |-> 0, ours |-> TRUE]
    <3>1. row \in RunRows /\ row.trigger = owner[n].trigger
      BY SchedulesAssumption DEF Inv, Typed, Owners, RunRows
    <3>2. run' = [run EXCEPT ![n] = row]
      BY <1>5, <2>2 DEF OpenRun
    <3> HIDE DEF row
    <3>3. /\ run' \in [Runs -> RunRows]
          /\ \A m \in Runs : m # n => run'[m] = run[m]
          /\ run'[n].trigger = owner[n].trigger
      BY <3>1, <3>2 DEF Inv, Typed
    <3>4. /\ owner[n].list \in Seq(Tasks) /\ owner[n].at = 1
          /\ 1 \in DOMAIN owner[n].list
      BY <1>5 DEF OpenRun, Inv, Typed, OwnersWork, Owners
    <3>5. owner[n].list[1].delay \in Nat
      <4>1. owner[n].list[1] \in Tasks
        BY <3>4
      <4> QED BY <4>1 DEF Tasks
    <3>6. /\ owner' \in [Runs -> Owners]
          /\ \A m \in Runs : m # n => owner'[m] = owner[m]
          /\ owner'[n].pc = "work"
          /\ UNCHANGED <<owner[n].at, owner[n].list>>
      <4> DEFINE o == [owner[n] EXCEPT !.pc = "work",
                                       !.left = owner[n].list[1].delay]
      <4>1. /\ o \in Owners /\ o.pc = "work" /\ o.at = owner[n].at
            /\ o.list = owner[n].list
        BY <3>5 DEF Inv, Typed, Owners
      <4>2. owner' = [owner EXCEPT ![n] = o]
        BY <1>5, <2>2 DEF OpenRun
      <4> HIDE DEF o
      <4> QED BY <4>1, <4>2 DEF Inv, Typed
    <3>7. OpensAlone' /\ OpensQuiet'
      <4>1. CASE Opening(n)
        <5>1. \A m \in Runs : ~Opening(m)'
          BY <3>6, <4>1 DEF Opening, Inv, OpensAlone
        <5> QED BY <5>1 DEF OpensAlone, OpensQuiet
      <4>2. CASE ~Opening(n)
        <5>1. \A m \in Runs : Opening(m)' => Opening(m)
          BY <3>6 DEF Opening
        <5>2. owner[n].trigger # "scheduled"
          BY <1>5, <4>2 DEF OpenRun, Opening
        <5>3. ScheduledThisMinute' => ScheduledThisMinute
          BY <2>1, <3>3, <5>2 DEF ScheduledThisMinute
        <5> QED BY <2>1, <5>1, <5>3, OpensKept
      <4> QED BY <4>1, <4>2
    <3> QED
      BY <2>1, <3>3, <3>4, <3>6, <3>7 DEF Inv, Typed, OwnersWork, ChecksTasks,
         OpensFresh
  <2>3. CASE ~exists
    <3>1. /\ owner' \in [Runs -> Owners] /\ UNCHANGED run
          /\ \A m \in Runs : m # n => owner'[m] = owner[m]
          /\ owner'[n].pc = "none"
      <4>1. owner' = [owner EXCEPT ![n] = NoOwner] /\ UNCHANGED run
        BY <1>5, <2>3 DEF OpenRun
      <4>2. NoOwner.pc = "none"
        BY DEF NoOwner
      <4> QED BY <4>1, <4>2, NoOwnerTyped DEF Inv, Typed
    <3>2. OpensAlone' /\ OpensQuiet'
      <4>1. \A m \in Runs : Opening(m)' => Opening(m)
        BY <3>1 DEF Opening
      <4>2. ScheduledThisMinute' => ScheduledThisMinute
        BY <2>1, <3>1 DEF ScheduledThisMinute
      <4> QED BY <2>1, <4>1, <4>2, OpensKept
    <3> QED
      BY <2>1, <3>1, <3>2 DEF Inv, Typed, OwnersWork, ChecksTasks, OpensFresh
  <2> QED BY <2>2, <2>3
<1>6. ASSUME NEW n \in Runs, DoTask(n) PROVE Inv'
  <2>1. UNCHANGED <<tasks, unsaved, exists, run, tick, half, edits, faults>>
    BY <1>6 DEF DoTask
  <2>2. /\ owner' \in [Runs -> Owners]
        /\ \A m \in Runs : m # n => owner'[m] = owner[m]
        /\ owner'[n].pc # "open"
        /\ owner'[n].pc = "work" => owner'[n].at \in DOMAIN owner'[n].list
    <3> DEFINE o == owner[n]
               next(ok) ==
                 LET over == o.at = Len(o.list) \/ (~ok /\ ~o.list[o.at].goesOn)
                 IN [o EXCEPT !.pc = IF over THEN "close" ELSE "work",
                              !.at = IF over THEN @ ELSE @ + 1,
                              !.left = IF over THEN 0 ELSE o.list[o.at + 1].delay,
                              !.spent = 0]
    <3>1. PICK ok \in BOOLEAN : owner' = [owner EXCEPT ![n] = next(ok)]
      BY <1>6, Zenon DEF DoTask
    <3>2. o \in Owners /\ o.at \in DOMAIN o.list
      BY <1>6 DEF DoTask, Inv, Typed, OwnersWork
    <3>3. o.list \in Seq(Tasks) /\ o.at \in 1..Len(o.list)
      BY <3>2 DEF Owners
    <3>4. o.at # Len(o.list) => /\ o.at + 1 \in 1..Len(o.list)
                                /\ o.list[o.at + 1].delay \in Nat
      <4>1. SUFFICES ASSUME o.at # Len(o.list)
                     PROVE  /\ o.at + 1 \in 1..Len(o.list)
                            /\ o.list[o.at + 1].delay \in Nat
        OBVIOUS
      <4>2. Len(o.list) \in Nat /\ o.at + 1 \in 1..Len(o.list)
        BY <3>3, <4>1
      <4>3. o.list[o.at + 1] \in Tasks
        BY <3>3, <4>2
      <4> QED BY <4>2, <4>3 DEF Tasks
    <3>5. /\ next(ok) \in Owners /\ next(ok).pc \in {"close", "work"}
          /\ next(ok).pc = "work" => next(ok).at \in DOMAIN next(ok).list
      <4> HIDE DEF o
      <4>1. CASE o.at = Len(o.list) \/ (~ok /\ ~o.list[o.at].goesOn)
        <5>1. next(ok) = [o EXCEPT !.pc = "close", !.at = o.at, !.left = 0,
                                   !.spent = 0]
          BY <4>1
        <5> HIDE DEF next
        <5>2. /\ 0 \in Nat /\ 0 \in 0..PerTask
              /\ o.at \in Nat
          BY <3>2, SchedulesAssumption DEF Owners
        <5>3. next(ok) \in Owners /\ next(ok).pc = "close"
          BY <3>2, <5>1, <5>2 DEF Owners
        <5> QED BY <5>3
      <4>2. CASE ~(o.at = Len(o.list) \/ (~ok /\ ~o.list[o.at].goesOn))
        <5>1. next(ok) = [o EXCEPT !.pc = "work", !.at = o.at + 1,
                                   !.left = o.list[o.at + 1].delay, !.spent = 0]
          BY <4>2
        <5>2. /\ o.at + 1 \in 1..Len(o.list)
              /\ o.list[o.at + 1].delay \in Nat
          BY <3>4, <4>2
        <5> HIDE DEF next
        <5>3. o.at + 1 \in Nat /\ 0 \in 0..PerTask
          BY <3>3, SchedulesAssumption
        <5>4. /\ next(ok) \in Owners /\ next(ok).pc = "work"
              /\ next(ok).at = o.at + 1 /\ next(ok).list = o.list
          BY <3>2, <5>1, <5>2, <5>3 DEF Owners
        <5> QED BY <3>3, <5>2, <5>4
      <4> QED BY <4>1, <4>2
    <3> HIDE DEF next, o
    <3> QED BY <3>1, <3>5 DEF Inv, Typed
  <2>3. OpensAlone' /\ OpensQuiet'
    <3>1. \A m \in Runs : Opening(m)' => Opening(m)
      BY <2>2 DEF Opening
    <3>2. ScheduledThisMinute' => ScheduledThisMinute
      BY <2>1 DEF ScheduledThisMinute
    <3> QED BY <2>1, <3>1, <3>2, OpensKept
  <2> QED
    BY <2>1, <2>2, <2>3 DEF Inv, Typed, OwnersWork, ChecksTasks, OpensFresh
<1>7. ASSUME NEW n \in Runs, CloseRun(n) PROVE Inv'
  <2>1. UNCHANGED <<tasks, unsaved, exists, tick, half, edits>>
    BY <1>7 DEF CloseRun
  <2>2. /\ faults' \in 0..MaxFaults
        /\ run' \in [Runs -> RunRows]
        /\ \A m \in Runs : /\ run'[m].status # "none" => run[m].status # "none"
                           /\ run'[m].trigger = run[m].trigger
                           /\ run'[m].age = run[m].age
                           /\ run[m] = NoRun => run'[m] = NoRun
    <3>1. CASE Fault /\ UNCHANGED run
      BY <3>1, FaultsTyped DEF Inv, Typed
    <3>2. CASE /\ run' = [run EXCEPT ![n].status =
                           IF @ = "none" THEN @ ELSE "over"]
               /\ UNCHANGED faults
      BY <3>2, StatusTyped DEF Inv, Typed
    <3> QED BY <1>7, <3>1, <3>2 DEF CloseRun
  <2>3. /\ owner' \in [Runs -> Owners]
        /\ \A m \in Runs : m # n => owner'[m] = owner[m]
        /\ owner'[n].pc = "none"
    <3>1. owner' = [owner EXCEPT ![n] = NoOwner]
      BY <1>7 DEF CloseRun
    <3>2. NoOwner.pc = "none"
      BY DEF NoOwner
    <3> QED BY <3>1, <3>2, NoOwnerTyped DEF Inv, Typed
  <2>4. OpensAlone' /\ OpensQuiet'
    <3>1. \A m \in Runs : Opening(m)' => Opening(m)
      BY <2>3 DEF Opening
    <3> QED BY <2>1, <2>2, <3>1, OpensKept, SameRunsSameMinute
  <2> QED
    BY <2>1, <2>2, <2>3, <2>4 DEF Inv, Typed, OwnersWork, ChecksTasks,
       OpensFresh
<1>8. CASE RunNow
  <2>1. UNCHANGED <<tasks, unsaved, exists, run, tick, half, edits, faults>>
    BY <1>8 DEF RunNow
  <2>2. tasks \in Seq(Tasks) /\ tasks # <<>>
    BY <1>8 DEF RunNow, Candidate, Inv, Typed
  <2>3. NextRun \in Runs /\ run[NextRun] = NoRun
    BY <1>8, NextRunUnused DEF RunNow
  <2>4. /\ owner' \in [Runs -> Owners]
        /\ owner'[NextRun].pc = "open" /\ owner'[NextRun].trigger = "manual"
        /\ owner'[NextRun].list # <<>> /\ owner'[NextRun].at = 1
        /\ \A m \in Runs : m # NextRun => owner'[m] = owner[m]
    BY <1>8, <2>2, <2>3, ExecuteOwns DEF RunNow, Inv, Typed
  <2>5. OpensAlone' /\ OpensQuiet'
    <3>1. \A m \in Runs : Opening(m)' => Opening(m)
      BY <2>4 DEF Opening
    <3>2. ScheduledThisMinute' => ScheduledThisMinute
      BY <2>1 DEF ScheduledThisMinute
    <3> QED BY <2>1, <3>1, <3>2, OpensKept
  <2> QED
    BY <2>1, <2>3, <2>4, <2>5 DEF Inv, Typed, OwnersWork, ChecksTasks,
       OpensFresh
<1>9. ASSUME NEW list \in Versions, BeginEdit(list) PROVE Inv'
  <2>1. /\ UNCHANGED <<exists, run, tick, half, faults>>
        /\ tasks' = <<>> /\ unsaved' = list /\ edits' \in 0..MaxEdits
    BY <1>9, SchedulesAssumption DEF BeginEdit, Inv, Typed
  <2>2. list \in Seq(Tasks) /\ <<>> \in Seq(Tasks)
    BY SchedulesAssumption, EmptySeq
  <2>3. /\ owner' \in [Runs -> Owners]
        /\ \A m \in Runs : /\ owner'[m].pc = owner[m].pc
                           /\ owner'[m].pc # "none" =>
                                /\ owner'[m].list = owner[m].list
                                /\ owner'[m].at = owner[m].at
                                /\ owner'[m].trigger = owner[m].trigger
    <3> DEFINE o(m) == IF Alive(m) THEN [owner[m] EXCEPT !.edited = TRUE]
                       ELSE NoOwner
    <3>1. owner' = [m \in Runs |-> o(m)]
      BY <1>9 DEF BeginEdit
    <3>2. ASSUME NEW m \in Runs
          PROVE  /\ o(m) \in Owners /\ o(m).pc = owner[m].pc
                 /\ o(m).pc # "none" => /\ o(m).list = owner[m].list
                                        /\ o(m).at = owner[m].at
                                        /\ o(m).trigger = owner[m].trigger
      <4>1. owner[m] \in Owners
        BY DEF Inv, Typed
      <4>2. CASE Alive(m)
        BY <4>1, <4>2 DEF Owners
      <4>3. CASE ~Alive(m)
        BY <4>3, NoOwnerTyped DEF Alive, NoOwner
      <4> QED BY <4>2, <4>3
    <3> HIDE DEF o
    <3> QED BY <3>1, <3>2
  <2>4. OpensAlone' /\ OpensQuiet'
    <3>1. \A m \in Runs : Opening(m)' => Opening(m)
      BY <2>3 DEF Opening
    <3>2. ScheduledThisMinute' => ScheduledThisMinute
      BY <2>1 DEF ScheduledThisMinute
    <3> QED BY <2>1, <3>1, <3>2, OpensKept
  <2>5. Typed'
    BY <2>1, <2>2, <2>3 DEF Inv, Typed
  <2>6. OwnersWork' /\ OpensFresh' /\ ChecksTasks'
    BY <2>1, <2>3 DEF Inv, OwnersWork, OpensFresh, ChecksTasks
  <2> QED BY <2>4, <2>5, <2>6 DEF Inv
<1>10. CASE InsertTask
  <2>1. /\ UNCHANGED <<exists, run, owner, tick, half, edits, faults>>
        /\ tasks' \in Seq(Tasks) /\ unsaved' \in Seq(Tasks)
    <3>1. tasks \in Seq(Tasks) /\ unsaved \in Seq(Tasks) /\ unsaved # <<>>
      BY <1>10 DEF InsertTask, Inv, Typed
    <3>2. /\ Head(unsaved) \in Tasks /\ Tail(unsaved) \in Seq(Tasks)
          /\ <<>> \in Seq(Tasks)
      BY <3>1, EmptySeq
    <3>3. Append(tasks, Head(unsaved)) \in Seq(Tasks)
      BY <3>1, <3>2
    <3> QED BY <1>10, <3>1, <3>2, <3>3 DEF InsertTask
  <2> QED BY <2>1, TickKeeps DEF Inv, Typed, ChecksTasks
<1>11. CASE Delete
  <2>1. /\ UNCHANGED <<unsaved, owner, tick, half, faults>>
        /\ tasks' = <<>> /\ exists' = FALSE /\ edits' \in 0..MaxEdits
        /\ run' = [n \in Runs |-> NoRun]
    BY <1>11, SchedulesAssumption DEF Delete, Inv, Typed
  <2>2. Typed'
    BY <2>1, NoRunTyped, EmptySeq DEF Inv, Typed
  <2>3. ~ScheduledThisMinute'
    BY <2>1, NoRunTyped DEF ScheduledThisMinute
  <2> QED
    BY <2>1, <2>2, <2>3 DEF Inv, OwnersWork, ChecksTasks, OpensFresh,
       OpensAlone, OpensQuiet, Opening
<1>12. CASE Advance
  <2>1. /\ UNCHANGED <<tasks, unsaved, exists, edits, faults>>
        /\ half' = 1 - half /\ half' \in {0, 1}
        /\ tick' \in Ticks /\ UNCHANGED <<tick.pc, tick.list>>
    <3> DEFINE done == tick.pc # "idle"
    <3>1. tick' = [tick EXCEPT !.done = done]
      BY <1>12 DEF Advance
    <3>2. done \in BOOLEAN
      OBVIOUS
    <3> HIDE DEF done
    <3>3. tick' \in Ticks /\ UNCHANGED <<tick.pc, tick.list>>
      BY <3>1, <3>2 DEF Inv, Typed, Ticks
    <3> QED BY <1>12, <3>3 DEF Advance, Inv, Typed
  <2>2. /\ run' \in [Runs -> RunRows]
        /\ \A m \in Runs :
              /\ run'[m].status = run[m].status
              /\ run'[m].trigger = run[m].trigger
              /\ run[m] = NoRun => run'[m] = NoRun
              /\ \/ run'[m].age = run[m].age + 1
                 \/ run'[m].age = run[m].age
                    /\ (run[m].status # "none" => run[m].age >= 2)
    <3> DEFINE aged(m) == (Running(m) /\ run[m].age < MaxAge) \/ Recent(m)
               row(m) == [run[m] EXCEPT !.age = @ + 1]
               new(m) == IF aged(m) THEN row(m) ELSE run[m]
    <3>1. run' = [m \in Runs |-> new(m)]
      BY <1>12 DEF Advance
    <3>2. ASSUME NEW m \in Runs
          PROVE  /\ new(m) \in RunRows
                 /\ new(m).status = run[m].status
                 /\ new(m).trigger = run[m].trigger
                 /\ run[m] = NoRun => new(m) = NoRun
                 /\ \/ new(m).age = run[m].age + 1
                    \/ new(m).age = run[m].age
                       /\ (run[m].status # "none" => run[m].age >= 2)
      <4>1. run[m] \in RunRows
        BY DEF Inv, Typed
      <4>2. CASE aged(m)
        <5>1. run[m].age < MaxAge /\ run[m] # NoRun
          BY <4>1, <4>2, NoRunTyped, SchedulesAssumption DEF Running, Recent,
             RunRows
        <5>2. new(m) = row(m)
          BY <4>2
        <5> QED BY <4>1, <5>1, <5>2, SchedulesAssumption DEF RunRows
      <4>3. CASE ~aged(m)
        <5>1. run[m].status # "none" => run[m].age >= 2
          BY <4>1, <4>3, SchedulesAssumption DEF Running, Recent, RunRows
        <5>2. new(m) = run[m]
          BY <4>3
        <5> HIDE DEF new
        <5> QED BY <4>1, <5>1, <5>2
      <4> QED BY <4>2, <4>3
    <3> HIDE DEF new
    <3> QED BY <3>1, <3>2
  <2>3. /\ owner' \in [Runs -> Owners]
        /\ \A m \in Runs : /\ owner'[m].pc = owner[m].pc
                           /\ owner'[m].list = owner[m].list
                           /\ owner'[m].at = owner[m].at
                           /\ owner'[m].trigger = owner[m].trigger
    <3> DEFINE waits(m) == [owner[m] EXCEPT !.left = @ - 1]
               works(m) == [owner[m] EXCEPT !.spent = @ + 1]
               o(m) == IF owner[m].pc # "work" THEN owner[m]
                       ELSE IF owner[m].left > 0 THEN waits(m) ELSE works(m)
    <3>1. owner' = [m \in Runs |-> o(m)]
      BY <1>12 DEF Advance
    <3>2. ASSUME NEW m \in Runs
          PROVE  /\ o(m) \in Owners /\ o(m).pc = owner[m].pc
                 /\ o(m).list = owner[m].list /\ o(m).at = owner[m].at
                 /\ o(m).trigger = owner[m].trigger
      <4>1. owner[m] \in Owners
        BY DEF Inv, Typed
      <4>2. CASE owner[m].pc # "work"
        <5>1. o(m) = owner[m]
          BY <4>2
        <5> HIDE DEF o
        <5> QED BY <4>1, <5>1
      <4>3. CASE owner[m].pc = "work" /\ owner[m].left > 0
        <5>1. o(m) = waits(m)
          BY <4>3
        <5>2. owner[m].left - 1 \in Nat
          BY <4>1, <4>3 DEF Owners
        <5>3. waits(m) \in Owners /\ waits(m).pc = owner[m].pc
              /\ waits(m).list = owner[m].list /\ waits(m).at = owner[m].at
              /\ waits(m).trigger = owner[m].trigger
          BY <4>1, <5>2 DEF Owners
        <5> HIDE DEF o, waits
        <5> QED BY <5>1, <5>3
      <4>4. CASE owner[m].pc = "work" /\ ~(owner[m].left > 0)
        <5>1. owner[m].spent < PerTask
          BY <1>12, <4>4 DEF Advance
        <5>2. o(m) = works(m)
          BY <4>4
        <5>3. owner[m].spent + 1 \in 0..PerTask
          BY <4>1, <5>1, SchedulesAssumption DEF Owners
        <5>4. works(m) \in Owners /\ works(m).pc = owner[m].pc
              /\ works(m).list = owner[m].list /\ works(m).at = owner[m].at
              /\ works(m).trigger = owner[m].trigger
          BY <4>1, <5>3 DEF Owners
        <5> HIDE DEF o, works
        <5> QED BY <5>2, <5>4
      <4> QED BY <4>2, <4>3, <4>4
    <3> HIDE DEF o
    <3> QED BY <3>1, <3>2
  <2>4. ScheduledThisMinute' => ScheduledThisMinute
    <3>1. SUFFICES ASSUME NEW m \in Runs, run'[m].status # "none",
                          run'[m].trigger = "scheduled", run'[m].age <= half'
                   PROVE  ScheduledThisMinute
      BY DEF ScheduledThisMinute
    <3>2. run[m].age \in Nat /\ half \in {0, 1}
      BY SchedulesAssumption DEF Inv, Typed, RunRows
    <3>3. run[m].age <= half
      BY <2>1, <2>2, <3>1, <3>2
    <3> QED BY <2>2, <3>1, <3>3 DEF ScheduledThisMinute
  <2>5. OpensAlone' /\ OpensQuiet'
    <3>1. \A m \in Runs : Opening(m)' => Opening(m)
      BY <2>3 DEF Opening
    <3> QED BY <2>1, <2>4, <3>1, OpensKept
  <2>6. Typed'
    BY <2>1, <2>2, <2>3 DEF Inv, Typed
  <2>7. OwnersWork' /\ OpensFresh' /\ ChecksTasks'
    BY <2>1, <2>2, <2>3 DEF Inv, OwnersWork, OpensFresh, ChecksTasks
  <2> QED BY <2>5, <2>6, <2>7 DEF Inv
<1>13. CASE PanelRestarts
  <2>1. /\ UNCHANGED <<tasks, exists, half, edits>>
        /\ unsaved' \in Seq(Tasks) /\ faults' \in 0..MaxFaults
        /\ tick' \in Ticks /\ tick'.pc = "idle"
        /\ owner' = [n \in Runs |-> NoOwner]
    BY <1>13, FaultsTyped, EmptySeq DEF PanelRestarts, Inv, Typed, NoTick,
       Ticks
  <2>2. run' \in [Runs -> RunRows]
    <3> DEFINE row(swept, n) ==
                 [run[n] EXCEPT !.ours = FALSE,
                                !.status = IF swept /\ Running(n)
                                           THEN "over" ELSE @]
    <3>1. PICK swept \in BOOLEAN : run' = [n \in Runs |-> row(swept, n)]
      BY <1>13, Zenon DEF PanelRestarts
    <3>2. ASSUME NEW n \in Runs PROVE row(swept, n) \in RunRows
      <4>1. run[n] \in RunRows
        BY DEF Inv, Typed
      <4> QED BY <4>1 DEF RunRows
    <3> HIDE DEF row
    <3> QED BY <3>1, <3>2
  <2>3. \A n \in Runs : owner'[n].pc = "none"
    BY <2>1 DEF NoOwner
  <2>4. Typed'
    BY <2>1, <2>2, NoOwnerTyped DEF Inv, Typed
  <2> QED
    BY <2>1, <2>3, <2>4 DEF Inv, OwnersWork, ChecksTasks, OpensFresh,
       OpensAlone, OpensQuiet, Opening
<1>14. CASE UNCHANGED vars
  BY <1>14, TickKeeps DEF vars, Inv, Typed, ChecksTasks
<1> QED
  BY <1>1, <1>2, <1>3, <1>4, <1>5, <1>6, <1>7, <1>8, <1>9, <1>10, <1>11, <1>12,
     <1>13, <1>14 DEF Next, TickStep

-----------------------------------------------------------------------------
(* Lemmas about budgets.                                                   *)

\* A list of tasks waits a finite number of half-minutes.
LEMMA WaitsFinite ==
    ASSUME NEW list \in Seq(Tasks)
    PROVE  IsFiniteSet(Waits(list))
<1> DEFINE of(i) == {i} \X (1..list[i].delay)
           all == {of(i) : i \in DOMAIN list}
           f == [i \in DOMAIN list |-> of(i)]
<1>1. IsFiniteSet(DOMAIN list)
  <2>1. DOMAIN list = 1..Len(list) /\ 1 \in Int /\ Len(list) \in Int
    OBVIOUS
  <2> QED BY <2>1, FS_Interval
<1>2. IsFiniteSet(all)
  <2>1. f \in Surjection(DOMAIN list, all)
    BY DEF Surjection
  <2> HIDE DEF f, all
  <2> QED BY <1>1, <2>1, FS_Surjection
<1>3. \A T \in all : IsFiniteSet(T)
  <2>1. SUFFICES ASSUME NEW i \in DOMAIN list PROVE IsFiniteSet(of(i))
    OBVIOUS
  <2>2. list[i].delay \in Int
    <3>1. list[i] \in Tasks
      OBVIOUS
    <3> QED BY <3>1 DEF Tasks
  <2>3. IsFiniteSet({i})
    BY FS_Singleton
  <2>4. IsFiniteSet(1..list[i].delay)
    <3>1. 1 \in Int
      OBVIOUS
    <3> QED BY <2>2, <3>1, FS_Interval
  <2> QED BY <2>3, <2>4, FS_Product
<1> HIDE DEF of, all, f
<1>4. IsFiniteSet(UNION all)
  BY <1>2, <1>3, FS_UNION
<1> QED BY <1>4 DEF Waits, all, of

\* ... and works one, PerTask for each of its tasks.
LEMMA TurnsCounted ==
    ASSUME NEW list \in Seq(Tasks)
    PROVE  /\ IsFiniteSet(Turns(list))
           /\ Cardinality(Turns(list)) = Len(list) * PerTask
<1>1. /\ DOMAIN list = 1..Len(list) /\ Len(list) \in Nat /\ PerTask \in Nat
  BY SchedulesAssumption
<1>2. ASSUME NEW k \in Nat
      PROVE  IsFiniteSet(1..k) /\ Cardinality(1..k) = k
  <2>1. 1 \in Int /\ k \in Int
    OBVIOUS
  <2>2. /\ IsFiniteSet(1..k)
        /\ Cardinality(1..k) = IF 1 > k THEN 0 ELSE k - 1 + 1
    BY <2>1, FS_Interval
  <2> QED BY <2>2
<1>3. /\ IsFiniteSet(DOMAIN list) /\ Cardinality(DOMAIN list) = Len(list)
      /\ IsFiniteSet(1..PerTask) /\ Cardinality(1..PerTask) = PerTask
  BY <1>1, <1>2
<1> QED BY <1>3, FS_Product DEF Turns

\* What an owner has had is finite.
LEMMA HadFinite ==
    ASSUME NEW o \in Owners
    PROVE  /\ IsFiniteSet(WaitedBy(o)) /\ Cardinality(WaitedBy(o)) \in Nat
           /\ IsFiniteSet(WorkedBy(o)) /\ Cardinality(WorkedBy(o)) \in Nat
<1>1. o.list \in Seq(Tasks)
  BY DEF Owners
<1>2. /\ WaitedBy(o) \in SUBSET Waits(o.list)
      /\ WorkedBy(o) \in SUBSET Turns(o.list)
  BY DEF WaitedBy, WorkedBy
<1> QED
  BY <1>1, <1>2, WaitsFinite, TurnsCounted, FS_Subset, FS_CardinalityType

\* A run that began with the saved tasks has had no more than the budget.
LEMMA HadWithinBudget ==
    ASSUME tasks \in Seq(Tasks), NEW o \in Owners, Begins(o.list, tasks),
           o.at \in DOMAIN o.list
    PROVE  /\ Budget \in Nat
           /\ Cardinality(WaitedBy(o)) + Cardinality(WorkedBy(o)) <= Budget
<1>1. o.list \in Seq(Tasks)
  BY DEF Owners
<1>2. WaitedBy(o) \in SUBSET Waits(tasks) /\ WorkedBy(o) \in SUBSET Turns(tasks)
  BY <1>1 DEF WaitedBy, WorkedBy, Waits, Turns, Begins
<1>3. /\ Cardinality(WaitedBy(o)) <= Cardinality(Waits(tasks))
      /\ Cardinality(WorkedBy(o)) <= Len(tasks) * PerTask
      /\ Cardinality(Waits(tasks)) \in Nat
  BY <1>2, WaitsFinite, TurnsCounted, FS_Subset, FS_CardinalityType
<1>4. tasks # <<>> /\ Len(tasks) \in Nat /\ Len(tasks) * PerTask \in Nat
  BY SchedulesAssumption DEF Begins
<1>5. Budget = Cardinality(Waits(tasks)) + Len(tasks) * PerTask
  BY <1>4 DEF Budget, TotalDelay
<1> QED BY <1>3, <1>4, <1>5, HadFinite

\* One half-minute more of a delay, or of a task, is one more had.
LEMMA HadGrows ==
    ASSUME NEW o \in Owners, NEW p \in Owners, o.at \in DOMAIN o.list,
           OwnerFits(o), o.pc = "work",
           p.list = o.list, p.at = o.at,
           \/ o.left > 0 /\ p.left = o.left - 1 /\ p.spent = o.spent
           \/ o.left = 0 /\ p.left = o.left /\ p.spent = o.spent + 1
    PROVE  /\ OwnerFits(p) \/ p.pc # o.pc
           /\ Cardinality(WaitedBy(p)) + Cardinality(WorkedBy(p))
                >= Cardinality(WaitedBy(o)) + Cardinality(WorkedBy(o)) + 1
<1> DEFINE delay == o.list[o.at].delay
<1>1. /\ o.list \in Seq(Tasks) /\ o.left \in Nat /\ o.spent \in 0..PerTask
      /\ p.spent \in 0..PerTask /\ o.at \in Nat /\ PerTask \in Nat
  BY SchedulesAssumption DEF Owners
<1>2. delay \in Nat /\ o.left <= delay
  <2>1. o.list[o.at] \in Tasks
    BY <1>1
  <2> QED BY <2>1 DEF Tasks, OwnerFits
<1>3. \A i \in DOMAIN o.list : o.list[i].delay \in Nat
  <2>1. \A i \in DOMAIN o.list : o.list[i] \in Tasks
    BY <1>1
  <2> QED BY <2>1 DEF Tasks
<1>4. OwnerFits(p) \/ p.pc # o.pc
  BY <1>1, <1>2 DEF OwnerFits
<1>5. CASE o.left > 0 /\ p.left = o.left - 1 /\ p.spent = o.spent
  <2> DEFINE w == <<o.at, delay - o.left + 1>>
  <2>1. w \in Waits(o.list)
    BY <1>1, <1>2, <1>5 DEF Waits
  <2>2. w \notin WaitedBy(o) /\ w \in WaitedBy(p)
    BY <1>1, <1>2, <1>5, <2>1 DEF WaitedBy
  <2>3. WaitedBy(o) \subseteq WaitedBy(p)
    <3>1. \A v \in Waits(o.list) : v[1] \in DOMAIN o.list /\ v[2] \in Nat
      BY <1>3 DEF Waits
    <3> QED BY <1>1, <1>2, <1>5, <3>1 DEF WaitedBy
  <2>4. WaitedBy(o) \cup {w} \in SUBSET WaitedBy(p)
    BY <2>2, <2>3
  <2>5. Cardinality(WaitedBy(o)) + 1 <= Cardinality(WaitedBy(p))
    <3> HIDE DEF w
    <3>1. Cardinality(WaitedBy(o) \cup {w}) = Cardinality(WaitedBy(o)) + 1
      BY <2>2, HadFinite, FS_AddElement
    <3>2. Cardinality(WaitedBy(o) \cup {w}) <= Cardinality(WaitedBy(p))
      BY <2>4, HadFinite, FS_Subset
    <3> QED BY <3>1, <3>2
  <2>6. WorkedBy(p) = WorkedBy(o)
    BY <1>5 DEF WorkedBy
  <2> QED BY <1>4, <2>5, <2>6, HadFinite
<1>6. CASE o.left = 0 /\ p.left = o.left /\ p.spent = o.spent + 1
  <2> DEFINE w == <<o.at, p.spent>>
  <2>1. w \in Turns(o.list)
    BY <1>1, <1>6 DEF Turns
  <2>2. w \notin WorkedBy(o) /\ w \in WorkedBy(p)
    BY <1>1, <1>6, <2>1 DEF WorkedBy
  <2>3. WorkedBy(o) \subseteq WorkedBy(p)
    BY <1>1, <1>6 DEF WorkedBy, Turns
  <2>4. WorkedBy(o) \cup {w} \in SUBSET WorkedBy(p)
    BY <2>2, <2>3
  <2>5. Cardinality(WorkedBy(o)) + 1 <= Cardinality(WorkedBy(p))
    <3> HIDE DEF w
    <3>1. Cardinality(WorkedBy(o) \cup {w}) = Cardinality(WorkedBy(o)) + 1
      BY <2>2, HadFinite, FS_AddElement
    <3>2. Cardinality(WorkedBy(o) \cup {w}) <= Cardinality(WorkedBy(p))
      BY <2>4, HadFinite, FS_Subset
    <3> QED BY <3>1, <3>2
  <2>6. WaitedBy(p) = WaitedBy(o)
    BY <1>6 DEF WaitedBy
  <2> QED BY <1>4, <2>5, <2>6, HadFinite
<1> QED BY <1>5, <1>6

\* The next task takes nothing back.
LEMMA HadKept ==
    ASSUME NEW o \in Owners, NEW p \in Owners, p.list = o.list,
           o.at \in DOMAIN o.list, p.at = o.at + 1
    PROVE  Cardinality(WaitedBy(p)) + Cardinality(WorkedBy(p))
             >= Cardinality(WaitedBy(o)) + Cardinality(WorkedBy(o))
<1>1. o.list \in Seq(Tasks) /\ o.at \in Nat
  BY DEF Owners
<1>2. /\ \A w \in Waits(o.list) : w[1] \in Nat
      /\ \A w \in Turns(o.list) : w[1] \in Nat
  BY <1>1 DEF Waits, Turns
<1>3. WaitedBy(o) \in SUBSET WaitedBy(p) /\ WorkedBy(o) \in SUBSET WorkedBy(p)
  BY <1>1, <1>2 DEF WaitedBy, WorkedBy
<1>4. /\ Cardinality(WaitedBy(o)) <= Cardinality(WaitedBy(p))
      /\ Cardinality(WorkedBy(o)) <= Cardinality(WorkedBy(p))
  BY <1>3, HadFinite, FS_Subset
<1> QED BY <1>4, HadFinite

-----------------------------------------------------------------------------
(* CopyInv is inductive.                                                   *)

\* Nobody works, and the sweep has nothing to do.
LEMMA InitCopy == Init => CopyInv
<1> SUFFICES ASSUME Init PROVE CopyInv
  OBVIOUS
<1>1. /\ \A n \in Runs : owner[n].pc = "none"
      /\ tick.doomed = {} /\ tick.pc = "idle"
  BY DEF Init, NoOwner, NoTick
<1> QED
  BY <1>1 DEF CopyInv, WorkersFit, WorkerFits, OwnerFits, AtWork,
     WorkersSpared, OpensOnly, Opening, NoSecondCopy

\* A run that the step leaves alone, though tasks may be added.
LEMMA WorkerKept ==
    ASSUME NEW n \in Runs, WorkerFits(n), exists' => exists,
           exists' => tasks' = tasks \/ Begins(tasks, tasks'),
           owner'[n] = owner[n] \/ owner'[n].pc \notin {"open", "work"},
           exists' /\ AtWork(n) /\ owner'[n] = owner[n] => run'[n] = run[n]
    PROVE  WorkerFits(n)'
BY DEF WorkerFits, OwnerFits, AtWork, Begins, InTime, Running

\* A step by which no scheduled run goes to work.
LEMMA CopyKept ==
    ASSUME OpensOnly, NoSecondCopy, tick'.pc = "check" => tick.pc = "check",
           \A n \in Runs : Opening(n)' => Opening(n) \/ tick.pc = "check",
           \A n \in Runs : AtWork(n)' /\ owner'[n].trigger = "scheduled" =>
                             AtWork(n) /\ owner[n].trigger = "scheduled"
    PROVE  OpensOnly' /\ NoSecondCopy'
BY DEF OpensOnly, NoSecondCopy, AtWork

\* A step that leaves every owner alone, or without work.
LEMMA OwnersKept ==
    ASSUME CopyInv, exists' => exists,
           exists' => tasks' = tasks \/ Begins(tasks, tasks'),
           tick'.pc = "check" => tick.pc = "check",
           \A n \in Runs :
              /\ owner'[n] = owner[n] \/ owner'[n].pc \notin {"open", "work"}
              /\ exists' /\ AtWork(n) /\ owner'[n] = owner[n]
                   => run'[n] = run[n]
    PROVE  WorkersFit' /\ OpensOnly' /\ NoSecondCopy'
<1>1. WorkersFit'
  BY WorkerKept DEF CopyInv, WorkersFit
<1>2. \A n \in Runs :
         /\ Opening(n)' => Opening(n)
         /\ AtWork(n)' /\ owner'[n].trigger = "scheduled"
              => AtWork(n) /\ owner[n].trigger = "scheduled"
  BY DEF Opening, AtWork
<1> QED BY <1>1, <1>2, CopyKept DEF CopyInv

\* A run of the list it has just been given.
LEMMA WorkerOpens ==
    ASSUME Inv, NEW n \in Runs, NEW trigger \in {"manual", "scheduled"},
           NEW list \in Seq(Tasks), Execute(n, trigger, list),
           UNCHANGED <<tasks, exists>>
    PROVE  WorkerFits(n)'
<1>1. owner'[n].pc = "open" /\ owner'[n].list = list /\ owner'[n].spent = 0
      /\ owner'[n].edited = (list # tasks)
  BY DEF Execute, Inv, Typed, NoOwner
<1> QED BY <1>1 DEF WorkerFits, OwnerFits, AtWork, Begins

LEMMA StepCopy == Inv /\ CopyInv /\ [Next]_vars => CopyInv'
<1> SUFFICES ASSUME Inv, CopyInv, [Next]_vars PROVE CopyInv'
  OBVIOUS
<1> USE DEF CopyInv
<1>0. Inv'
  BY StepInv
<1>1. CASE ReadInterrupted
  <2>1. /\ UNCHANGED <<tasks, unsaved, exists, run, owner>>
        /\ tick'.pc = "sweep"
        /\ tick'.doomed = {n \in Runs : Running(n) /\
                             (~run[n].ours \/ run[n].age > Budget)}
    BY <1>1 DEF ReadInterrupted, Inv, Typed, Ticks
  <2>2. WorkersSpared'
    <3>1. SUFFICES ASSUME NEW n \in tick'.doomed, exists
                   PROVE  run[n] # NoRun /\ ~AtWork(n)
      BY <2>1 DEF WorkersSpared, AtWork
    <3>2. n \in Runs /\ Running(n) /\ (~run[n].ours \/ run[n].age > Budget)
      BY <2>1, <3>1
    <3>3. ASSUME AtWork(n) PROVE FALSE
      <4>1. /\ owner[n] \in Owners /\ owner[n].at \in DOMAIN owner[n].list
            /\ tasks \in Seq(Tasks) /\ run[n].age \in Nat
        BY <3>2, <3>3, SchedulesAssumption DEF AtWork, Inv, Typed, OwnersWork,
           RunRows
      <4>2. /\ Begins(owner[n].list, tasks) /\ run[n].ours
            /\ InTime(run[n], owner[n])
        BY <3>1, <3>2, <3>3 DEF WorkersFit, WorkerFits, AtWork
      <4> QED
        BY <3>2, <4>1, <4>2, HadWithinBudget, HadFinite DEF InTime
    <3> QED BY <3>2, <3>3, NoRunTyped DEF Running
  <2> QED BY <2>1, <2>2, OwnersKept
<1>2. ASSUME NEW n \in Runs, CloseInterrupted(n) PROVE CopyInv'
  <2>1. /\ UNCHANGED <<tasks, exists, owner, tick.pc>>
        /\ n \in tick.doomed /\ tick'.doomed \subseteq tick.doomed
        /\ \A m \in Runs : m # n => run'[m] = run[m]
        /\ \A m \in Runs : run[m] = NoRun <=> run'[m] = NoRun
    BY <1>2, StatusTyped DEF CloseInterrupted, Inv, Typed, Ticks
  <2>2. tick.doomed \subseteq Runs
    BY DEF Inv, Typed, Ticks
  <2>3. exists => ~AtWork(n)
    BY <2>1 DEF WorkersSpared
  <2>4. WorkersSpared'
    BY <2>1, <2>2 DEF WorkersSpared, AtWork
  <2>5. \A m \in Runs : exists' /\ AtWork(m) => run'[m] = run[m]
    BY <2>1, <2>3
  <2> QED BY <2>1, <2>4, <2>5, OwnersKept
<1>3. CASE SweepDone
  <2>1. /\ UNCHANGED <<tasks, exists, run, owner>>
        /\ tick'.pc # "check" /\ tick'.doomed \subseteq tick.doomed
    BY <1>3 DEF SweepDone, NoTick, Inv, Typed, Ticks
  <2>2. WorkersSpared'
    BY <2>1 DEF WorkersSpared, AtWork
  <2> QED BY <2>1, <2>2, OwnersKept
<1>4. CASE ListCandidates
  <2>1. /\ UNCHANGED <<tasks, exists, run, owner>>
        /\ tick'.doomed \subseteq tick.doomed
        /\ tick'.pc = "check" => Candidate
    BY <1>4 DEF ListCandidates, NoTick, Inv, Typed, Ticks
  <2>2. WorkersSpared'
    BY <2>1 DEF WorkersSpared, AtWork
  <2>3. CASE tick'.pc # "check"
    BY <2>1, <2>2, <2>3, OwnersKept
  <2>4. CASE tick'.pc = "check"
    <3>1. \A n \in Runs : ~AtWork(n)
      BY <2>1, <2>4 DEF Candidate, WorkersFit, WorkerFits
    <3>2. OpensOnly' /\ NoSecondCopy'
      BY <2>1, <3>1 DEF OpensOnly, NoSecondCopy, AtWork
    <3>3. WorkersFit'
      BY <2>1, WorkerKept DEF WorkersFit
    <3> QED BY <2>2, <3>2, <3>3
  <2> QED BY <2>3, <2>4
<1>5. CASE FireDue
  <2>1. /\ UNCHANGED <<tasks, exists, run>> /\ tick.pc = "check"
        /\ tick'.pc = "idle" /\ tick'.doomed = {}
    BY <1>5 DEF FireDue, NoTick
  <2>2. WorkersSpared'
    BY <2>1 DEF WorkersSpared
  <2>3. CASE UNCHANGED owner
    BY <2>1, <2>2, <2>3, OwnersKept
  <2>4. CASE Unused # {} /\ Execute(NextRun, "scheduled", tick.list)
    <3>1. PICK n \in Runs : n = NextRun
      BY <2>4, NextRunUnused
    <3>2. tick.list \in Seq(Tasks) /\ Execute(n, "scheduled", tick.list)
      BY <2>4, <3>1 DEF Inv, Typed, Ticks
    <3>3. owner'[n].pc = "open" /\ \A m \in Runs : m # n => owner'[m] = owner[m]
      BY <3>2, ExecuteOwns DEF Inv, Typed
    <3>4. WorkersFit'
      <4>1. WorkerFits(n)'
        BY <2>1, <3>2, WorkerOpens
      <4>2. ASSUME NEW m \in Runs, m # n PROVE WorkerFits(m)'
        BY <2>1, <3>3, <4>2, WorkerKept DEF WorkersFit
      <4> QED BY <4>1, <4>2 DEF WorkersFit
    <3>5. OpensOnly' /\ NoSecondCopy'
      BY <2>1, <3>3, CopyKept DEF AtWork
    <3> QED BY <2>2, <3>4, <3>5
  <2> QED BY <1>5, <2>3, <2>4 DEF FireDue
<1>6. ASSUME NEW n \in Runs, OpenRun(n) PROVE CopyInv'
  <2>1. UNCHANGED <<tasks, exists, tick>> /\ owner[n].pc = "open"
    BY <1>6 DEF OpenRun
  <2>2. CASE exists
    <3>1. /\ run'[n] = [status |-> "running", trigger |-> owner[n].trigger,
                        age |-> 0, ours |-> TRUE]
          /\ owner'[n] = [owner[n] EXCEPT !.pc = "work",
                                          !.left = owner[n].list[1].delay]
          /\ \A m \in Runs : m # n => run'[m] = run[m] /\ owner'[m] = owner[m]
      BY <1>6, <2>2 DEF OpenRun, Inv, Typed
    <3>2. /\ owner'[n].pc = "work" /\ owner'[n].left = owner[n].list[1].delay
          /\ owner'[n].at = 1
          /\ UNCHANGED <<owner[n].list, owner[n].spent, owner[n].edited,
                         owner[n].trigger>>
          /\ run'[n].status = "running" /\ run'[n].age = 0 /\ run'[n].ours
          /\ owner[n].list[1].delay \in Nat
      <4>1. /\ owner[n] \in Owners /\ owner[n].at = 1
            /\ owner[n].list # <<>>
        BY <2>1 DEF Inv, Typed, OwnersWork
      <4>2. owner[n].list \in Seq(Tasks) /\ 1 \in DOMAIN owner[n].list
        BY <4>1 DEF Owners
      <4>3. owner[n].list[1] \in Tasks
        BY <4>2
      <4> QED BY <3>1, <4>1, <4>3 DEF Owners, Tasks
    <3>3. WorkersFit'
      <4>1. WorkerFits(n)'
        <5>1. owner'[n] \in Owners
          BY <1>0 DEF Inv, Typed
        <5>2. InTime(run'[n], owner'[n])
          BY <3>2, <5>1, HadFinite DEF InTime
        <5>3. OwnerFits(owner'[n])
          BY <2>1, <3>2 DEF WorkersFit, WorkerFits, OwnerFits
        <5> QED
          BY <2>1, <3>2, <5>2, <5>3 DEF WorkersFit, WorkerFits, Running, AtWork
      <4>2. ASSUME NEW m \in Runs, m # n PROVE WorkerFits(m)'
        BY <2>1, <3>1, <4>2, WorkerKept DEF WorkersFit
      <4> QED BY <4>1, <4>2 DEF WorkersFit
    <3>4. WorkersSpared'
      <4>1. run[n] = NoRun
        BY <2>1 DEF Inv, OpensFresh
      <4>2. n \notin tick.doomed
        BY <2>2, <4>1 DEF WorkersSpared
      <4>3. tick.doomed \subseteq Runs
        BY DEF Inv, Typed, Ticks
      <4> QED BY <2>1, <3>1, <4>2, <4>3 DEF WorkersSpared, AtWork
    <3>5. CASE owner[n].trigger # "scheduled"
      <4>1. \A m \in Runs :
               /\ Opening(m)' => Opening(m)
               /\ AtWork(m)' /\ owner'[m].trigger = "scheduled"
                    => AtWork(m) /\ owner[m].trigger = "scheduled"
        BY <3>1, <3>2, <3>5 DEF Opening, AtWork
      <4> QED BY <2>1, <3>3, <3>4, <4>1, CopyKept
    <3>6. CASE owner[n].trigger = "scheduled"
      <4>1. Opening(n)
        BY <2>1, <3>6 DEF Opening
      <4>2. /\ tick.pc = "idle" /\ \A m \in Runs : Opening(m) => m = n
            /\ \A m \in Runs : ~(AtWork(m) /\ owner[m].trigger = "scheduled")
        BY <4>1 DEF Inv, OpensAlone, OpensOnly
      <4>3. \A m \in Runs : ~Opening(m)'
        BY <3>1, <3>2, <4>2 DEF Opening
      <4>4. NoSecondCopy'
        BY <3>1, <4>2 DEF NoSecondCopy, AtWork
      <4>5. OpensOnly'
        BY <2>1, <4>2, <4>3 DEF OpensOnly
      <4> QED BY <3>3, <3>4, <4>4, <4>5
    <3> QED BY <3>5, <3>6
  <2>3. CASE ~exists
    <3>1. /\ UNCHANGED run /\ owner'[n].pc = "none"
          /\ \A m \in Runs : m # n => owner'[m] = owner[m]
      BY <1>6, <2>3 DEF OpenRun, Inv, Typed, NoOwner
    <3>2. WorkersSpared'
      BY <2>1, <2>3 DEF WorkersSpared
    <3> QED BY <2>1, <3>1, <3>2, OwnersKept
  <2> QED BY <2>2, <2>3
<1>7. ASSUME NEW n \in Runs, DoTask(n) PROVE CopyInv'
  <2>1. UNCHANGED <<tasks, exists, run, tick>> /\ owner[n].pc = "work"
    BY <1>7 DEF DoTask
  <2>2. owner[n] \in Owners /\ owner'[n] \in Owners
    BY <1>0 DEF Inv, Typed
  <2>3. /\ UNCHANGED <<owner[n].trigger, owner[n].edited, owner[n].list>>
        /\ owner'[n].pc \in {"work", "close"} /\ owner'[n].spent = 0
        /\ owner'[n].pc = "work" =>
             /\ owner'[n].at = owner[n].at + 1
             /\ owner'[n].left = owner[n].list[owner[n].at + 1].delay
        /\ \A m \in Runs : m # n => owner'[m] = owner[m]
    <3> DEFINE o == owner[n]
               over(ok) == o.at = Len(o.list) \/ (~ok /\ ~o.list[o.at].goesOn)
               next(ok) ==
                 [o EXCEPT !.pc = IF over(ok) THEN "close" ELSE "work",
                           !.at = IF over(ok) THEN @ ELSE @ + 1,
                           !.left = IF over(ok) THEN 0
                                    ELSE o.list[o.at + 1].delay,
                           !.spent = 0]
    <3>1. PICK ok \in BOOLEAN : owner' = [owner EXCEPT ![n] = next(ok)]
      BY <1>7, Zenon DEF DoTask
    <3>2. /\ next(ok).trigger = o.trigger /\ next(ok).edited = o.edited
          /\ next(ok).list = o.list /\ next(ok).spent = 0
          /\ next(ok).pc = (IF over(ok) THEN "close" ELSE "work")
          /\ next(ok).at = (IF over(ok) THEN o.at ELSE o.at + 1)
          /\ next(ok).left = (IF over(ok) THEN 0 ELSE o.list[o.at + 1].delay)
      <4> HIDE DEF o, over
      <4>1. o \in Owners
        BY <2>2 DEF o
      <4> QED BY <4>1 DEF Owners
    <3> HIDE DEF next, over
    <3>3. owner'[n] = next(ok) /\ \A m \in Runs : m # n => owner'[m] = owner[m]
      BY <3>1 DEF Inv, Typed
    <3> QED BY <3>2, <3>3
  <2>4. WorkersFit'
    <3>1. ASSUME NEW m \in Runs, m # n PROVE WorkerFits(m)'
      BY <2>1, <2>3, <3>1, WorkerKept DEF WorkersFit
    <3>2. CASE owner'[n].pc = "close"
      BY <3>1, <3>2 DEF WorkersFit, WorkerFits, OwnerFits, AtWork
    <3>3. CASE owner'[n].pc = "work"
      <4>1. owner[n].at \in DOMAIN owner[n].list
            /\ owner'[n].at \in DOMAIN owner'[n].list
        BY <1>0, <2>1, <3>3 DEF Inv, OwnersWork
      <4>2. owner[n].list[owner[n].at + 1].delay \in Nat
        <5>1. owner[n].list[owner[n].at + 1] \in Tasks
          BY <2>2, <2>3, <3>3, <4>1 DEF Owners
        <5> QED BY <5>1 DEF Tasks
      <4>3. OwnerFits(owner'[n])
        BY <2>3, <3>3, <4>2 DEF OwnerFits
      <4>4. InTime(run[n], owner[n]) => InTime(run[n], owner'[n])
        <5>1. run[n].age \in Nat
          BY SchedulesAssumption DEF Inv, Typed, RunRows
        <5> QED BY <2>2, <2>3, <3>3, <4>1, <5>1, HadKept, HadFinite DEF InTime
      <4>5. WorkerFits(n)'
        BY <2>1, <2>3, <3>3, <4>3, <4>4 DEF WorkersFit, WorkerFits, AtWork,
           Running
      <4> QED BY <3>1, <4>5 DEF WorkersFit
    <3> QED BY <2>3, <3>2, <3>3
  <2>5. \A m \in Runs :
           /\ Opening(m)' => Opening(m)
           /\ AtWork(m)' => AtWork(m)
           /\ owner'[m].trigger = owner[m].trigger
    BY <2>1, <2>3 DEF Opening, AtWork
  <2>6. WorkersSpared'
    <3>1. tick.doomed \subseteq Runs
      BY DEF Inv, Typed, Ticks
    <3> QED BY <2>1, <2>5, <3>1 DEF WorkersSpared
  <2> QED BY <2>1, <2>4, <2>5, <2>6, CopyKept
<1>8. ASSUME NEW n \in Runs, CloseRun(n) PROVE CopyInv'
  <2>1. /\ UNCHANGED <<tasks, exists, tick>>
        /\ owner'[n].pc = "none"
        /\ \A m \in Runs : m # n => owner'[m] = owner[m] /\ run'[m] = run[m]
        /\ \A m \in Runs : run[m] = NoRun <=> run'[m] = NoRun
    <3>1. /\ UNCHANGED <<tasks, exists, tick>>
          /\ owner'[n].pc = "none"
          /\ \A m \in Runs : m # n => owner'[m] = owner[m]
      BY <1>8 DEF CloseRun, Inv, Typed, NoOwner
    <3>2. CASE UNCHANGED run
      BY <3>1, <3>2
    <3>3. CASE run' = [run EXCEPT ![n].status =
                         IF @ = "none" THEN @ ELSE "over"]
      BY <3>1, <3>3, StatusTyped DEF Inv, Typed
    <3> QED BY <1>8, <3>2, <3>3 DEF CloseRun
  <2>2. \A m \in Runs : /\ owner'[m] = owner[m] \/ owner'[m].pc = "none"
                        /\ owner'[m] = owner[m] /\ AtWork(m) => run'[m] = run[m]
    <3>1. AtWork(n) => owner'[n] # owner[n]
      BY <2>1 DEF AtWork
    <3> QED BY <2>1, <3>1
  <2>3. WorkersSpared'
    <3>1. tick.doomed \subseteq Runs
      BY DEF Inv, Typed, Ticks
    <3> QED BY <2>1, <2>2, <3>1 DEF WorkersSpared, AtWork
  <2> QED BY <2>1, <2>2, <2>3, OwnersKept
<1>9. CASE RunNow
  <2>1. UNCHANGED <<tasks, exists, run, tick>>
    BY <1>9 DEF RunNow
  <2>2. PICK n \in Runs : Execute(n, "manual", tasks)
    BY <1>9, NextRunUnused DEF RunNow
  <2>3. /\ owner'[n].pc = "open" /\ owner'[n].trigger = "manual"
        /\ \A m \in Runs : m # n => owner'[m] = owner[m]
    BY <2>2, ExecuteOwns DEF Inv, Typed
  <2>4. WorkersFit'
    <3>1. WorkerFits(n)'
      BY <2>1, <2>2, WorkerOpens DEF Inv, Typed
    <3>2. ASSUME NEW m \in Runs, m # n PROVE WorkerFits(m)'
      BY <2>1, <2>3, <3>2, WorkerKept DEF WorkersFit
    <3> QED BY <3>1, <3>2 DEF WorkersFit
  <2>5. \A m \in Runs : /\ Opening(m)' => Opening(m)
                        /\ AtWork(m)' => AtWork(m) /\ owner'[m] = owner[m]
    BY <2>3 DEF Opening, AtWork
  <2>6. WorkersSpared'
    <3>1. tick.doomed \subseteq Runs
      BY DEF Inv, Typed, Ticks
    <3> QED BY <2>1, <2>5, <3>1 DEF WorkersSpared
  <2> QED BY <2>1, <2>4, <2>5, <2>6, CopyKept
<1>10. ASSUME NEW list \in Versions, BeginEdit(list) PROVE CopyInv'
  <2>1. UNCHANGED <<exists, run, tick>>
    BY <1>10 DEF BeginEdit
  <2>2. ASSUME NEW m \in Runs
        PROVE  /\ owner'[m].pc # "none" =>
                    /\ owner'[m].edited
                    /\ UNCHANGED <<owner[m].pc, owner[m].left, owner[m].spent,
                                   owner[m].list, owner[m].at,
                                   owner[m].trigger>>
    <3>1. owner'[m] = IF Alive(m) THEN [owner[m] EXCEPT !.edited = TRUE]
                      ELSE NoOwner
      BY <1>10 DEF BeginEdit
    <3>2. owner[m] \in Owners
      BY DEF Inv, Typed
    <3>3. CASE Alive(m)
      BY <3>1, <3>2, <3>3 DEF Owners
    <3>4. CASE ~Alive(m)
      BY <3>1, <3>4 DEF NoOwner
    <3> QED BY <3>3, <3>4
  <2>3. WorkersFit'
    BY <2>2 DEF WorkersFit, WorkerFits, OwnerFits, AtWork
  <2>4. \A m \in Runs : ~AtWork(m)' /\ (Opening(m)' => Opening(m))
    BY <2>2 DEF AtWork, Opening
  <2>5. WorkersSpared'
    <3>1. tick.doomed \subseteq Runs
      BY DEF Inv, Typed, Ticks
    <3> QED BY <2>1, <2>4, <3>1 DEF WorkersSpared
  <2> QED BY <2>1, <2>3, <2>4, <2>5, CopyKept
<1>11. CASE InsertTask
  <2>1. UNCHANGED <<exists, run, owner, tick>>
    BY <1>11 DEF InsertTask
  <2>2. exists => Begins(tasks, tasks')
    <3>1. SUFFICES ASSUME exists PROVE Begins(tasks, tasks')
      OBVIOUS
    <3>2. /\ tasks \in Seq(Tasks) /\ Head(unsaved) \in Tasks
          /\ tasks' = Append(tasks, Head(unsaved))
      BY <1>11, <3>1 DEF InsertTask, Inv, Typed
    <3> QED BY <3>2 DEF Begins
  <2>3. WorkersSpared'
    BY <2>1 DEF WorkersSpared, AtWork
  <2> QED BY <2>1, <2>2, <2>3, OwnersKept
<1>12. CASE Delete
  <2>1. ~exists' /\ UNCHANGED <<owner, tick>> /\ exists
    BY <1>12 DEF Delete
  <2>2. WorkersSpared'
    BY <2>1 DEF WorkersSpared
  <2> QED BY <2>1, <2>2, OwnersKept
<1>13. CASE Advance
  <2>1. UNCHANGED <<tasks, exists, tick.pc, tick.doomed>>
    BY <1>13 DEF Advance, Inv, Typed, Ticks
  <2>2. ASSUME NEW m \in Runs
        PROVE  /\ run[m].age \in Nat /\ run'[m].age \in Nat
               /\ run'[m].age <= run[m].age + 1
               /\ run'[m].status = run[m].status
               /\ run'[m].ours = run[m].ours
               /\ run[m] = NoRun <=> run'[m] = NoRun
    <3>1. run[m] \in RunRows /\ run'[m] \in RunRows
      BY <1>0 DEF Inv, Typed
    <3>2. run[m].age \in Nat /\ run'[m].age \in Nat
      BY <3>1, SchedulesAssumption DEF RunRows
    <3>3. CASE (Running(m) /\ run[m].age < MaxAge) \/ Recent(m)
      <4>1. run'[m] = [run[m] EXCEPT !.age = @ + 1]
        BY <1>13, <3>3 DEF Advance
      <4>2. /\ run'[m].age = run[m].age + 1 /\ run'[m].status = run[m].status
            /\ run'[m].ours = run[m].ours
        BY <3>1, <4>1 DEF RunRows
      <4>3. run[m].status # "none"
        BY <3>3 DEF Running, Recent
      <4> QED BY <3>2, <4>2, <4>3, NoRunTyped
    <3>4. CASE ~((Running(m) /\ run[m].age < MaxAge) \/ Recent(m))
      <4>1. run'[m] = run[m]
        BY <1>13, <3>4 DEF Advance
      <4> QED BY <3>2, <4>1
    <3> QED BY <3>3, <3>4
  <2>3. ASSUME NEW m \in Runs, owner[m].pc = "work"
        PROVE  /\ UNCHANGED <<owner[m].pc, owner[m].trigger, owner[m].edited,
                              owner[m].list, owner[m].at>>
               /\ \/ /\ owner[m].left > 0 /\ owner'[m].left = owner[m].left - 1
                     /\ owner'[m].spent = owner[m].spent
                  \/ /\ owner[m].left = 0 /\ owner'[m].left = owner[m].left
                     /\ owner'[m].spent = owner[m].spent + 1
    <3>1. owner[m] \in Owners
      BY DEF Inv, Typed
    <3>2. owner'[m] = IF owner[m].left > 0
                      THEN [owner[m] EXCEPT !.left = @ - 1]
                      ELSE [owner[m] EXCEPT !.spent = @ + 1]
      BY <1>13, <2>3 DEF Advance
    <3>3. CASE owner[m].left > 0
      BY <3>1, <3>2, <3>3 DEF Owners
    <3>4. CASE ~(owner[m].left > 0)
      BY <3>1, <3>2, <3>4 DEF Owners
    <3> QED BY <3>3, <3>4
  <2>4. ASSUME NEW m \in Runs, owner[m].pc # "work"
        PROVE  owner'[m] = owner[m]
    BY <1>13, <2>4 DEF Advance
  <2>5. WorkersFit'
    <3>1. ASSUME NEW m \in Runs, owner[m].pc # "work" PROVE WorkerFits(m)'
      <4>1. owner'[m] = owner[m] /\ ~AtWork(m)
        BY <2>4, <3>1 DEF AtWork
      <4> QED BY <2>1, <4>1, WorkerKept DEF WorkersFit
    <3>2. ASSUME NEW m \in Runs, owner[m].pc = "work" PROVE WorkerFits(m)'
      <4>1. /\ owner[m] \in Owners /\ owner'[m] \in Owners
            /\ owner[m].at \in DOMAIN owner[m].list
        BY <1>0, <3>2 DEF Inv, Typed, OwnersWork
      <4>2. WorkerFits(m)
        BY DEF WorkersFit
      <4>3. /\ OwnerFits(owner'[m])
            /\ Cardinality(WaitedBy(owner'[m])) + Cardinality(WorkedBy(owner'[m]))
                 >= Cardinality(WaitedBy(owner[m]))
                      + Cardinality(WorkedBy(owner[m])) + 1
        BY <2>3, <3>2, <4>1, <4>2, HadGrows DEF WorkerFits
      <4>4. InTime(run[m], owner[m]) => InTime(run'[m], owner'[m])
        BY <2>2, <4>1, <4>3, HadFinite DEF InTime
      <4> QED
        BY <2>1, <2>2, <2>3, <3>2, <4>2, <4>3, <4>4 DEF WorkerFits, AtWork,
           Running
    <3> QED BY <3>1, <3>2 DEF WorkersFit
  <2>6. \A m \in Runs :
           /\ Opening(m)' => Opening(m)
           /\ AtWork(m)' <=> AtWork(m)
           /\ owner'[m].trigger = owner[m].trigger
    BY <2>3, <2>4 DEF Opening, AtWork
  <2>7. WorkersSpared'
    <3>1. tick.doomed \subseteq Runs
      BY DEF Inv, Typed, Ticks
    <3> QED BY <2>1, <2>2, <2>6, <3>1 DEF WorkersSpared
  <2> QED BY <2>1, <2>5, <2>6, <2>7, CopyKept
<1>14. CASE PanelRestarts
  <2>1. /\ UNCHANGED <<tasks, exists>> /\ tick'.doomed = {} /\ tick'.pc = "idle"
        /\ \A n \in Runs : owner'[n].pc = "none"
    BY <1>14 DEF PanelRestarts, NoTick, NoOwner
  <2>2. WorkersSpared'
    BY <2>1 DEF WorkersSpared
  <2>3. \A n \in Runs : exists' /\ AtWork(n) /\ owner'[n] = owner[n]
                          => run'[n] = run[n]
    BY <2>1 DEF AtWork
  <2> QED BY <2>1, <2>2, <2>3, OwnersKept
<1>15. CASE UNCHANGED vars
  <2>1. WorkersSpared'
    BY <1>15 DEF vars, WorkersSpared, AtWork
  <2> QED BY <1>15, <2>1, OwnersKept DEF vars
<1> QED
  BY <1>1, <1>2, <1>3, <1>4, <1>5, <1>6, <1>7, <1>8, <1>9, <1>10, <1>11, <1>12,
     <1>13, <1>14, <1>15 DEF Next, TickStep

-----------------------------------------------------------------------------
(* The theorems.                                                           *)

\* Type correctness.
THEOREM SchedulesTypeCorrect == Spec => []TypeOK
<1>1. Inv => TypeOK
  BY DEF Inv, Typed, OwnersWork, Owners, Ticks, TypeOK
<1> QED BY <1>1, InitInv, StepInv, PTL DEF Spec

\* The double-fire guard, across restarts and edits: no run of the schedule is
\* opened by the tick in a minute that has one already.
THEOREM FiresOnceAMinute == Spec => OnceAMinute
<1> DEFINE Once == \A n \in Runs :
                     owner[n].pc = "open" /\ owner[n].trigger = "scheduled"
                     /\ run'[n].status = "running" => ~ScheduledThisMinute
<1>1. Inv /\ [Next]_vars => [Once]_vars
  BY DEF Inv, OpensQuiet, Opening
<1>2. Spec => [][Once]_vars
  BY <1>1, InitInv, StepInv, PTL DEF Spec
<1> QED BY <1>2 DEF OnceAMinute

\* "Stops a later tick starting a second copy of a slow run": whatever the
\* lists, delays, edits, deaths of the panel and failed sweeps, two scheduled
\* runs are at work at once only when the schedule was edited under one of them.
THEOREM NoSecondCopyRuns == Spec => []NoSecondCopy
<1>1. Inv /\ CopyInv /\ [Next]_vars => (Inv /\ CopyInv)'
  BY StepInv, StepCopy
<1>2. Inv /\ CopyInv => NoSecondCopy
  BY DEF CopyInv
<1> QED BY <1>1, <1>2, InitInv, InitCopy, PTL DEF Spec
=============================================================================

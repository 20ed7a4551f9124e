----------------------- MODULE ServerMigrationProofs -----------------------
(***************************************************************************)
(* ServerMigration implements ServerHome, whatever the nodes, the ports    *)
(* and the faults.                                                         *)
(*                                                                         *)
(* The invariant says, while the promise is not void, what each place in   *)
(* the run knows: which of its two nodes the record names (RecordInv),     *)
(* that nobody can start the server between the hold and the cutover       *)
(* (HoldInv), that the destination's copy is complete from the transfer on *)
(* (CopyInv), that a restore which outlives its run writes only where the  *)
(* server is not (JobInv), that the game makes every other copy old        *)
(* (GameInv), and that claims and containers agree (PortInv).  None of     *)
(* them is inductive without the others: a rollback may delete because of  *)
(* RecordInv, and finds the source complete because of GameInv and JobInv. *)
(* The last part does without the promise: who holds a server.             *)
(***************************************************************************)
EXTENDS ServerMigration, TLAPS

-----------------------------------------------------------------------------
(* Where the run is.                                                       *)

Undoing == {"assess", "record", "remove", "restart", "end"}
Forward == task.step \notin Undoing \cup {"idle"}

\* The steps of each phase.
StepsFit ==
    /\ task.step \in {"stop", "hold"} => task.phase = "stopping"
    /\ task.step \in {"prepare", "fetch", "await"} => task.phase = "transferring"
    /\ task.step = "env" => task.phase = "cutover"
    /\ task.step \in {"start", "close"} => task.phase = "cleanup"
    /\ task.step = "check" =>
          task.phase \in {"backup", "stopping", "transferring",
                          "allocating_ports", "building"}

BeforeCutOver == task.phase = "cutover" /\ task.step \in {"enter", "work"}
AfterTransfer == \/ task.phase \in {"allocating_ports", "building", "verifying"}
                 \/ BeforeCutOver

\* From the `migrating` to the cutover; with a complete copy on the
\* destination; with a container there; with a port chosen for it.
Holding == Forward /\ (At("stopping", "check") \/ task.phase = "transferring"
                       \/ AfterTransfer)
AwaitsCopy == At("transferring", "await")
HasCopy == Forward /\ (At("transferring", "check") \/ AfterTransfer)
HasBox == Forward /\ (At("building", "check") \/ task.phase = "verifying"
                      \/ BeforeCutOver)
HasPort == Forward /\ (At("allocating_ports", "check") \/
                       task.phase \in {"building", "verifying", "cutover",
                                       "cleanup"})

\* Types, and what they need of the run's place.
RunTyped == task \in Tasks /\ StepsFit /\ (HasPort => task.to \in Ports)
NodesTyped ==
    /\ disk \in [Nodes -> Contents]
    /\ box \in [Nodes -> Boxes]
    /\ job \in [Nodes -> Jobs]
DataTyped ==
    /\ row \in Rows
    /\ mig \in Migrations
    /\ cancel \in BOOLEAN /\ spoiled \in BOOLEAN
    /\ rival \in (Nodes \X Ports) \cup {<<>>}
    /\ accepted \in 0..MaxMigrations /\ faults \in 0..MaxFaults
Typed == RunTyped /\ NodesTyped /\ DataTyped

-----------------------------------------------------------------------------
(* The inductive invariant, while the promise is not void.                 *)

RunInv ==
    /\ ~Idle => /\ task.src # task.dst
                /\ task.prev \in {"running", "stopped", "error"}
                /\ task.built => task.data
    /\ At("transferring", "fetch") \/ AwaitsCopy \/ HasCopy => task.data

\* Which of the two nodes the record names, by the run's place.
RecordInv ==
    /\ Forward => IF task.phase = "cleanup" THEN row.node = task.dst /\ task.cut
                  ELSE /\ ~task.cut
                       /\ row.node = IF task.step = "env" THEN task.dst
                                     ELSE task.src
    /\ task.step \in {"assess", "record"} =>
          row.node = IF task.cut THEN task.dst ELSE task.src
    /\ task.step \in {"remove", "restart", "end"} => row.node = task.src
    /\ task.step = "end" => row.status # "migrating"

\* While the record says `migrating` nobody starts the server.
HoldInv == Holding => row.status = "migrating" /\ ~box[task.src].up

CopyInv ==
    /\ disk[row.node] = "all"
    /\ HasCopy => disk[task.dst] = "all" /\ job[task.dst].state # "running"
    /\ AwaitsCopy /\ task.snapshot =>
          /\ job[task.dst].makes = "all"
          /\ job[task.dst].state = "done" => disk[task.dst] = "all"

\* A job writes where the server is not, and into a directory that is not
\* complete; a rollback that may delete knows of it.
JobInv ==
    /\ ~task.snapshot => \A n \in Nodes : job[n].state = "none"
    /\ \A n \in Nodes : job[n].state = "running" =>
          n # row.node /\ (~Idle => n # task.src)
    /\ \A n \in Nodes : job[n].state = "running" /\ job[n].heard =>
          disk[n] = "some"
    /\ ~Idle /\ task.data /\ job[task.dst].state = "running"
       /\ job[task.dst].heard => task.known

\* The game runs where the record is, and makes every other copy old.
GameInv ==
    \A n \in Nodes : box[n].up =>
        /\ n = row.node
        /\ \A m \in Nodes \ {n} : disk[m] # "all" /\ job[m].makes # "all"

PortInv ==
    /\ box[row.node].port = row.port
    /\ HasBox => box[task.dst].port = task.to
    /\ ~Idle /\ disk[task.src] = "all" => box[task.src].port = task.from

\* A rollback that says everything is restored.
GoneInv ==
    task.step \in {"restart", "end"} /\ task.outcome = "restored" /\ task.data =>
        /\ box[task.dst] = NoBox
        /\ disk[task.dst] = "none" \/ ~job[task.dst].heard
        /\ ~(job[task.dst].state = "running" /\ job[task.dst].heard)

Placed == /\ RunInv /\ RecordInv /\ HoldInv /\ CopyInv /\ JobInv /\ GameInv
          /\ PortInv /\ GoneInv

Inv == spoiled \/ Placed
-----------------------------------------------------------------------------
(* How the run moves: what a step of each form leaves alone.               *)

\* What a run is told when it is accepted.
Fixed == <<task.src, task.dst, task.prev, task.from, task.snapshot>>

\* The next step of the phase.
LEMMA GotoMoves ==
    ASSUME task \in Tasks, NEW s \in Steps, Goto(s)
    PROVE  /\ task' \in Tasks /\ task'.step = s
           /\ UNCHANGED <<Fixed, task.phase, task.to, task.data, task.built,
                          task.cut, task.known, task.cancelled, task.outcome>>
BY DEF Goto, Tasks, Fixed

\* The first step of another phase.
LEMMA EnterMoves ==
    ASSUME task \in Tasks, NEW p \in Phases, Enter(p)
    PROVE  /\ task' \in Tasks /\ task'.step = "enter" /\ task'.phase = p
           /\ UNCHANGED <<Fixed, task.to, task.data, task.built, task.cut,
                          task.known, task.cancelled, task.outcome>>
BY DEF Enter, Tasks, Steps, Fixed

\* The rollback.
LEMMA UnwindMoves ==
    ASSUME task \in Tasks, Unwind \/ Unwound
    PROVE  /\ task' \in Tasks /\ task'.step = "assess"
           /\ UNCHANGED <<Fixed, task.phase, task.to, task.data, task.built,
                          task.cut, task.known>>
BY DEF Unwind, Unwound, Tasks, Steps, Fixed

\* What a step learns or decides on the way.
LEMMA RunLearns ==
    ASSUME task \in Tasks, NEW s \in Steps
    PROVE  /\ \A o \in {"not_needed", "restored", "partial"} :
                  task' = [task EXCEPT !.step = s, !.outcome = o] =>
                     /\ task' \in Tasks /\ task'.step = s /\ task'.outcome = o
                     /\ UNCHANGED <<Fixed, task.phase, task.to, task.data,
                                    task.built, task.cut, task.known,
                                    task.cancelled>>
           /\ \A b \in BOOLEAN :
                  task' = [task EXCEPT !.step = s, !.known = b] =>
                     /\ task' \in Tasks /\ task'.step = s /\ task'.known = b
                     /\ UNCHANGED <<Fixed, task.phase, task.to, task.data,
                                    task.built, task.cut>>
           /\ task' = [task EXCEPT !.step = s, !.data = TRUE] =>
                     /\ task' \in Tasks /\ task'.step = s /\ task'.data
                     /\ UNCHANGED <<Fixed, task.phase, task.to, task.built,
                                    task.cut, task.known>>
           /\ task' = [task EXCEPT !.step = s, !.built = TRUE] =>
                     /\ task' \in Tasks /\ task'.step = s /\ task'.built
                     /\ UNCHANGED <<Fixed, task.phase, task.to, task.data,
                                    task.cut, task.known>>
           /\ \A p \in Ports :
                  task' = [task EXCEPT !.step = s, !.to = p] =>
                     /\ task' \in Tasks /\ task'.step = s /\ task'.to = p
                     /\ UNCHANGED <<Fixed, task.phase, task.data, task.built,
                                    task.cut, task.known>>
           /\ task' = [task EXCEPT !.phase = "cleanup", !.step = "enter",
                                   !.cut = TRUE] =>
                     /\ task' \in Tasks /\ task'.step = "enter"
                     /\ task'.phase = "cleanup" /\ task'.cut
                     /\ UNCHANGED <<Fixed, task.to, task.data, task.built,
                                    task.known>>
<1>1. ASSUME NEW o \in {"not_needed", "restored", "partial"},
             task' = [task EXCEPT !.step = s, !.outcome = o]
      PROVE  /\ task' \in Tasks /\ task'.step = s /\ task'.outcome = o
             /\ UNCHANGED <<Fixed, task.phase, task.to, task.data, task.built,
                            task.cut, task.known, task.cancelled>>
  BY <1>1 DEF Tasks, Fixed
<1>2. ASSUME NEW b \in BOOLEAN, task' = [task EXCEPT !.step = s, !.known = b]
      PROVE  /\ task' \in Tasks /\ task'.step = s /\ task'.known = b
             /\ UNCHANGED <<Fixed, task.phase, task.to, task.data, task.built,
                            task.cut>>
  BY <1>2 DEF Tasks, Fixed
<1>3. ASSUME task' = [task EXCEPT !.step = s, !.data = TRUE]
      PROVE  /\ task' \in Tasks /\ task'.step = s /\ task'.data
             /\ UNCHANGED <<Fixed, task.phase, task.to, task.built, task.cut,
                            task.known>>
  BY <1>3 DEF Tasks, Fixed
<1>4. ASSUME task' = [task EXCEPT !.step = s, !.built = TRUE]
      PROVE  /\ task' \in Tasks /\ task'.step = s /\ task'.built
             /\ UNCHANGED <<Fixed, task.phase, task.to, task.data, task.cut,
                            task.known>>
  BY <1>4 DEF Tasks, Fixed
<1>5. ASSUME NEW p \in Ports, task' = [task EXCEPT !.step = s, !.to = p]
      PROVE  /\ task' \in Tasks /\ task'.step = s /\ task'.to = p
             /\ UNCHANGED <<Fixed, task.phase, task.data, task.built, task.cut,
                            task.known>>
  BY <1>5 DEF Tasks, Fixed
<1>6. ASSUME task' = [task EXCEPT !.phase = "cleanup", !.step = "enter",
                                  !.cut = TRUE]
      PROVE  /\ task' \in Tasks /\ task'.step = "enter"
             /\ task'.phase = "cleanup" /\ task'.cut
             /\ UNCHANGED <<Fixed, task.to, task.data, task.built, task.known>>
  BY <1>6 DEF Tasks, Fixed, Phases, Steps
<1> QED BY <1>1, <1>2, <1>3, <1>4, <1>5, <1>6

-----------------------------------------------------------------------------
(* Types.                                                                  *)

\* A fault more is still within the bound.
LEMMA FaultsTyped ==
    ASSUME faults \in 0..MaxFaults, NEW kind, Fault(kind)
    PROVE  faults' \in 0..MaxFaults
BY MigrationAssumption DEF Fault

\* Starting the server on a node, and removing it from one.
LEMMA StartedTyped ==
    ASSUME NodesTyped, NEW n \in Nodes, StartedOn(n)
    PROVE  NodesTyped'
<1>1. box' \in [Nodes -> Boxes]
  BY DEF NodesTyped, StartedOn, Boxes
<1>2. disk' \in [Nodes -> Contents]
  BY DEF NodesTyped, StartedOn, Contents
<1>3. job' \in [Nodes -> Jobs]
  <2>1. \A j \in Jobs : [j EXCEPT !.makes = "some"] \in Jobs
    BY DEF Jobs, Contents
  <2> QED BY <2>1 DEF NodesTyped, StartedOn
<1> QED BY <1>1, <1>2, <1>3 DEF NodesTyped

\* ... and removing it keeps them too.
LEMMA DeletedTyped ==
    ASSUME NodesTyped, NEW n \in Nodes, DeletedFrom(n)
    PROVE  NodesTyped'
<1>1. box' \in [Nodes -> Boxes] /\ disk' \in [Nodes -> Contents]
  BY DEF NodesTyped, DeletedFrom, Boxes, NoBox, Contents
<1>2. job' \in [Nodes -> Jobs]
  <2>1. \A j \in Jobs : [j EXCEPT !.makes = IF @ = "all" THEN "some" ELSE @] \in Jobs
    BY DEF Jobs, Contents
  <2> QED BY <2>1 DEF NodesTyped, DeletedFrom
<1> QED BY <1>1, <1>2 DEF NodesTyped

\* What a run's nodes are.
LEMMA RunNodes == task \in Tasks => task.src \in Nodes /\ task.dst \in Nodes
BY DEF Tasks

\* Every step keeps them.
LEMMA TypedStep == Typed /\ [Next]_vars => Typed'
<1> SUFFICES ASSUME Typed, [Next]_vars PROVE Typed'
  OBVIOUS
<1> USE MigrationAssumption DEF Typed
<1>1. CASE EnterPhase
  <2>1. RunTyped'
    BY <1>1, GotoMoves, UnwindMoves DEF EnterPhase, RunTyped, DataTyped,
       StepsFit, HasPort, Forward, Undoing, Steps, Phases, At, Fixed
  <2>2. NodesTyped'
    BY <1>1, RunNodes DEF EnterPhase, RunTyped, NodesTyped, nodeVars
  <2>3. DataTyped'
    BY <1>1, FaultsTyped DEF EnterPhase, DataTyped, nodeVars, othersVars,
       Migrations
  <2> QED BY <2>1, <2>2, <2>3
<1>2. CASE Checkpoint
  <2>1. RunTyped'
    BY <1>2, EnterMoves, UnwindMoves DEF Checkpoint, RunTyped, DataTyped,
       StepsFit, HasPort, Forward, Undoing, Steps, Phases, At, Fixed,
       Following
  <2>2. NodesTyped'
    BY <1>2, RunNodes DEF Checkpoint, RunTyped, NodesTyped, nodeVars
  <2>3. DataTyped'
    BY <1>2 DEF Checkpoint, RunTyped, DataTyped, Tasks, nodeVars, othersVars,
       HasPort, At, Forward, Undoing, StepsFit, Rows, Statuses, Migrations
  <2> QED BY <2>1, <2>2, <2>3
<1>3. CASE TakeSafetyBackup
  <2>1. RunTyped'
    BY <1>3, GotoMoves, UnwindMoves DEF TakeSafetyBackup, RunTyped, DataTyped,
       StepsFit, HasPort, Forward, Undoing, Steps, Phases, At, Fixed
  <2>2. NodesTyped'
    BY <1>3, RunNodes DEF TakeSafetyBackup, RunTyped, NodesTyped, nodeVars
  <2>3. DataTyped'
    BY <1>3, FaultsTyped DEF TakeSafetyBackup, RunTyped, DataTyped, Tasks,
       nodeVars, othersVars, HasPort, At, Forward, Undoing, StepsFit, Rows,
       Statuses, Migrations
  <2> QED BY <2>1, <2>2, <2>3
<1>4. CASE BeginStop
  <2>1. RunTyped'
    BY <1>4, GotoMoves DEF BeginStop, RunTyped, DataTyped, StepsFit, HasPort,
       Forward, Undoing, Steps, Phases, At, Fixed
  <2>2. NodesTyped'
    BY <1>4 DEF BeginStop, RunTyped, NodesTyped, nodeVars
  <2>3. DataTyped'
    BY <1>4 DEF BeginStop, RunTyped, DataTyped, Tasks, nodeVars, othersVars,
       HasPort, At, Forward, Undoing, StepsFit, Rows, Statuses, Migrations
  <2> QED BY <2>1, <2>2, <2>3
<1>5. CASE StopSource
  <2>1. RunTyped'
    BY <1>5, GotoMoves, UnwindMoves DEF StopSource, RunTyped, DataTyped,
       StepsFit, HasPort, Forward, Undoing, Steps, Phases, At, Fixed
  <2>2. NodesTyped'
    <3>1. task.src \in Nodes
      BY RunNodes DEF RunTyped
    <3>2. box' \in [Nodes -> Boxes]
      BY <1>5, <3>1 DEF StopSource, NodesTyped, Boxes
    <3> QED BY <1>5, <3>2 DEF StopSource, NodesTyped
  <2>3. DataTyped'
    BY <1>5, FaultsTyped DEF StopSource, RunTyped, DataTyped, Tasks, nodeVars,
       othersVars, HasPort, At, Forward, Undoing, StepsFit, Rows, Statuses,
       Migrations
  <2> QED BY <2>1, <2>2, <2>3
<1>6. CASE HoldSource
  <2>1. RunTyped'
    BY <1>6, GotoMoves DEF HoldSource, RunTyped, DataTyped, StepsFit, HasPort,
       Forward, Undoing, Steps, Phases, At, Fixed
  <2>2. NodesTyped'
    BY <1>6, RunNodes DEF HoldSource, RunTyped, NodesTyped, nodeVars
  <2>3. DataTyped'
    BY <1>6 DEF HoldSource, RunTyped, DataTyped, Tasks, nodeVars, othersVars,
       HasPort, At, Forward, Undoing, StepsFit, Rows, Statuses, Migrations
  <2> QED BY <2>1, <2>2, <2>3
<1>7. CASE CompleteSnapshot
  <2>1. RunTyped'
    BY <1>7, GotoMoves, UnwindMoves DEF CompleteSnapshot, RunTyped, DataTyped,
       StepsFit, HasPort, Forward, Undoing, Steps, Phases, At, Fixed
  <2>2. NodesTyped'
    BY <1>7, RunNodes DEF CompleteSnapshot, RunTyped, NodesTyped, nodeVars
  <2>3. DataTyped'
    BY <1>7, FaultsTyped DEF CompleteSnapshot, RunTyped, DataTyped, Tasks,
       nodeVars, othersVars, HasPort, At, Forward, Undoing, StepsFit, Rows,
       Statuses, Migrations
  <2> QED BY <2>1, <2>2, <2>3
<1>8. CASE PrepareDestination
  <2>1. RunTyped'
    BY <1>8, UnwindMoves, RunLearns DEF PrepareDestination, RunTyped,
       DataTyped, StepsFit, HasPort, Forward, Undoing, Steps, Phases, At,
       Fixed
  <2>2. NodesTyped'
    BY <1>8, RunNodes DEF PrepareDestination, RunTyped, NodesTyped, nodeVars
  <2>3. DataTyped'
    BY <1>8, FaultsTyped DEF PrepareDestination, RunTyped, DataTyped, Tasks,
       nodeVars, othersVars, HasPort, At, Forward, Undoing, StepsFit, Rows,
       Statuses, Migrations
  <2> QED BY <2>1, <2>2, <2>3
<1>9. CASE StartStream
  <2>1. RunTyped'
    BY <1>9, GotoMoves DEF StartStream, RunTyped, DataTyped, StepsFit,
       HasPort, Forward, Undoing, Steps, Phases, At, Fixed
  <2>2. NodesTyped'
    BY <1>9, RunNodes DEF StartStream, RunTyped, NodesTyped, nodeVars, Boxes,
       Contents, Jobs, SourceNow, StepsFit, HasPort, Forward, Undoing, At
  <2>3. DataTyped'
    BY <1>9 DEF StartStream, RunTyped, DataTyped, Tasks, nodeVars, othersVars,
       HasPort, At, Forward, Undoing, StepsFit, Rows, Statuses, Migrations
  <2> QED BY <2>1, <2>2, <2>3
<1>10. CASE EndStream
  <2>1. RunTyped'
    BY <1>10, GotoMoves, UnwindMoves DEF EndStream, RunTyped, DataTyped,
       StepsFit, HasPort, Forward, Undoing, Steps, Phases, At, Fixed
  <2>2. NodesTyped'
    BY <1>10, RunNodes DEF EndStream, RunTyped, NodesTyped, nodeVars, Boxes,
       Contents, Jobs, SourceNow, StepsFit, HasPort, Forward, Undoing, At
  <2>3. DataTyped'
    BY <1>10, FaultsTyped DEF EndStream, RunTyped, DataTyped, Tasks, nodeVars,
       othersVars, HasPort, At, Forward, Undoing, StepsFit, Rows, Statuses,
       Migrations
  <2> QED BY <2>1, <2>2, <2>3
<1>11. CASE StartRestore
  <2>1. RunTyped'
    BY <1>11, UnwindMoves, RunLearns DEF StartRestore, RunTyped, DataTyped,
       StepsFit, HasPort, Forward, Undoing, Steps, Phases, At, Fixed
  <2>2. NodesTyped'
    <3>1. SourceNow \in Contents /\ task.dst \in Nodes
      BY RunNodes DEF SourceNow, NodesTyped, RunTyped, Contents
    <3>2. job' \in [Nodes -> Jobs]
      <4>1. \/ UNCHANGED job
            \/ \E h \in BOOLEAN :
                  job' = [job EXCEPT ![task.dst] = [state |-> "running",
                             heard |-> h, makes |-> SourceNow]]
        BY <1>11, Zenon DEF StartRestore
      <4>2. \A h \in BOOLEAN :
               [state |-> "running", heard |-> h, makes |-> SourceNow] \in Jobs
        BY <3>1 DEF Jobs
      <4>3. \A x \in Jobs : [job EXCEPT ![task.dst] = x] \in [Nodes -> Jobs]
        BY DEF NodesTyped
      <4>4. job \in [Nodes -> Jobs]
        BY DEF NodesTyped
      <4> QED BY <4>1, <4>2, <4>3, <4>4, Zenon
    <3>3. disk' \in [Nodes -> Contents]
      BY <1>11, <3>1 DEF StartRestore, NodesTyped, Contents
    <3> QED BY <1>11, <3>2, <3>3 DEF StartRestore, NodesTyped
  <2>3. DataTyped'
    BY <1>11, FaultsTyped DEF StartRestore, RunTyped, DataTyped, Tasks,
       nodeVars, othersVars, HasPort, At, Forward, Undoing, StepsFit, Rows,
       Statuses, Migrations
  <2> QED BY <2>1, <2>2, <2>3
<1>12. CASE AwaitRestore
  <2>1. RunTyped'
    BY <1>12, UnwindMoves, RunLearns DEF AwaitRestore, RunTyped, DataTyped,
       StepsFit, HasPort, Forward, Undoing, Steps, Phases, At, Fixed
  <2>2. NodesTyped'
    BY <1>12, RunNodes DEF AwaitRestore, RunTyped, NodesTyped, nodeVars
  <2>3. DataTyped'
    BY <1>12, FaultsTyped DEF AwaitRestore, RunTyped, DataTyped, Tasks,
       nodeVars, othersVars, HasPort, At, Forward, Undoing, StepsFit, Rows,
       Statuses, Migrations
  <2> QED BY <2>1, <2>2, <2>3
<1>13. CASE PlanPorts
  <2>1. RunTyped'
    <3>1. task \in Tasks /\ task.from \in Ports
      BY DEF RunTyped, Tasks
    <3>2. CASE Unwind
      BY <1>13, <3>1, <3>2, UnwindMoves DEF PlanPorts, RunTyped, StepsFit,
         HasPort, Forward, Undoing, At
    <3>3. ASSUME NEW p \in Ports, task' = [task EXCEPT !.step = "check", !.to = p]
          PROVE  RunTyped'
      <4>1. /\ task' \in Tasks /\ task'.step = "check" /\ task'.to \in Ports
            /\ UNCHANGED task.phase
        BY <3>1, <3>3, RunLearns DEF Steps
      <4>2. task.phase = "allocating_ports"
        BY <1>13 DEF PlanPorts, At
      <4> QED
        BY <4>1, <4>2 DEF RunTyped, StepsFit, HasPort, Forward, Undoing, At
    <3> QED BY <1>13, <3>1, <3>2, <3>3 DEF PlanPorts
  <2>2. NodesTyped'
    BY <1>13, RunNodes DEF PlanPorts, RunTyped, NodesTyped, nodeVars
  <2>3. DataTyped'
    <3>1. faults' \in 0..MaxFaults
      BY <1>13, FaultsTyped DEF PlanPorts, DataTyped
    <3>2. UNCHANGED <<row, mig, othersVars, spoiled>>
      BY <1>13 DEF PlanPorts
    <3> QED BY <3>1, <3>2 DEF DataTyped, othersVars
  <2> QED BY <2>1, <2>2, <2>3
<1>14. CASE BuildDestination
  <2>1. RunTyped'
    BY <1>14, UnwindMoves, RunLearns DEF BuildDestination, RunTyped,
       DataTyped, StepsFit, HasPort, Forward, Undoing, Steps, Phases, At,
       Fixed
  <2>2. NodesTyped'
    <3>1. task.to \in Ports
      BY <1>14 DEF BuildDestination, RunTyped, HasPort, Forward, Undoing, At
    <3>2. task.dst \in Nodes
      BY RunNodes DEF RunTyped
    <3>3. box' \in [Nodes -> Boxes]
      <4>1. \/ UNCHANGED box
            \/ box' = [box EXCEPT ![task.dst] = [port |-> task.to, up |-> FALSE]]
        BY <1>14, Zenon DEF BuildDestination
      <4>2. [port |-> task.to, up |-> FALSE] \in Boxes
        BY <3>1 DEF Boxes
      <4>3. \A x \in Boxes : [box EXCEPT ![task.dst] = x] \in [Nodes -> Boxes]
        BY DEF NodesTyped
      <4>4. box \in [Nodes -> Boxes]
        BY DEF NodesTyped
      <4> QED BY <4>1, <4>2, <4>3, <4>4, Zenon
    <3> QED BY <1>14, <3>3 DEF BuildDestination, NodesTyped
  <2>3. DataTyped'
    BY <1>14, FaultsTyped DEF BuildDestination, RunTyped, DataTyped, Tasks,
       nodeVars, othersVars, HasPort, At, Forward, Undoing, StepsFit, Rows,
       Statuses, Migrations
  <2> QED BY <2>1, <2>2, <2>3
<1>15. CASE VerifyDestination
  <2>1. RunTyped'
    BY <1>15, EnterMoves, UnwindMoves DEF VerifyDestination, RunTyped,
       DataTyped, StepsFit, HasPort, Forward, Undoing, Steps, Phases, At,
       Fixed
  <2>2. NodesTyped'
    BY <1>15, RunNodes DEF VerifyDestination, RunTyped, NodesTyped, nodeVars
  <2>3. DataTyped'
    BY <1>15, FaultsTyped DEF VerifyDestination, RunTyped, DataTyped, Tasks,
       nodeVars, othersVars, HasPort, At, Forward, Undoing, StepsFit, Rows,
       Statuses, Migrations
  <2> QED BY <2>1, <2>2, <2>3
<1>16. CASE CutOver
  <2>1. RunTyped'
    BY <1>16, GotoMoves, UnwindMoves DEF CutOver, RunTyped, DataTyped,
       StepsFit, HasPort, Forward, Undoing, Steps, Phases, At, Fixed
  <2>2. NodesTyped'
    BY <1>16, RunNodes DEF CutOver, RunTyped, NodesTyped, nodeVars
  <2>3. DataTyped'
    BY <1>16 DEF CutOver, RunTyped, DataTyped, Tasks, nodeVars, othersVars,
       HasPort, At, Forward, Undoing, StepsFit, Rows, Statuses, Migrations
  <2> QED BY <2>1, <2>2, <2>3
<1>17. CASE StoreEnv
  <2>1. RunTyped'
    BY <1>17, UnwindMoves, RunLearns DEF StoreEnv, RunTyped, DataTyped,
       StepsFit, HasPort, Forward, Undoing, Steps, Phases, At, Fixed
  <2>2. NodesTyped'
    BY <1>17 DEF StoreEnv, RunTyped, NodesTyped, nodeVars
  <2>3. DataTyped'
    BY <1>17, FaultsTyped DEF StoreEnv, DataTyped, nodeVars, othersVars
  <2> QED BY <2>1, <2>2, <2>3
<1>18. CASE CleanUpSource
  <2>1. RunTyped'
    BY <1>18, GotoMoves DEF CleanUpSource, RunTyped, DataTyped, StepsFit,
       HasPort, Forward, Undoing, Steps, Phases, At, Fixed
  <2>2. NodesTyped'
    BY <1>18, DeletedTyped, RunNodes DEF CleanUpSource, RunTyped, NodesTyped,
       nodeVars, Boxes, Contents, Jobs, SourceNow, StepsFit, HasPort, Forward,
       Undoing, At
  <2>3. DataTyped'
    BY <1>18, FaultsTyped DEF CleanUpSource, RunTyped, DataTyped, Tasks,
       nodeVars, othersVars, HasPort, At, Forward, Undoing, StepsFit, Rows,
       Statuses, Migrations
  <2> QED BY <2>1, <2>2, <2>3
<1>19. CASE StartMoved
  <2>1. RunTyped'
    BY <1>19, GotoMoves DEF StartMoved, RunTyped, DataTyped, StepsFit,
       HasPort, Forward, Undoing, Steps, Phases, At, Fixed
  <2>2. NodesTyped'
    BY <1>19, StartedTyped, RunNodes DEF StartMoved, RunTyped, NodesTyped,
       nodeVars, Boxes, Contents, Jobs, SourceNow, StepsFit, HasPort, Forward,
       Undoing, At
  <2>3. DataTyped'
    BY <1>19, FaultsTyped DEF StartMoved, RunTyped, DataTyped, Tasks,
       nodeVars, othersVars, HasPort, At, Forward, Undoing, StepsFit, Rows,
       Statuses, Migrations
  <2> QED BY <2>1, <2>2, <2>3
<1>20. CASE Succeed
  <2>1. RunTyped'
    BY <1>20, GotoMoves, UnwindMoves DEF Succeed, RunTyped, DataTyped,
       StepsFit, HasPort, Forward, Undoing, Steps, Phases, At, Fixed
  <2>2. NodesTyped'
    BY <1>20 DEF Succeed, RunTyped, NodesTyped, nodeVars
  <2>3. DataTyped'
    BY <1>20, FaultsTyped DEF Succeed, RunTyped, DataTyped, Tasks, nodeVars,
       othersVars, HasPort, At, Forward, Undoing, StepsFit, Rows, Statuses,
       Migrations
  <2> QED BY <2>1, <2>2, <2>3
<1>21. CASE Assess
  <2>1. RunTyped'
    BY <1>21, GotoMoves, RunLearns DEF Assess, RunTyped, DataTyped, StepsFit,
       HasPort, Forward, Undoing, Steps, Phases, At, Fixed
  <2>2. NodesTyped'
    BY <1>21, RunNodes DEF Assess, RunTyped, NodesTyped, nodeVars
  <2>3. DataTyped'
    BY <1>21 DEF Assess, RunTyped, DataTyped, Tasks, nodeVars, othersVars,
       HasPort, At, Forward, Undoing, StepsFit, Rows, Statuses, Migrations
  <2> QED BY <2>1, <2>2, <2>3
<1>22. CASE MoveRecordBack
  <2>1. RunTyped'
    BY <1>22, GotoMoves, RunLearns DEF MoveRecordBack, RunTyped, DataTyped,
       StepsFit, HasPort, Forward, Undoing, Steps, Phases, At, Fixed
  <2>2. NodesTyped'
    BY <1>22, RunNodes DEF MoveRecordBack, RunTyped, NodesTyped, nodeVars
  <2>3. DataTyped'
    <3>1. task.src \in Nodes /\ task.from \in Ports
      BY DEF RunTyped, Tasks
    <3>2. row' \in Rows
      BY <1>22, <3>1 DEF MoveRecordBack, DataTyped, Rows
    <3>3. spoiled' \in BOOLEAN
      BY <1>22 DEF MoveRecordBack, DataTyped
    <3>4. UNCHANGED <<mig, othersVars>> /\ faults' \in 0..MaxFaults
      BY <1>22, FaultsTyped DEF MoveRecordBack, DataTyped
    <3> QED BY <3>2, <3>3, <3>4 DEF DataTyped, othersVars
  <2> QED BY <2>1, <2>2, <2>3
<1>23. CASE RemoveCopy
  <2>1. RunTyped'
    BY <1>23, GotoMoves, RunLearns DEF RemoveCopy, RunTyped, DataTyped,
       StepsFit, HasPort, Forward, Undoing, Steps, Phases, At, Fixed
  <2>2. NodesTyped'
    BY <1>23, DeletedTyped, RunNodes DEF RemoveCopy, RunTyped, NodesTyped,
       nodeVars, Boxes, Contents, Jobs, SourceNow, StepsFit, HasPort, Forward,
       Undoing, At
  <2>3. DataTyped'
    BY <1>23, FaultsTyped DEF RemoveCopy, RunTyped, DataTyped, Tasks,
       nodeVars, othersVars, HasPort, At, Forward, Undoing, StepsFit, Rows,
       Statuses, Migrations
  <2> QED BY <2>1, <2>2, <2>3
<1>24. CASE RestartSource
  <2>1. RunTyped'
    BY <1>24, GotoMoves, RunLearns DEF RestartSource, RunTyped, DataTyped,
       StepsFit, HasPort, Forward, Undoing, Steps, Phases, At, Fixed
  <2>2. NodesTyped'
    BY <1>24, StartedTyped, RunNodes DEF RestartSource, RunTyped, NodesTyped,
       nodeVars, Boxes, Contents, Jobs, SourceNow, StepsFit, HasPort, Forward,
       Undoing, At
  <2>3. DataTyped'
    BY <1>24, FaultsTyped DEF RestartSource, RunTyped, DataTyped, Tasks,
       nodeVars, othersVars, HasPort, At, Forward, Undoing, StepsFit, Rows,
       Statuses, Migrations
  <2> QED BY <2>1, <2>2, <2>3
<1>25. CASE EndRolledBack
  <2>1. RunTyped'
    BY <1>25, GotoMoves DEF EndRolledBack, RunTyped, DataTyped, StepsFit,
       HasPort, Forward, Undoing, Steps, Phases, At, Fixed
  <2>2. NodesTyped'
    BY <1>25, RunNodes DEF EndRolledBack, RunTyped, NodesTyped, nodeVars
  <2>3. DataTyped'
    BY <1>25 DEF EndRolledBack, RunTyped, DataTyped, Tasks, nodeVars,
       othersVars, HasPort, At, Forward, Undoing, StepsFit, Rows, Statuses,
       Migrations
  <2> QED BY <2>1, <2>2, <2>3
<1>26. CASE CheckCancel
  <2>1. RunTyped'
    BY <1>26 DEF CheckCancel, RunTyped, DataTyped, StepsFit, HasPort, Forward,
       Undoing, Steps, Phases, At, Fixed
  <2>2. NodesTyped'
    BY <1>26 DEF CheckCancel, RunTyped, NodesTyped, nodeVars
  <2>3. DataTyped'
    BY <1>26 DEF CheckCancel, RunTyped, DataTyped, Tasks, nodeVars,
       othersVars, HasPort, At, Forward, Undoing, StepsFit, Rows, Statuses,
       Migrations
  <2> QED BY <2>1, <2>2, <2>3
<1>27. CASE WriteCancel
  <2>1. RunTyped'
    BY <1>27 DEF WriteCancel, RunTyped, DataTyped, StepsFit, HasPort, Forward,
       Undoing, Steps, Phases, At, Fixed
  <2>2. NodesTyped'
    BY <1>27 DEF WriteCancel, RunTyped, NodesTyped, nodeVars
  <2>3. DataTyped'
    BY <1>27 DEF WriteCancel, RunTyped, DataTyped, Tasks, nodeVars,
       othersVars, HasPort, At, Forward, Undoing, StepsFit, Rows, Statuses,
       Migrations
  <2> QED BY <2>1, <2>2, <2>3
<1>28. CASE Power
  <2>1. RunTyped'
    BY <1>28 DEF Power, RunTyped, DataTyped, StepsFit, HasPort, Forward,
       Undoing, Steps, Phases, At, Fixed
  <2>2. NodesTyped'
    <3>1. row.node \in Nodes
      BY DEF DataTyped, Rows
    <3>2. CASE StartedOn(row.node)
      BY <3>1, <3>2, StartedTyped
    <3>3. CASE /\ box' = [box EXCEPT ![row.node].up = FALSE]
               /\ UNCHANGED <<disk, job>>
      <4>1. box' \in [Nodes -> Boxes]
        BY <3>1, <3>3 DEF NodesTyped, Boxes
      <4> QED BY <3>3, <4>1 DEF NodesTyped
    <3> QED BY <1>28, <3>2, <3>3 DEF Power
  <2>3. DataTyped'
    BY <1>28 DEF Power, RunTyped, DataTyped, Tasks, nodeVars, othersVars,
       HasPort, At, Forward, Undoing, StepsFit, Rows, Statuses, Migrations
  <2> QED BY <2>1, <2>2, <2>3
<1>29. CASE PanelRestarts
  <2>1. RunTyped'
    BY <1>29, GotoMoves DEF PanelRestarts, RunTyped, DataTyped, StepsFit,
       HasPort, Forward, Undoing, Steps, Phases, At, Fixed
  <2>2. NodesTyped'
    BY <1>29 DEF PanelRestarts, RunTyped, NodesTyped, nodeVars
  <2>3. DataTyped'
    BY <1>29, FaultsTyped DEF PanelRestarts, RunTyped, DataTyped, Tasks,
       nodeVars, othersVars, HasPort, At, Forward, Undoing, StepsFit, Rows,
       Statuses, Migrations
  <2> QED BY <2>1, <2>2, <2>3
<1>30. ASSUME NEW n \in Nodes, AcceptMigration(n) PROVE Typed'
  <2>1. RunTyped'
    BY <1>30 DEF AcceptMigration, RunTyped, DataTyped, StepsFit, HasPort,
       Forward, Undoing, Steps, Phases, At, Fixed, Tasks, Statuses, Rows
  <2>2. NodesTyped'
    BY <1>30, RunNodes DEF AcceptMigration, RunTyped, NodesTyped, nodeVars
  <2>3. DataTyped'
    BY <1>30 DEF AcceptMigration, RunTyped, DataTyped, Tasks, nodeVars,
       othersVars, HasPort, At, Forward, Undoing, StepsFit, Rows, Statuses,
       Migrations
  <2> QED BY <2>1, <2>2, <2>3
<1>31. ASSUME NEW n \in Nodes, JobEnds(n) PROVE Typed'
  <2>1. RunTyped'
    BY <1>31 DEF JobEnds, RunTyped, DataTyped, StepsFit, HasPort, Forward,
       Undoing, Steps, Phases, At, Fixed
  <2>2. NodesTyped'
    <3>1. job[n].makes \in Contents
      BY DEF NodesTyped, Jobs
    <3>2. job' \in [Nodes -> Jobs]
      BY <1>31 DEF JobEnds, NodesTyped, Jobs
    <3>3. disk' \in [Nodes -> Contents]
      BY <1>31, <3>1 DEF JobEnds, NodesTyped, Contents
    <3> QED BY <1>31, <3>2, <3>3 DEF JobEnds, NodesTyped
  <2>3. DataTyped'
    BY <1>31, FaultsTyped DEF JobEnds, RunTyped, DataTyped, Tasks, nodeVars,
       othersVars, HasPort, At, Forward, Undoing, StepsFit, Rows, Statuses,
       Migrations
  <2> QED BY <2>1, <2>2, <2>3
<1>32. ASSUME NEW n \in Nodes, NEW p \in Ports, TakePort(n, p) PROVE Typed'
  <2>1. RunTyped'
    BY <1>32 DEF TakePort, RunTyped, DataTyped, StepsFit, HasPort, Forward,
       Undoing, Steps, Phases, At, Fixed
  <2>2. NodesTyped'
    BY <1>32 DEF TakePort, RunTyped, NodesTyped, nodeVars
  <2>3. DataTyped'
    BY <1>32 DEF TakePort, RunTyped, DataTyped, Tasks, nodeVars, othersVars,
       HasPort, At, Forward, Undoing, StepsFit, Rows, Statuses, Migrations
  <2> QED BY <2>1, <2>2, <2>3
<1>33. CASE Abandon
  <2>1. RunTyped'
    BY <1>33, GotoMoves DEF Abandon, RunTyped, StepsFit, HasPort, Forward, Undoing,
       Steps, At, Fixed
  <2>2. NodesTyped' /\ DataTyped'
    BY <1>33, FaultsTyped DEF Abandon, NodesTyped, DataTyped, nodeVars, othersVars
  <2> QED BY <2>1, <2>2
<1>34. CASE UNCHANGED vars
  BY <1>34 DEF vars, nodeVars, othersVars, RunTyped, NodesTyped, DataTyped,
     StepsFit, HasPort, Forward, Undoing, At
<1> QED
  BY <1>1, <1>2, <1>3, <1>4, <1>5, <1>6, <1>7, <1>8, <1>9, <1>10, <1>11,
     <1>12, <1>13, <1>14, <1>15, <1>16, <1>17, <1>18, <1>19, <1>20, <1>21,
     <1>22, <1>23, <1>24, <1>25, <1>26, <1>27, <1>28, <1>29, <1>30, <1>31,
     <1>32, <1>33, <1>34 DEF Next, RunStep, RollbackStep
-----------------------------------------------------------------------------
(* The invariant.                                                          *)

\* What most steps of the run leave alone.
Kept == <<Fixed, task.phase, task.to, task.data, task.built, task.cut,
          task.known>>

\* Node by node, what a start and a removal come to.
RunsOn(n) ==
    \A m \in Nodes :
        /\ box'[m].port = box[m].port
        /\ box'[m].up => m = n \/ box[m].up
        /\ box'[m] = box[m] \/ m = n
        /\ disk'[m] = IF m # n /\ disk[m] = "all" THEN "some" ELSE disk[m]
        /\ job'[m].state = job[m].state /\ job'[m].heard = job[m].heard
        /\ job'[m].makes = IF m # n /\ job[m].makes = "all" THEN "some"
                           ELSE job[m].makes
RemovedFrom(n) ==
    /\ \A m \in Nodes : m # n => UNCHANGED <<box[m], disk[m], job[m]>>
    /\ box'[n] = NoBox /\ disk'[n] = "none"
    /\ job'[n].state = job[n].state /\ job'[n].heard = job[n].heard
    /\ job'[n].makes # "all"

\* A start says no more than that.
LEMMA StartedMoves ==
    ASSUME NodesTyped, NEW n \in Nodes, StartedOn(n)
    PROVE  RunsOn(n)
BY DEF NodesTyped, StartedOn, RunsOn, Boxes, Jobs

\* Nor does a removal.
LEMMA DeletedMoves ==
    ASSUME NodesTyped, NEW n \in Nodes, DeletedFrom(n)
    PROVE  RemovedFrom(n)
BY DEF NodesTyped, DeletedFrom, RemovedFrom, Jobs

\* Who touches neither the row, the nodes nor the run disturbs nothing.
LEMMA SameKeeps ==
    ASSUME Placed, UNCHANGED <<row, nodeVars, task>>
    PROVE  Placed'
BY DEF Placed, RunInv, RecordInv, HoldInv, CopyInv, JobInv, GameInv, PortInv,
   GoneInv, Holding, HasCopy, HasBox, AwaitsCopy, AfterTransfer,
   BeforeCutOver, Forward, Undoing, Idle, At, nodeVars

\* A step that keeps the promise keeps the invariant.  A step of the run alone
\* is settled by where it leads; the others first say what they do to the row
\* and the nodes, where the run is after them and which node the row names.
LEMMA PlacedStep ==
    ASSUME Typed, Typed', Placed, [Next]_vars, ~spoiled, ~spoiled'
    PROVE  Placed'
<1> USE DEF Typed, RunTyped
<1>1. CASE EnterPhase
  <2>1. /\ task'.step \in {"work", "assess"}
        /\ UNCHANGED Kept
    BY <1>1, GotoMoves, UnwindMoves DEF EnterPhase, Steps, Kept
  <2>2. UNCHANGED <<row, nodeVars>>
    BY <1>1 DEF EnterPhase, othersVars
  <2> QED
    BY <1>1, <2>1, <2>2, RunNodes DEF EnterPhase, Placed, RunInv, RecordInv,
       HoldInv, CopyInv, JobInv, GameInv, PortInv, GoneInv, Forward, Undoing,
       At, Idle, Kept, Fixed, StepsFit, Holding, HasCopy, HasBox, HasPort,
       AwaitsCopy, BeforeCutOver, AfterTransfer, nodeVars
<1>2. CASE Checkpoint
  <2>1. \/ task'.step = "assess" /\ UNCHANGED Kept
        \/ /\ task'.step = "enter" /\ task'.phase = Following[task.phase]
             /\ UNCHANGED <<Fixed, task.to, task.data, task.built, task.cut,
                            task.known>>
    BY <1>2, EnterMoves, UnwindMoves DEF Checkpoint, Following, StepsFit,
       Phases, Steps, Kept
  <2>2. UNCHANGED <<row, nodeVars>>
    BY <1>2 DEF Checkpoint, othersVars
  <2> QED
    BY <1>2, <2>1, <2>2, RunNodes DEF Checkpoint, Placed, RunInv, RecordInv,
       HoldInv, CopyInv, JobInv, GameInv, PortInv, GoneInv, Forward, Undoing,
       At, Idle, Kept, Fixed, StepsFit, Holding, HasCopy, HasBox, HasPort,
       AwaitsCopy, BeforeCutOver, AfterTransfer, nodeVars, Following
<1>3. CASE TakeSafetyBackup
  <2>1. /\ task'.step \in {"check", "assess"}
        /\ UNCHANGED Kept
    BY <1>3, GotoMoves, UnwindMoves DEF TakeSafetyBackup, Steps, Kept
  <2>2. UNCHANGED <<row, nodeVars>>
    BY <1>3 DEF TakeSafetyBackup, othersVars
  <2> QED
    BY <1>3, <2>1, <2>2, RunNodes DEF TakeSafetyBackup, Placed, RunInv,
       RecordInv, HoldInv, CopyInv, JobInv, GameInv, PortInv, GoneInv,
       Forward, Undoing, At, Idle, Kept, Fixed, StepsFit, Holding, HasCopy,
       HasBox, HasPort, AwaitsCopy, BeforeCutOver, AfterTransfer, nodeVars
<1>4. CASE BeginStop
  <2>1. /\ task'.step \in {"stop", "hold"}
        /\ UNCHANGED Kept
    BY <1>4, GotoMoves DEF BeginStop, Steps, Kept
  <2>2. row'.node = row.node /\ row'.port = row.port
    BY <1>4 DEF BeginStop, nodeVars, DataTyped, Rows
  <2>3. UNCHANGED nodeVars
    BY <1>4 DEF BeginStop, nodeVars, DataTyped
  <2>4. At("stopping", "work")
    BY <1>4 DEF BeginStop
  <2>5. ~Holding' /\ ~HasCopy' /\ ~HasBox' /\ ~AwaitsCopy'
    BY <2>1, <2>4 DEF Forward, Undoing, At, Idle, Kept, Fixed, StepsFit,
       Holding, HasCopy, HasBox, HasPort, AwaitsCopy, BeforeCutOver,
       AfterTransfer
  <2>6. /\ task.src \in Nodes /\ task.dst \in Nodes /\ task.src # task.dst
        /\ row.node = task.src
    BY <2>4, RunNodes DEF Placed, RunInv, RecordInv, At, Forward, Undoing, Idle
  <2>7. RunInv'
    BY <2>1, <2>2, <2>3, <2>4, <2>5, <2>6 DEF Placed, RunInv, At, Idle, Kept,
       Fixed
  <2>8. RecordInv'
    BY <2>1, <2>2, <2>3, <2>4, <2>5, <2>6 DEF Placed, RunInv, RecordInv,
       Forward, Undoing, At, Idle, Kept, Fixed, StepsFit, Holding, HasCopy,
       HasBox, HasPort, AwaitsCopy, BeforeCutOver, AfterTransfer, nodeVars,
       RunsOn, RemovedFrom, SourceNow, NoBox
  <2>9. HoldInv'
    BY <2>1, <2>2, <2>3, <2>4, <2>5, <2>6 DEF Placed, HoldInv, GameInv, At,
       Idle, Kept, Fixed, nodeVars, RunsOn, RemovedFrom, SourceNow, NoBox
  <2>10. CopyInv'
    BY <2>1, <2>2, <2>3, <2>4, <2>5, <2>6 DEF Placed, RunInv, HoldInv,
       CopyInv, JobInv, GameInv, At, Idle, Kept, Fixed, nodeVars, RunsOn,
       RemovedFrom, SourceNow, NoBox
  <2>11. JobInv'
    BY <2>1, <2>2, <2>3, <2>4, <2>5, <2>6 DEF Placed, RunInv, CopyInv, JobInv,
       At, Idle, Kept, Fixed, nodeVars, RunsOn, RemovedFrom, SourceNow, NoBox
  <2>12. GameInv'
    BY <2>1, <2>2, <2>3, <2>4, <2>5, <2>6 DEF Placed, HoldInv, CopyInv,
       JobInv, GameInv, At, Idle, Kept, Fixed, nodeVars, RunsOn, RemovedFrom,
       SourceNow, NoBox
  <2>13. PortInv'
    BY <2>1, <2>2, <2>3, <2>4, <2>5, <2>6 DEF Placed, CopyInv, PortInv,
       GameInv, At, Idle, Kept, Fixed, nodeVars, RunsOn, RemovedFrom,
       SourceNow, NoBox
  <2>14. GoneInv'
    BY <2>1, <2>2, <2>3, <2>4, <2>5, <2>6 DEF Placed, RunInv, JobInv, GoneInv,
       At, Idle, Kept, Fixed, nodeVars, RunsOn, RemovedFrom, SourceNow, NoBox
  <2> QED BY <2>7, <2>8, <2>9, <2>10, <2>11, <2>12, <2>13, <2>14 DEF Placed
<1>5. CASE StopSource
  <2>1. /\ task'.step \in {"hold", "assess"}
        /\ UNCHANGED Kept
    BY <1>5, GotoMoves, UnwindMoves DEF StopSource, Steps, Kept
  <2>2. row'.node = row.node /\ row'.port = row.port
    BY <1>5 DEF StopSource, nodeVars, DataTyped, Rows
  <2>3. /\ UNCHANGED <<disk, job>>
        /\ \A m \in Nodes : /\ box'[m].port = box[m].port
                            /\ box'[m].up => box[m].up
        /\ task'.step = "hold" => ~box'[task.src].up
    BY <1>5, RunNodes, UnwindMoves, <2>1 DEF StopSource, nodeVars, DataTyped,
       NodesTyped, Boxes
  <2>4. At("stopping", "stop")
    BY <1>5 DEF StopSource
  <2>5. ~Holding' /\ ~HasCopy' /\ ~HasBox' /\ ~AwaitsCopy'
    BY <2>1, <2>4 DEF Forward, Undoing, At, Idle, Kept, Fixed, StepsFit,
       Holding, HasCopy, HasBox, HasPort, AwaitsCopy, BeforeCutOver,
       AfterTransfer
  <2>6. /\ task.src \in Nodes /\ task.dst \in Nodes /\ task.src # task.dst
        /\ row.node = task.src
    BY <2>4, RunNodes DEF Placed, RunInv, RecordInv, At, Forward, Undoing, Idle
  <2>7. RunInv'
    BY <2>1, <2>2, <2>3, <2>4, <2>5, <2>6 DEF Placed, RunInv, At, Idle, Kept,
       Fixed
  <2>8. RecordInv'
    BY <2>1, <2>2, <2>3, <2>4, <2>5, <2>6 DEF Placed, RunInv, RecordInv,
       Forward, Undoing, At, Idle, Kept, Fixed, StepsFit, Holding, HasCopy,
       HasBox, HasPort, AwaitsCopy, BeforeCutOver, AfterTransfer, nodeVars,
       RunsOn, RemovedFrom, SourceNow, NoBox
  <2>9. HoldInv'
    BY <2>1, <2>2, <2>3, <2>4, <2>5, <2>6 DEF Placed, HoldInv, GameInv, At,
       Idle, Kept, Fixed, nodeVars, RunsOn, RemovedFrom, SourceNow, NoBox
  <2>10. CopyInv'
    BY <2>1, <2>2, <2>3, <2>4, <2>5, <2>6 DEF Placed, RunInv, HoldInv,
       CopyInv, JobInv, GameInv, At, Idle, Kept, Fixed, nodeVars, RunsOn,
       RemovedFrom, SourceNow, NoBox
  <2>11. JobInv'
    BY <2>1, <2>2, <2>3, <2>4, <2>5, <2>6 DEF Placed, RunInv, CopyInv, JobInv,
       At, Idle, Kept, Fixed, nodeVars, RunsOn, RemovedFrom, SourceNow, NoBox
  <2>12. GameInv'
    BY <2>1, <2>2, <2>3, <2>4, <2>5, <2>6 DEF Placed, HoldInv, CopyInv,
       JobInv, GameInv, At, Idle, Kept, Fixed, nodeVars, RunsOn, RemovedFrom,
       SourceNow, NoBox
  <2>13. PortInv'
    BY <2>1, <2>2, <2>3, <2>4, <2>5, <2>6 DEF Placed, CopyInv, PortInv,
       GameInv, At, Idle, Kept, Fixed, nodeVars, RunsOn, RemovedFrom,
       SourceNow, NoBox
  <2>14. GoneInv'
    BY <2>1, <2>2, <2>3, <2>4, <2>5, <2>6 DEF Placed, RunInv, JobInv, GoneInv,
       At, Idle, Kept, Fixed, nodeVars, RunsOn, RemovedFrom, SourceNow, NoBox
  <2> QED BY <2>7, <2>8, <2>9, <2>10, <2>11, <2>12, <2>13, <2>14 DEF Placed
<1>6. CASE HoldSource
  <2>1. /\ task'.step = "check"
        /\ UNCHANGED Kept
    BY <1>6, GotoMoves DEF HoldSource, Steps, Kept
  <2>2. row'.node = row.node /\ row'.port = row.port /\ row'.status = "migrating"
    BY <1>6 DEF HoldSource, nodeVars, DataTyped, Rows
  <2>3. UNCHANGED nodeVars /\ ~box[task.src].up
    BY <1>6 DEF HoldSource, nodeVars, DataTyped
  <2>4. At("stopping", "hold")
    BY <1>6 DEF HoldSource
  <2>5. Holding' /\ ~HasCopy' /\ ~HasBox' /\ ~AwaitsCopy'
    BY <2>1, <2>4 DEF Forward, Undoing, At, Idle, Kept, Fixed, StepsFit,
       Holding, HasCopy, HasBox, HasPort, AwaitsCopy, BeforeCutOver,
       AfterTransfer
  <2>6. /\ task.src \in Nodes /\ task.dst \in Nodes /\ task.src # task.dst
        /\ row.node = task.src
    BY <2>4, RunNodes DEF Placed, RunInv, RecordInv, At, Forward, Undoing, Idle
  <2>7. RunInv'
    BY <2>1, <2>2, <2>3, <2>4, <2>5, <2>6 DEF Placed, RunInv, At, Idle, Kept,
       Fixed
  <2>8. RecordInv'
    BY <2>1, <2>2, <2>3, <2>4, <2>5, <2>6 DEF Placed, RunInv, RecordInv,
       Forward, Undoing, At, Idle, Kept, Fixed, StepsFit, Holding, HasCopy,
       HasBox, HasPort, AwaitsCopy, BeforeCutOver, AfterTransfer, nodeVars,
       RunsOn, RemovedFrom, SourceNow, NoBox
  <2>9. HoldInv'
    BY <2>1, <2>2, <2>3, <2>4, <2>5, <2>6 DEF Placed, HoldInv, GameInv, At,
       Idle, Kept, Fixed, nodeVars, RunsOn, RemovedFrom, SourceNow, NoBox
  <2>10. CopyInv'
    BY <2>1, <2>2, <2>3, <2>4, <2>5, <2>6 DEF Placed, RunInv, HoldInv,
       CopyInv, JobInv, GameInv, At, Idle, Kept, Fixed, nodeVars, RunsOn,
       RemovedFrom, SourceNow, NoBox
  <2>11. JobInv'
    BY <2>1, <2>2, <2>3, <2>4, <2>5, <2>6 DEF Placed, RunInv, CopyInv, JobInv,
       At, Idle, Kept, Fixed, nodeVars, RunsOn, RemovedFrom, SourceNow, NoBox
  <2>12. GameInv'
    BY <2>1, <2>2, <2>3, <2>4, <2>5, <2>6 DEF Placed, HoldInv, CopyInv,
       JobInv, GameInv, At, Idle, Kept, Fixed, nodeVars, RunsOn, RemovedFrom,
       SourceNow, NoBox
  <2>13. PortInv'
    BY <2>1, <2>2, <2>3, <2>4, <2>5, <2>6 DEF Placed, CopyInv, PortInv,
       GameInv, At, Idle, Kept, Fixed, nodeVars, RunsOn, RemovedFrom,
       SourceNow, NoBox
  <2>14. GoneInv'
    BY <2>1, <2>2, <2>3, <2>4, <2>5, <2>6 DEF Placed, RunInv, JobInv, GoneInv,
       At, Idle, Kept, Fixed, nodeVars, RunsOn, RemovedFrom, SourceNow, NoBox
  <2> QED BY <2>7, <2>8, <2>9, <2>10, <2>11, <2>12, <2>13, <2>14 DEF Placed
<1>7. CASE CompleteSnapshot
  <2>1. /\ task'.step \in {"prepare", "assess"}
        /\ UNCHANGED Kept
    BY <1>7, GotoMoves, UnwindMoves DEF CompleteSnapshot, Steps, Kept
  <2>2. UNCHANGED <<row, nodeVars>>
    BY <1>7 DEF CompleteSnapshot, othersVars
  <2> QED
    BY <1>7, <2>1, <2>2, RunNodes DEF CompleteSnapshot, Placed, RunInv,
       RecordInv, HoldInv, CopyInv, JobInv, GameInv, PortInv, GoneInv,
       Forward, Undoing, At, Idle, Kept, Fixed, StepsFit, Holding, HasCopy,
       HasBox, HasPort, AwaitsCopy, BeforeCutOver, AfterTransfer, nodeVars
<1>8. CASE PrepareDestination
  <2>1. \/ task'.step = "assess" /\ UNCHANGED Kept
        \/ /\ task'.step = "fetch" /\ task'.data
             /\ UNCHANGED <<Fixed, task.phase, task.to, task.built, task.cut,
                            task.known>>
             /\ disk[task.dst] = "none" /\ box[task.dst] = NoBox
    BY <1>8, RunLearns, UnwindMoves DEF PrepareDestination, Steps, Kept
  <2>2. UNCHANGED <<row, nodeVars>>
    BY <1>8 DEF PrepareDestination, othersVars
  <2> QED
    BY <1>8, <2>1, <2>2, RunNodes DEF PrepareDestination, Placed, RunInv,
       RecordInv, HoldInv, CopyInv, JobInv, GameInv, PortInv, GoneInv,
       Forward, Undoing, At, Idle, Kept, Fixed, StepsFit, Holding, HasCopy,
       HasBox, HasPort, AwaitsCopy, BeforeCutOver, AfterTransfer, nodeVars
<1>9. CASE StartStream
  <2>1. /\ task'.step = "await"
        /\ UNCHANGED Kept
    BY <1>9, GotoMoves DEF StartStream, Steps, Kept
  <2>2. UNCHANGED <<row, box, job>> /\ ~task.snapshot
    BY <1>9 DEF StartStream, nodeVars, DataTyped
  <2>3. \A m \in Nodes : disk'[m] = IF m = task.dst THEN "some" ELSE disk[m]
    BY <1>9, RunNodes DEF StartStream, nodeVars, DataTyped, NodesTyped
  <2>4. At("transferring", "fetch")
    BY <1>9 DEF StartStream
  <2>5. /\ Holding
        /\ ~HasCopy' /\ ~HasBox'
    BY <2>1, <2>4 DEF Forward, Undoing, At, Idle, Kept, Fixed, StepsFit,
       Holding, HasCopy, HasBox, HasPort, AwaitsCopy, BeforeCutOver,
       AfterTransfer
  <2>6. /\ task.src \in Nodes /\ task.dst \in Nodes /\ task.src # task.dst
        /\ row.node = task.src
    BY <2>4, RunNodes DEF Placed, RunInv, RecordInv, At, Forward, Undoing, Idle
  <2>7. RunInv'
    BY <2>1, <2>2, <2>3, <2>4, <2>5, <2>6 DEF Placed, RunInv, At, Idle, Kept,
       Fixed
  <2>8. RecordInv'
    BY <2>1, <2>2, <2>3, <2>4, <2>5, <2>6 DEF Placed, RunInv, RecordInv,
       Forward, Undoing, At, Idle, Kept, Fixed, StepsFit, Holding, HasCopy,
       HasBox, HasPort, AwaitsCopy, BeforeCutOver, AfterTransfer, nodeVars,
       RunsOn, RemovedFrom, SourceNow, NoBox
  <2>9. HoldInv'
    BY <2>1, <2>2, <2>3, <2>4, <2>5, <2>6 DEF Placed, HoldInv, GameInv, At,
       Idle, Kept, Fixed, nodeVars, RunsOn, RemovedFrom, SourceNow, NoBox
  <2>10. CopyInv'
    BY <2>1, <2>2, <2>3, <2>4, <2>5, <2>6 DEF Placed, RunInv, HoldInv,
       CopyInv, JobInv, GameInv, At, Idle, Kept, Fixed, nodeVars, RunsOn,
       RemovedFrom, SourceNow, NoBox
  <2>11. JobInv'
    BY <2>1, <2>2, <2>3, <2>4, <2>5, <2>6 DEF Placed, RunInv, CopyInv, JobInv,
       At, Idle, Kept, Fixed, nodeVars, RunsOn, RemovedFrom, SourceNow, NoBox
  <2>12. GameInv'
    BY <2>1, <2>2, <2>3, <2>4, <2>5, <2>6 DEF Placed, HoldInv, CopyInv,
       JobInv, GameInv, At, Idle, Kept, Fixed, nodeVars, RunsOn, RemovedFrom,
       SourceNow, NoBox
  <2>13. PortInv'
    BY <2>1, <2>2, <2>3, <2>4, <2>5, <2>6 DEF Placed, CopyInv, PortInv,
       GameInv, At, Idle, Kept, Fixed, nodeVars, RunsOn, RemovedFrom,
       SourceNow, NoBox
  <2>14. GoneInv'
    BY <2>1, <2>2, <2>3, <2>4, <2>5, <2>6 DEF Placed, RunInv, JobInv, GoneInv,
       At, Idle, Kept, Fixed, nodeVars, RunsOn, RemovedFrom, SourceNow, NoBox
  <2> QED BY <2>7, <2>8, <2>9, <2>10, <2>11, <2>12, <2>13, <2>14 DEF Placed
<1>10. CASE EndStream
  <2>1. /\ task'.step \in {"check", "assess"}
        /\ UNCHANGED Kept
    BY <1>10, GotoMoves, UnwindMoves DEF EndStream, Steps, Kept
  <2>2. UNCHANGED <<row, box, job>> /\ ~task.snapshot
    BY <1>10 DEF EndStream, nodeVars, DataTyped
  <2>3. /\ \A m \in Nodes : m # task.dst => disk'[m] = disk[m]
        /\ task'.step = "check" => disk'[task.dst] = SourceNow
    BY <1>10, RunNodes, UnwindMoves, <2>1 DEF EndStream, nodeVars, DataTyped,
       NodesTyped
  <2>4. At("transferring", "await")
    BY <1>10 DEF EndStream
  <2>5. /\ Holding
        /\ HasCopy' => task'.step = "check"
        /\ ~HasBox' /\ ~AwaitsCopy'
    BY <2>1, <2>4 DEF Forward, Undoing, At, Idle, Kept, Fixed, StepsFit,
       Holding, HasCopy, HasBox, HasPort, AwaitsCopy, BeforeCutOver,
       AfterTransfer
  <2>6. /\ task.src \in Nodes /\ task.dst \in Nodes /\ task.src # task.dst
        /\ row.node = task.src
    BY <2>4, RunNodes DEF Placed, RunInv, RecordInv, At, Forward, Undoing, Idle
  <2>7. RunInv'
    BY <2>1, <2>2, <2>3, <2>4, <2>5, <2>6 DEF Placed, RunInv, At, Idle, Kept,
       Fixed, AwaitsCopy
  <2>8. RecordInv'
    BY <2>1, <2>2, <2>3, <2>4, <2>5, <2>6 DEF Placed, RunInv, RecordInv,
       Forward, Undoing, At, Idle, Kept, Fixed, StepsFit, Holding, HasCopy,
       HasBox, HasPort, AwaitsCopy, BeforeCutOver, AfterTransfer, nodeVars,
       RunsOn, RemovedFrom, SourceNow, NoBox
  <2>9. HoldInv'
    BY <2>1, <2>2, <2>3, <2>4, <2>5, <2>6 DEF Placed, HoldInv, GameInv, At,
       Idle, Kept, Fixed, nodeVars, RunsOn, RemovedFrom, SourceNow, NoBox
  <2>10. CopyInv'
    BY <2>1, <2>2, <2>3, <2>4, <2>5, <2>6 DEF Placed, RunInv, HoldInv,
       CopyInv, JobInv, GameInv, At, Idle, Kept, Fixed, nodeVars, RunsOn,
       RemovedFrom, SourceNow, NoBox
  <2>11. JobInv'
    BY <2>1, <2>2, <2>3, <2>4, <2>5, <2>6 DEF Placed, RunInv, CopyInv, JobInv,
       At, Idle, Kept, Fixed, nodeVars, RunsOn, RemovedFrom, SourceNow, NoBox
  <2>12. GameInv'
    BY <2>1, <2>2, <2>3, <2>4, <2>5, <2>6 DEF Placed, HoldInv, CopyInv,
       JobInv, GameInv, At, Idle, Kept, Fixed, nodeVars, RunsOn, RemovedFrom,
       SourceNow, NoBox
  <2>13. PortInv'
    BY <2>1, <2>2, <2>3, <2>4, <2>5, <2>6 DEF Placed, CopyInv, PortInv,
       GameInv, At, Idle, Kept, Fixed, nodeVars, RunsOn, RemovedFrom,
       SourceNow, NoBox
  <2>14. GoneInv'
    BY <2>1, <2>2, <2>3, <2>4, <2>5, <2>6 DEF Placed, RunInv, JobInv, GoneInv,
       At, Idle, Kept, Fixed, nodeVars, RunsOn, RemovedFrom, SourceNow, NoBox
  <2> QED BY <2>7, <2>8, <2>9, <2>10, <2>11, <2>12, <2>13, <2>14 DEF Placed
<1>11. CASE StartRestore
  <2>1. \/ task'.step = "assess" /\ UNCHANGED Kept
        \/ /\ task'.step = "await" /\ task'.known
             /\ UNCHANGED <<Fixed, task.phase, task.to, task.data, task.built,
                            task.cut>>
    BY <1>11, RunLearns, UnwindMoves DEF StartRestore, Steps, Kept
  <2>2. UNCHANGED <<row, box>> /\ task.snapshot
    BY <1>11 DEF StartRestore, nodeVars, DataTyped
  <2>3. \/ UNCHANGED <<disk, job>> /\ task'.step = "assess"
        \/ /\ \A m \in Nodes : m # task.dst => UNCHANGED <<disk[m], job[m]>>
           /\ disk[task.dst] = "none" /\ disk'[task.dst] = "some"
           /\ job'[task.dst].state = "running" /\ job'[task.dst].makes = SourceNow
           /\ job'[task.dst].heard => task'.known
    <3>1. \/ UNCHANGED <<disk, job>> /\ Unwind
          \/ \E h \in BOOLEAN :
                /\ job' = [job EXCEPT ![task.dst] = [state |-> "running",
                              heard |-> h, makes |-> SourceNow]]
                /\ disk' = [disk EXCEPT ![task.dst] = "some"]
                /\ disk[task.dst] = "none"
                /\ h => task' = [task EXCEPT !.step = "await", !.known = TRUE]
      BY <1>11, Zenon DEF StartRestore
    <3>2. CASE UNCHANGED <<disk, job>> /\ Unwind
      BY <3>2, UnwindMoves
    <3>3. ASSUME NEW h \in BOOLEAN,
                 job' = [job EXCEPT ![task.dst] = [state |-> "running",
                            heard |-> h, makes |-> SourceNow]],
                 disk' = [disk EXCEPT ![task.dst] = "some"],
                 disk[task.dst] = "none",
                 h => task' = [task EXCEPT !.step = "await", !.known = TRUE]
          PROVE  /\ \A m \in Nodes : m # task.dst => UNCHANGED <<disk[m], job[m]>>
                 /\ disk[task.dst] = "none" /\ disk'[task.dst] = "some"
                 /\ job'[task.dst].state = "running"
                 /\ job'[task.dst].makes = SourceNow
                 /\ job'[task.dst].heard => task'.known
      <4>1. h => task'.known
        BY <3>3, RunLearns DEF Steps
      <4> QED BY <3>3, <4>1, RunNodes DEF NodesTyped
    <3> QED BY <3>1, <3>2, <3>3
  <2>4. At("transferring", "fetch")
    BY <1>11 DEF StartRestore
  <2>5. /\ Holding
        /\ AwaitsCopy' => task'.step = "await"
        /\ ~HasCopy' /\ ~HasBox'
    BY <2>1, <2>4 DEF Forward, Undoing, At, Idle, Kept, Fixed, StepsFit,
       Holding, HasCopy, HasBox, HasPort, AwaitsCopy, BeforeCutOver,
       AfterTransfer
  <2>6. /\ task.src \in Nodes /\ task.dst \in Nodes /\ task.src # task.dst
        /\ row.node = task.src
    BY <2>4, RunNodes DEF Placed, RunInv, RecordInv, At, Forward, Undoing, Idle
  <2>7. RunInv'
    BY <2>1, <2>2, <2>3, <2>4, <2>5, <2>6 DEF Placed, RunInv, At, Idle, Kept,
       Fixed
  <2>8. RecordInv'
    BY <2>1, <2>2, <2>3, <2>4, <2>5, <2>6 DEF Placed, RunInv, RecordInv,
       Forward, Undoing, At, Idle, Kept, Fixed, StepsFit, Holding, HasCopy,
       HasBox, HasPort, AwaitsCopy, BeforeCutOver, AfterTransfer, nodeVars,
       RunsOn, RemovedFrom, SourceNow, NoBox
  <2>9. HoldInv'
    BY <2>1, <2>2, <2>3, <2>4, <2>5, <2>6 DEF Placed, HoldInv, GameInv, At,
       Idle, Kept, Fixed, nodeVars, RunsOn, RemovedFrom, SourceNow, NoBox
  <2>10. CopyInv'
    <3>1. CASE UNCHANGED <<disk, job>> /\ task'.step = "assess"
      BY <2>1, <2>2, <2>4, <2>5, <2>6, <3>1 DEF Placed, RunInv, CopyInv, At,
         Idle, Kept, Fixed
    <3>2. CASE ~(UNCHANGED <<disk, job>> /\ task'.step = "assess")
      <4>1. /\ \A m \in Nodes : m # task.dst => disk'[m] = disk[m]
            /\ job'[task.dst].state = "running"
            /\ job'[task.dst].makes = SourceNow
        BY <2>3, <3>2
      <4>2. SourceNow = "all"
        BY <2>5, <2>6 DEF Placed, HoldInv, CopyInv, SourceNow
      <4>3. UNCHANGED <<row, task.src, task.dst>>
        BY <2>1, <2>2 DEF Kept, Fixed
      <4> QED BY <2>5, <2>6, <4>1, <4>2, <4>3 DEF Placed, CopyInv
    <3> QED BY <3>1, <3>2
  <2>11. JobInv'
    <3>1. CASE UNCHANGED <<disk, job>> /\ task'.step = "assess"
      BY <2>1, <2>2, <2>4, <2>5, <2>6, <3>1 DEF Placed, RunInv, JobInv, At,
         Idle, Kept, Fixed
    <3>2. CASE ~(UNCHANGED <<disk, job>> /\ task'.step = "assess")
      <4>1. /\ \A m \in Nodes : m # task.dst =>
                                     disk'[m] = disk[m] /\ job'[m] = job[m]
            /\ disk'[task.dst] = "some"
            /\ job'[task.dst].heard => task'.known
        BY <2>3, <3>2
      <4>2. UNCHANGED <<row, task.src, task.dst, task.snapshot>> /\ task.snapshot
        BY <2>1, <2>2 DEF Kept, Fixed
      <4>3. ~Idle
        BY <2>4 DEF At, Idle
      <4> QED BY <2>6, <4>1, <4>2, <4>3 DEF Placed, JobInv
    <3> QED BY <3>1, <3>2
  <2>12. GameInv'
    BY <2>1, <2>2, <2>3, <2>4, <2>5, <2>6 DEF Placed, HoldInv, CopyInv,
       JobInv, GameInv, At, Idle, Kept, Fixed, nodeVars, RunsOn, RemovedFrom,
       SourceNow, NoBox
  <2>13. PortInv'
    BY <2>1, <2>2, <2>3, <2>4, <2>5, <2>6 DEF Placed, CopyInv, PortInv,
       GameInv, At, Idle, Kept, Fixed, nodeVars, RunsOn, RemovedFrom,
       SourceNow, NoBox
  <2>14. GoneInv'
    BY <2>1, <2>2, <2>3, <2>4, <2>5, <2>6 DEF Placed, RunInv, JobInv, GoneInv,
       At, Idle, Kept, Fixed, nodeVars, RunsOn, RemovedFrom, SourceNow, NoBox
  <2> QED BY <2>7, <2>8, <2>9, <2>10, <2>11, <2>12, <2>13, <2>14 DEF Placed
<1>12. CASE AwaitRestore
  <2>1. \/ task'.step = "assess" /\ UNCHANGED Kept
        \/ /\ task'.step = "check" /\ job[task.dst].state = "done"
             /\ UNCHANGED <<Fixed, task.phase, task.to, task.data, task.built,
                            task.cut>>
    BY <1>12, RunLearns, UnwindMoves DEF AwaitRestore, Steps, Kept
  <2>2. UNCHANGED <<row, nodeVars>> /\ task.snapshot
    BY <1>12 DEF AwaitRestore, nodeVars, DataTyped
  <2>3. At("transferring", "await")
    BY <1>12 DEF AwaitRestore
  <2>4. /\ Holding /\ AwaitsCopy
        /\ HasCopy' => task'.step = "check"
        /\ ~HasBox' /\ ~AwaitsCopy'
    BY <2>1, <2>3 DEF Forward, Undoing, At, Idle, Kept, Fixed, StepsFit,
       Holding, HasCopy, HasBox, HasPort, AwaitsCopy, BeforeCutOver,
       AfterTransfer
  <2>5. /\ task.src \in Nodes /\ task.dst \in Nodes /\ task.src # task.dst
        /\ row.node = task.src
    BY <2>3, RunNodes DEF Placed, RunInv, RecordInv, At, Forward, Undoing, Idle
  <2>6. RunInv'
    BY <2>1, <2>2, <2>3, <2>4, <2>5 DEF Placed, RunInv, At, Idle, Kept, Fixed
  <2>7. RecordInv'
    BY <2>1, <2>2, <2>3, <2>4, <2>5 DEF Placed, RunInv, RecordInv, Forward,
       Undoing, At, Idle, Kept, Fixed, StepsFit, Holding, HasCopy, HasBox,
       HasPort, AwaitsCopy, BeforeCutOver, AfterTransfer, nodeVars, RunsOn,
       RemovedFrom, SourceNow, NoBox
  <2>8. HoldInv'
    BY <2>1, <2>2, <2>3, <2>4, <2>5 DEF Placed, HoldInv, GameInv, At, Idle,
       Kept, Fixed, nodeVars, RunsOn, RemovedFrom, SourceNow, NoBox
  <2>9. CopyInv'
    BY <2>1, <2>2, <2>3, <2>4, <2>5 DEF Placed, RunInv, HoldInv, CopyInv,
       JobInv, GameInv, At, Idle, Kept, Fixed, nodeVars, RunsOn, RemovedFrom,
       SourceNow, NoBox
  <2>10. JobInv'
    <3>1. UNCHANGED <<row, nodeVars, task.snapshot, task.src, task.dst>>
      BY <2>1, <2>2 DEF Kept, Fixed
    <3>2. ~Idle /\ (~Idle' /\ task'.data /\ task'.step # "assess" =>
                       job[task.dst].state = "done")
      BY <2>1, <2>3 DEF At, Idle
    <3>3. task'.step = "assess" => UNCHANGED <<task.data, task.known>>
      BY <2>1 DEF Kept
    <3> QED BY <3>1, <3>2, <3>3 DEF Placed, JobInv, nodeVars, Idle
  <2>11. GameInv'
    BY <2>1, <2>2, <2>3, <2>4, <2>5 DEF Placed, HoldInv, CopyInv, JobInv,
       GameInv, At, Idle, Kept, Fixed, nodeVars, RunsOn, RemovedFrom,
       SourceNow, NoBox
  <2>12. PortInv'
    BY <2>1, <2>2, <2>3, <2>4, <2>5 DEF Placed, CopyInv, PortInv, GameInv, At,
       Idle, Kept, Fixed, nodeVars, RunsOn, RemovedFrom, SourceNow, NoBox
  <2>13. GoneInv'
    BY <2>1, <2>2, <2>3, <2>4, <2>5 DEF Placed, RunInv, JobInv, GoneInv, At,
       Idle, Kept, Fixed, nodeVars, RunsOn, RemovedFrom, SourceNow, NoBox
  <2> QED BY <2>6, <2>7, <2>8, <2>9, <2>10, <2>11, <2>12, <2>13 DEF Placed
<1>13. CASE PlanPorts
  <2>1. \/ task'.step = "assess" /\ UNCHANGED Kept
        \/ /\ task'.step = "check"
             /\ UNCHANGED <<Fixed, task.phase, task.data, task.built, task.cut,
                            task.known>>
    <3>1. task \in Tasks /\ task.from \in Ports
      BY DEF RunTyped, Tasks
    <3>2. CASE Unwind
      BY <3>1, <3>2, UnwindMoves DEF Kept
    <3>3. ASSUME NEW p \in Ports, task' = [task EXCEPT !.step = "check", !.to = p]
          PROVE  /\ task'.step = "check"
                 /\ UNCHANGED <<Fixed, task.phase, task.data, task.built,
                                task.cut, task.known>>
      BY <3>1, <3>3, RunLearns DEF Steps
    <3> QED BY <1>13, <3>1, <3>2, <3>3 DEF PlanPorts
  <2>2. UNCHANGED <<row, nodeVars>>
    BY <1>13 DEF PlanPorts, nodeVars, DataTyped, othersVars
  <2>3. At("allocating_ports", "work")
    BY <1>13 DEF PlanPorts
  <2>4. Holding /\ HasCopy /\ ~HasBox' /\ ~AwaitsCopy'
    BY <2>1, <2>3 DEF Forward, Undoing, At, Idle, Kept, Fixed, StepsFit,
       Holding, HasCopy, HasBox, HasPort, AwaitsCopy, BeforeCutOver,
       AfterTransfer
  <2>5. /\ task.src \in Nodes /\ task.dst \in Nodes /\ task.src # task.dst
        /\ row.node = task.src
    BY <2>3, RunNodes DEF Placed, RunInv, RecordInv, At, Forward, Undoing, Idle
  <2>6. RunInv'
    BY <2>1, <2>2, <2>3, <2>4, <2>5 DEF Placed, RunInv, At, Idle, Kept, Fixed
  <2>7. RecordInv'
    BY <2>1, <2>2, <2>3, <2>4, <2>5 DEF Placed, RunInv, RecordInv, Forward,
       Undoing, At, Idle, Kept, Fixed, StepsFit, Holding, HasCopy, HasBox,
       HasPort, AwaitsCopy, BeforeCutOver, AfterTransfer, nodeVars, RunsOn,
       RemovedFrom, SourceNow, NoBox
  <2>8. HoldInv'
    BY <2>1, <2>2, <2>3, <2>4, <2>5 DEF Placed, HoldInv, GameInv, At, Idle,
       Kept, Fixed, nodeVars, RunsOn, RemovedFrom, SourceNow, NoBox
  <2>9. CopyInv'
    BY <2>1, <2>2, <2>3, <2>4, <2>5 DEF Placed, RunInv, HoldInv, CopyInv,
       JobInv, GameInv, At, Idle, Kept, Fixed, nodeVars, RunsOn, RemovedFrom,
       SourceNow, NoBox
  <2>10. JobInv'
    BY <2>1, <2>2, <2>3, <2>4, <2>5 DEF Placed, RunInv, CopyInv, JobInv, At,
       Idle, Kept, Fixed, nodeVars, RunsOn, RemovedFrom, SourceNow, NoBox
  <2>11. GameInv'
    BY <2>1, <2>2, <2>3, <2>4, <2>5 DEF Placed, HoldInv, CopyInv, JobInv,
       GameInv, At, Idle, Kept, Fixed, nodeVars, RunsOn, RemovedFrom,
       SourceNow, NoBox
  <2>12. PortInv'
    BY <2>1, <2>2, <2>3, <2>4, <2>5 DEF Placed, CopyInv, PortInv, GameInv, At,
       Idle, Kept, Fixed, nodeVars, RunsOn, RemovedFrom, SourceNow, NoBox
  <2>13. GoneInv'
    BY <2>1, <2>2, <2>3, <2>4, <2>5 DEF Placed, RunInv, JobInv, GoneInv, At,
       Idle, Kept, Fixed, nodeVars, RunsOn, RemovedFrom, SourceNow, NoBox
  <2> QED BY <2>6, <2>7, <2>8, <2>9, <2>10, <2>11, <2>12, <2>13 DEF Placed
<1>14. CASE BuildDestination
  <2>1. \/ task'.step = "assess" /\ UNCHANGED Kept
        \/ /\ task'.step = "check" /\ task'.built
             /\ UNCHANGED <<Fixed, task.phase, task.to, task.data, task.cut,
                            task.known>>
    BY <1>14, RunLearns, UnwindMoves DEF BuildDestination, Steps, Kept
  <2>2. UNCHANGED <<row, disk, job>>
    BY <1>14 DEF BuildDestination, nodeVars, DataTyped
  <2>3. /\ \A m \in Nodes : m # task.dst => box'[m] = box[m]
        /\ ~box'[task.dst].up \/ box'[task.dst] = box[task.dst]
        /\ task'.step = "check" => box'[task.dst].port = task.to
    BY <1>14, RunNodes, UnwindMoves, <2>1 DEF BuildDestination, nodeVars,
       DataTyped, NodesTyped
  <2>4. At("building", "work")
    BY <1>14 DEF BuildDestination
  <2>5. /\ Holding /\ HasCopy /\ ~AwaitsCopy'
        /\ HasBox' => task'.step = "check"
    BY <2>1, <2>4 DEF Forward, Undoing, At, Idle, Kept, Fixed, StepsFit,
       Holding, HasCopy, HasBox, HasPort, AwaitsCopy, BeforeCutOver,
       AfterTransfer
  <2>6. /\ task.src \in Nodes /\ task.dst \in Nodes /\ task.src # task.dst
        /\ row.node = task.src
    BY <2>4, RunNodes DEF Placed, RunInv, RecordInv, At, Forward, Undoing, Idle
  <2>7. RunInv'
    BY <2>1, <2>2, <2>3, <2>4, <2>5, <2>6 DEF Placed, RunInv, At, Idle, Kept,
       Fixed
  <2>8. RecordInv'
    BY <2>1, <2>2, <2>3, <2>4, <2>5, <2>6 DEF Placed, RunInv, RecordInv,
       Forward, Undoing, At, Idle, Kept, Fixed, StepsFit, Holding, HasCopy,
       HasBox, HasPort, AwaitsCopy, BeforeCutOver, AfterTransfer, nodeVars,
       RunsOn, RemovedFrom, SourceNow, NoBox
  <2>9. HoldInv'
    BY <2>1, <2>2, <2>3, <2>4, <2>5, <2>6 DEF Placed, HoldInv, GameInv, At,
       Idle, Kept, Fixed, nodeVars, RunsOn, RemovedFrom, SourceNow, NoBox
  <2>10. CopyInv'
    BY <2>1, <2>2, <2>3, <2>4, <2>5, <2>6 DEF Placed, RunInv, HoldInv,
       CopyInv, JobInv, GameInv, At, Idle, Kept, Fixed, nodeVars, RunsOn,
       RemovedFrom, SourceNow, NoBox
  <2>11. JobInv'
    BY <2>1, <2>2, <2>3, <2>4, <2>5, <2>6 DEF Placed, RunInv, CopyInv, JobInv,
       At, Idle, Kept, Fixed, nodeVars, RunsOn, RemovedFrom, SourceNow, NoBox
  <2>12. GameInv'
    BY <2>1, <2>2, <2>3, <2>4, <2>5, <2>6 DEF Placed, HoldInv, CopyInv,
       JobInv, GameInv, At, Idle, Kept, Fixed, nodeVars, RunsOn, RemovedFrom,
       SourceNow, NoBox
  <2>13. PortInv'
    BY <2>1, <2>2, <2>3, <2>4, <2>5, <2>6 DEF Placed, CopyInv, PortInv,
       GameInv, At, Idle, Kept, Fixed, nodeVars, RunsOn, RemovedFrom,
       SourceNow, NoBox
  <2>14. GoneInv'
    BY <2>1, <2>2, <2>3, <2>4, <2>5, <2>6 DEF Placed, RunInv, JobInv, GoneInv,
       At, Idle, Kept, Fixed, nodeVars, RunsOn, RemovedFrom, SourceNow, NoBox
  <2> QED BY <2>7, <2>8, <2>9, <2>10, <2>11, <2>12, <2>13, <2>14 DEF Placed
<1>15. CASE VerifyDestination
  <2>1. \/ task'.step = "assess" /\ UNCHANGED Kept
        \/ /\ task'.step = "enter" /\ task'.phase = "cutover"
             /\ UNCHANGED <<Fixed, task.to, task.data, task.built, task.cut,
                            task.known>>
    BY <1>15, EnterMoves, UnwindMoves DEF VerifyDestination, Phases, Kept
  <2>2. UNCHANGED <<row, nodeVars>>
    BY <1>15 DEF VerifyDestination, othersVars
  <2> QED
    BY <1>15, <2>1, <2>2, RunNodes DEF VerifyDestination, Placed, RunInv,
       RecordInv, HoldInv, CopyInv, JobInv, GameInv, PortInv, GoneInv,
       Forward, Undoing, At, Idle, Kept, Fixed, StepsFit, Holding, HasCopy,
       HasBox, HasPort, AwaitsCopy, BeforeCutOver, AfterTransfer, nodeVars
<1>16. CASE CutOver
  <2>1. /\ task'.step \in {"env", "assess"}
        /\ UNCHANGED Kept
    BY <1>16, GotoMoves, UnwindMoves DEF CutOver, Steps, Kept
  <2>2. UNCHANGED nodeVars
    BY <1>16 DEF CutOver, nodeVars, DataTyped
  <2>3. \/ UNCHANGED row /\ task'.step = "assess"
        \/ /\ row'.node = task.dst /\ row'.port = task.to
           /\ task'.step = "env"
    BY <1>16, UnwindMoves, GotoMoves DEF CutOver, nodeVars, DataTyped, Rows,
       Steps
  <2>4. At("cutover", "work")
    BY <1>16 DEF CutOver
  <2>5. /\ Holding /\ HasCopy /\ HasBox
        /\ ~Holding' /\ ~HasCopy' /\ ~HasBox' /\ ~AwaitsCopy'
    BY <2>1, <2>4 DEF Forward, Undoing, At, Idle, Kept, Fixed, StepsFit,
       Holding, HasCopy, HasBox, HasPort, AwaitsCopy, BeforeCutOver,
       AfterTransfer
  <2>6. /\ task.src \in Nodes /\ task.dst \in Nodes /\ task.src # task.dst
        /\ row.node = task.src
    BY <2>4, RunNodes DEF Placed, RunInv, RecordInv, At, Forward, Undoing, Idle
  <2>7. RunInv'
    BY <2>1, <2>2, <2>3, <2>4, <2>5, <2>6 DEF Placed, RunInv, At, Idle, Kept,
       Fixed
  <2>8. RecordInv'
    BY <2>1, <2>2, <2>3, <2>4, <2>5, <2>6 DEF Placed, RunInv, RecordInv,
       Forward, Undoing, At, Idle, Kept, Fixed, StepsFit, Holding, HasCopy,
       HasBox, HasPort, AwaitsCopy, BeforeCutOver, AfterTransfer, nodeVars,
       RunsOn, RemovedFrom, SourceNow, NoBox
  <2>9. HoldInv'
    BY <2>1, <2>2, <2>3, <2>4, <2>5, <2>6 DEF Placed, HoldInv, GameInv, At,
       Idle, Kept, Fixed, nodeVars, RunsOn, RemovedFrom, SourceNow, NoBox
  <2>10. CopyInv'
    BY <2>1, <2>2, <2>3, <2>4, <2>5, <2>6 DEF Placed, RunInv, HoldInv,
       CopyInv, JobInv, GameInv, At, Idle, Kept, Fixed, nodeVars, RunsOn,
       RemovedFrom, SourceNow, NoBox
  <2>11. JobInv'
    BY <2>1, <2>2, <2>3, <2>4, <2>5, <2>6 DEF Placed, RunInv, CopyInv, JobInv,
       At, Idle, Kept, Fixed, nodeVars, RunsOn, RemovedFrom, SourceNow, NoBox
  <2>12. GameInv'
    BY <2>1, <2>2, <2>3, <2>4, <2>5, <2>6 DEF Placed, HoldInv, CopyInv,
       JobInv, GameInv, At, Idle, Kept, Fixed, nodeVars, RunsOn, RemovedFrom,
       SourceNow, NoBox
  <2>13. PortInv'
    BY <2>1, <2>2, <2>3, <2>4, <2>5, <2>6 DEF Placed, CopyInv, PortInv,
       GameInv, At, Idle, Kept, Fixed, nodeVars, RunsOn, RemovedFrom,
       SourceNow, NoBox
  <2>14. GoneInv'
    BY <2>1, <2>2, <2>3, <2>4, <2>5, <2>6 DEF Placed, RunInv, JobInv, GoneInv,
       At, Idle, Kept, Fixed, nodeVars, RunsOn, RemovedFrom, SourceNow, NoBox
  <2> QED BY <2>7, <2>8, <2>9, <2>10, <2>11, <2>12, <2>13, <2>14 DEF Placed
<1>17. CASE StoreEnv
  <2>1. /\ task'.step = "enter" /\ task'.phase = "cleanup" /\ task'.cut
        /\ UNCHANGED <<Fixed, task.to, task.data, task.built, task.known>>
    BY <1>17, RunLearns DEF StoreEnv, Steps, Kept
  <2>2. UNCHANGED <<row, nodeVars>>
    BY <1>17 DEF StoreEnv, othersVars
  <2> QED
    BY <1>17, <2>1, <2>2, RunNodes DEF StoreEnv, Placed, RunInv, RecordInv,
       HoldInv, CopyInv, JobInv, GameInv, PortInv, GoneInv, Forward, Undoing,
       At, Idle, Kept, Fixed, StepsFit, Holding, HasCopy, HasBox, HasPort,
       AwaitsCopy, BeforeCutOver, AfterTransfer, nodeVars
<1>18. CASE CleanUpSource
  <2>1. /\ task'.step = "start"
        /\ UNCHANGED Kept
    BY <1>18, GotoMoves DEF CleanUpSource, Steps, Kept
  <2>2. UNCHANGED row
    BY <1>18 DEF CleanUpSource, nodeVars, DataTyped
  <2>3. UNCHANGED nodeVars \/ RemovedFrom(task.src)
    BY <1>18, RunNodes, DeletedMoves DEF CleanUpSource, nodeVars, DataTyped
  <2>4. At("cleanup", "work")
    BY <1>18 DEF CleanUpSource
  <2>5. ~Holding' /\ ~HasCopy' /\ ~HasBox' /\ ~AwaitsCopy'
    BY <2>1, <2>4 DEF Forward, Undoing, At, Idle, Kept, Fixed, StepsFit,
       Holding, HasCopy, HasBox, HasPort, AwaitsCopy, BeforeCutOver,
       AfterTransfer
  <2>6. /\ task.src \in Nodes /\ task.dst \in Nodes /\ task.src # task.dst
        /\ row.node = task.dst
    BY <2>4, RunNodes DEF Placed, RunInv, RecordInv, At, Forward, Undoing, Idle
  <2>7. RunInv'
    BY <2>1, <2>2, <2>3, <2>4, <2>5, <2>6 DEF Placed, RunInv, At, Idle, Kept,
       Fixed
  <2>8. RecordInv'
    BY <2>1, <2>2, <2>3, <2>4, <2>5, <2>6 DEF Placed, RunInv, RecordInv,
       Forward, Undoing, At, Idle, Kept, Fixed, StepsFit, Holding, HasCopy,
       HasBox, HasPort, AwaitsCopy, BeforeCutOver, AfterTransfer, nodeVars,
       RunsOn, RemovedFrom, SourceNow, NoBox
  <2>9. HoldInv'
    BY <2>1, <2>2, <2>3, <2>4, <2>5, <2>6 DEF Placed, HoldInv, GameInv, At,
       Idle, Kept, Fixed, nodeVars, RunsOn, RemovedFrom, SourceNow, NoBox
  <2>10. CopyInv'
    BY <2>1, <2>2, <2>3, <2>4, <2>5, <2>6 DEF Placed, RunInv, HoldInv,
       CopyInv, JobInv, GameInv, At, Idle, Kept, Fixed, nodeVars, RunsOn,
       RemovedFrom, SourceNow, NoBox
  <2>11. JobInv'
    BY <2>1, <2>2, <2>3, <2>4, <2>5, <2>6 DEF Placed, RunInv, CopyInv, JobInv,
       At, Idle, Kept, Fixed, nodeVars, RunsOn, RemovedFrom, SourceNow, NoBox
  <2>12. GameInv'
    BY <2>1, <2>2, <2>3, <2>4, <2>5, <2>6 DEF Placed, HoldInv, CopyInv,
       JobInv, GameInv, At, Idle, Kept, Fixed, nodeVars, RunsOn, RemovedFrom,
       SourceNow, NoBox
  <2>13. PortInv'
    BY <2>1, <2>2, <2>3, <2>4, <2>5, <2>6 DEF Placed, CopyInv, PortInv,
       GameInv, At, Idle, Kept, Fixed, Forward, Undoing, nodeVars, RunsOn,
       RemovedFrom, SourceNow, NoBox
  <2>14. GoneInv'
    BY <2>1, <2>2, <2>3, <2>4, <2>5, <2>6 DEF Placed, RunInv, JobInv, GoneInv,
       At, Idle, Kept, Fixed, nodeVars, RunsOn, RemovedFrom, SourceNow, NoBox
  <2> QED BY <2>7, <2>8, <2>9, <2>10, <2>11, <2>12, <2>13, <2>14 DEF Placed
<1>19. CASE StartMoved
  <2>1. /\ task'.step = "close"
        /\ UNCHANGED Kept
    BY <1>19, GotoMoves DEF StartMoved, Steps, Kept
  <2>2. \/ /\ row'.node = row.node /\ row'.port = row.port
           /\ row'.status # "migrating"
        \/ UNCHANGED row
    BY <1>19 DEF StartMoved, nodeVars, DataTyped, Rows
  <2>3. UNCHANGED nodeVars \/ RunsOn(task.dst)
    BY <1>19, RunNodes, StartedMoves DEF StartMoved, nodeVars, DataTyped
  <2>4. At("cleanup", "start")
    BY <1>19 DEF StartMoved
  <2>5. ~Holding' /\ ~HasCopy' /\ ~HasBox' /\ ~AwaitsCopy'
    BY <2>1, <2>4 DEF Forward, Undoing, At, Idle, Kept, Fixed, StepsFit,
       Holding, HasCopy, HasBox, HasPort, AwaitsCopy, BeforeCutOver,
       AfterTransfer
  <2>6. /\ task.src \in Nodes /\ task.dst \in Nodes /\ task.src # task.dst
        /\ row.node = task.dst
    BY <2>4, RunNodes DEF Placed, RunInv, RecordInv, At, Forward, Undoing, Idle
  <2>7. RunInv'
    BY <2>1, <2>2, <2>3, <2>4, <2>5, <2>6 DEF Placed, RunInv, At, Idle, Kept,
       Fixed
  <2>8. RecordInv'
    BY <2>1, <2>2, <2>3, <2>4, <2>5, <2>6 DEF Placed, RunInv, RecordInv,
       Forward, Undoing, At, Idle, Kept, Fixed, StepsFit, Holding, HasCopy,
       HasBox, HasPort, AwaitsCopy, BeforeCutOver, AfterTransfer, nodeVars,
       RunsOn, RemovedFrom, SourceNow, NoBox
  <2>9. HoldInv'
    BY <2>1, <2>2, <2>3, <2>4, <2>5, <2>6 DEF Placed, HoldInv, GameInv, At,
       Idle, Kept, Fixed, nodeVars, RunsOn, RemovedFrom, SourceNow, NoBox
  <2>10. CopyInv'
    BY <2>1, <2>2, <2>3, <2>4, <2>5, <2>6 DEF Placed, RunInv, HoldInv,
       CopyInv, JobInv, GameInv, At, Idle, Kept, Fixed, nodeVars, RunsOn,
       RemovedFrom, SourceNow, NoBox
  <2>11. JobInv'
    BY <2>1, <2>2, <2>3, <2>4, <2>5, <2>6 DEF Placed, RunInv, CopyInv, JobInv,
       At, Idle, Kept, Fixed, nodeVars, RunsOn, RemovedFrom, SourceNow, NoBox
  <2>12. GameInv'
    BY <2>1, <2>2, <2>3, <2>4, <2>5, <2>6 DEF Placed, HoldInv, CopyInv,
       JobInv, GameInv, At, Idle, Kept, Fixed, nodeVars, RunsOn, RemovedFrom,
       SourceNow, NoBox
  <2>13. PortInv'
    BY <2>1, <2>2, <2>3, <2>4, <2>5, <2>6 DEF Placed, CopyInv, PortInv,
       GameInv, At, Idle, Kept, Fixed, Forward, Undoing, nodeVars, RunsOn,
       RemovedFrom, SourceNow, NoBox
  <2>14. GoneInv'
    BY <2>1, <2>2, <2>3, <2>4, <2>5, <2>6 DEF Placed, RunInv, JobInv, GoneInv,
       At, Idle, Kept, Fixed, nodeVars, RunsOn, RemovedFrom, SourceNow, NoBox
  <2> QED BY <2>7, <2>8, <2>9, <2>10, <2>11, <2>12, <2>13, <2>14 DEF Placed
<1>20. CASE Succeed
  <2>1. /\ task'.step \in {"idle", "assess"}
        /\ UNCHANGED Kept
    BY <1>20, GotoMoves, UnwindMoves DEF Succeed, Steps, Kept
  <2>2. UNCHANGED <<row, nodeVars>>
    BY <1>20 DEF Succeed, othersVars
  <2> QED
    BY <1>20, <2>1, <2>2, RunNodes DEF Succeed, Placed, RunInv, RecordInv,
       HoldInv, CopyInv, JobInv, GameInv, PortInv, GoneInv, Forward, Undoing,
       At, Idle, Kept, Fixed, StepsFit, Holding, HasCopy, HasBox, HasPort,
       AwaitsCopy, BeforeCutOver, AfterTransfer, nodeVars
<1>21. CASE Assess
  <2>1. \/ task'.step = "end" /\ UNCHANGED Kept /\ ~task.data /\ ~task.cut
             /\ row.status = task.prev
        \/ task'.step = "record" /\ UNCHANGED Kept
    BY <1>21, GotoMoves, RunLearns DEF Assess, Steps, Kept
  <2>2. UNCHANGED <<row, nodeVars>>
    BY <1>21 DEF Assess, othersVars
  <2> QED
    BY <1>21, <2>1, <2>2, RunNodes DEF Assess, Placed, RunInv, RecordInv,
       HoldInv, CopyInv, JobInv, GameInv, PortInv, GoneInv, Forward, Undoing,
       At, Idle, Kept, Fixed, StepsFit, Holding, HasCopy, HasBox, HasPort,
       AwaitsCopy, BeforeCutOver, AfterTransfer, nodeVars
<1>22. CASE MoveRecordBack
  <2>1. /\ task'.step = "remove"
        /\ UNCHANGED Kept
    BY <1>22, GotoMoves, RunLearns DEF MoveRecordBack, Steps, Kept
  <2>2. UNCHANGED nodeVars
    BY <1>22 DEF MoveRecordBack, nodeVars, DataTyped
  <2>3. IF task.cut THEN /\ row'.node = task.src /\ row'.port = task.from
                         /\ disk[task.src] = "all"
        ELSE UNCHANGED row
    BY <1>22 DEF MoveRecordBack, nodeVars, DataTyped, Rows
  <2>4. task.step = "record"
    BY <1>22 DEF MoveRecordBack
  <2>5. ~Holding' /\ ~HasCopy' /\ ~HasBox' /\ ~AwaitsCopy'
    BY <2>1, <2>4 DEF Forward, Undoing, At, Idle, Kept, Fixed, StepsFit,
       Holding, HasCopy, HasBox, HasPort, AwaitsCopy, BeforeCutOver,
       AfterTransfer
  <2>6. /\ task.src \in Nodes /\ task.dst \in Nodes /\ task.src # task.dst
        /\ row.node = IF task.cut THEN task.dst ELSE task.src
    BY <2>4, RunNodes DEF Placed, RunInv, RecordInv, At, Forward, Undoing, Idle
  <2>7. RunInv'
    BY <2>1, <2>2, <2>3, <2>4, <2>5, <2>6 DEF Placed, RunInv, At, Idle, Kept,
       Fixed
  <2>8. RecordInv'
    BY <2>1, <2>2, <2>3, <2>4, <2>5, <2>6 DEF Placed, RunInv, RecordInv,
       Forward, Undoing, At, Idle, Kept, Fixed, StepsFit, Holding, HasCopy,
       HasBox, HasPort, AwaitsCopy, BeforeCutOver, AfterTransfer, nodeVars,
       RunsOn, RemovedFrom, SourceNow, NoBox
  <2>9. HoldInv'
    BY <2>1, <2>2, <2>3, <2>4, <2>5, <2>6 DEF Placed, HoldInv, GameInv, At,
       Idle, Kept, Fixed, nodeVars, RunsOn, RemovedFrom, SourceNow, NoBox
  <2>10. CopyInv'
    BY <2>1, <2>2, <2>3, <2>4, <2>5, <2>6 DEF Placed, RunInv, HoldInv,
       CopyInv, JobInv, GameInv, At, Idle, Kept, Fixed, nodeVars, RunsOn,
       RemovedFrom, SourceNow, NoBox
  <2>11. JobInv'
    BY <2>1, <2>2, <2>3, <2>4, <2>5, <2>6 DEF Placed, RunInv, CopyInv, JobInv,
       At, Idle, Kept, Fixed, nodeVars, RunsOn, RemovedFrom, SourceNow, NoBox
  <2>12. GameInv'
    BY <2>1, <2>2, <2>3, <2>4, <2>5, <2>6 DEF Placed, HoldInv, CopyInv,
       JobInv, GameInv, At, Idle, Kept, Fixed, nodeVars, RunsOn, RemovedFrom,
       SourceNow, NoBox
  <2>13. PortInv'
    BY <2>1, <2>2, <2>3, <2>4, <2>5, <2>6 DEF Placed, CopyInv, PortInv,
       GameInv, At, Idle, Kept, Fixed, nodeVars, RunsOn, RemovedFrom,
       SourceNow, NoBox
  <2>14. GoneInv'
    BY <2>1, <2>2, <2>3, <2>4, <2>5, <2>6 DEF Placed, RunInv, JobInv, GoneInv,
       At, Idle, Kept, Fixed, nodeVars, RunsOn, RemovedFrom, SourceNow, NoBox
  <2> QED BY <2>7, <2>8, <2>9, <2>10, <2>11, <2>12, <2>13, <2>14 DEF Placed
<1>23. CASE RemoveCopy
  <2>1. /\ task'.step = "restart"
        /\ UNCHANGED Kept
        /\ task'.outcome \in {task.outcome, "partial"}
    BY <1>23, GotoMoves, RunLearns DEF RemoveCopy, Steps, Kept
  <2>2. UNCHANGED row
    BY <1>23 DEF RemoveCopy, nodeVars, DataTyped
  <2>3. \/ /\ RemovedFrom(task.dst) /\ (task.data \/ task.built)
           /\ ~(task.known /\ job[task.dst].state = "running")
        \/ UNCHANGED nodeVars /\ (~task.data \/ task'.outcome = "partial")
    BY <1>23, RunNodes, DeletedMoves, RunLearns DEF RemoveCopy, nodeVars,
       DataTyped, Steps
  <2>4. task.step = "remove"
    BY <1>23 DEF RemoveCopy
  <2>5. ~Holding' /\ ~HasCopy' /\ ~HasBox' /\ ~AwaitsCopy'
    BY <2>1, <2>4 DEF Forward, Undoing, At, Idle, Kept, Fixed, StepsFit,
       Holding, HasCopy, HasBox, HasPort, AwaitsCopy, BeforeCutOver,
       AfterTransfer
  <2>6. /\ task.src \in Nodes /\ task.dst \in Nodes /\ task.src # task.dst
        /\ row.node = task.src
    BY <2>4, RunNodes DEF Placed, RunInv, RecordInv, At, Forward, Undoing, Idle
  <2>7. RunInv'
    BY <2>1, <2>2, <2>3, <2>4, <2>5, <2>6 DEF Placed, RunInv, At, Idle, Kept,
       Fixed
  <2>8. RecordInv'
    BY <2>1, <2>2, <2>3, <2>4, <2>5, <2>6 DEF Placed, RunInv, RecordInv,
       Forward, Undoing, At, Idle, Kept, Fixed, StepsFit, Holding, HasCopy,
       HasBox, HasPort, AwaitsCopy, BeforeCutOver, AfterTransfer, nodeVars,
       RunsOn, RemovedFrom, SourceNow, NoBox
  <2>9. HoldInv'
    BY <2>1, <2>2, <2>3, <2>4, <2>5, <2>6 DEF Placed, HoldInv, GameInv, At,
       Idle, Kept, Fixed, nodeVars, RunsOn, RemovedFrom, SourceNow, NoBox
  <2>10. CopyInv'
    BY <2>1, <2>2, <2>3, <2>4, <2>5, <2>6 DEF Placed, RunInv, HoldInv,
       CopyInv, JobInv, GameInv, At, Idle, Kept, Fixed, nodeVars, RunsOn,
       RemovedFrom, SourceNow, NoBox
  <2>11. JobInv'
    BY <2>1, <2>2, <2>3, <2>4, <2>5, <2>6 DEF Placed, RunInv, CopyInv, JobInv,
       At, Idle, Kept, Fixed, nodeVars, RunsOn, RemovedFrom, SourceNow, NoBox
  <2>12. GameInv'
    BY <2>1, <2>2, <2>3, <2>4, <2>5, <2>6 DEF Placed, HoldInv, CopyInv,
       JobInv, GameInv, At, Idle, Kept, Fixed, nodeVars, RunsOn, RemovedFrom,
       SourceNow, NoBox
  <2>13. PortInv'
    BY <2>1, <2>2, <2>3, <2>4, <2>5, <2>6 DEF Placed, CopyInv, PortInv,
       GameInv, At, Idle, Kept, Fixed, nodeVars, RunsOn, RemovedFrom,
       SourceNow, NoBox
  <2>14. GoneInv'
    BY <2>1, <2>2, <2>3, <2>4, <2>5, <2>6 DEF Placed, RunInv, JobInv, GoneInv,
       At, Idle, Kept, Fixed, nodeVars, RunsOn, RemovedFrom, SourceNow, NoBox
  <2> QED BY <2>7, <2>8, <2>9, <2>10, <2>11, <2>12, <2>13, <2>14 DEF Placed
<1>24. CASE RestartSource
  <2>1. /\ task'.step = "end"
        /\ UNCHANGED Kept
        /\ task'.outcome \in {task.outcome, "partial"}
    BY <1>24, GotoMoves, RunLearns DEF RestartSource, Steps, Kept
  <2>2. row'.node = row.node /\ row'.port = row.port /\ row'.status # "migrating"
    BY <1>24 DEF RestartSource, nodeVars, DataTyped, Rows, Placed, RunInv,
       Idle, wasRunning
  <2>3. UNCHANGED nodeVars \/ RunsOn(task.src)
    BY <1>24, RunNodes, StartedMoves DEF RestartSource, nodeVars, DataTyped
  <2>4. task.step = "restart"
    BY <1>24 DEF RestartSource
  <2>5. ~Holding' /\ ~HasCopy' /\ ~HasBox' /\ ~AwaitsCopy'
    BY <2>1, <2>4 DEF Forward, Undoing, At, Idle, Kept, Fixed, StepsFit,
       Holding, HasCopy, HasBox, HasPort, AwaitsCopy, BeforeCutOver,
       AfterTransfer
  <2>6. /\ task.src \in Nodes /\ task.dst \in Nodes /\ task.src # task.dst
        /\ row.node = task.src
    BY <2>4, RunNodes DEF Placed, RunInv, RecordInv, At, Forward, Undoing, Idle
  <2>7. RunInv'
    BY <2>1, <2>2, <2>3, <2>4, <2>5, <2>6 DEF Placed, RunInv, At, Idle, Kept,
       Fixed
  <2>8. RecordInv'
    BY <2>1, <2>2, <2>3, <2>4, <2>5, <2>6 DEF Placed, RunInv, RecordInv,
       Forward, Undoing, At, Idle, Kept, Fixed, StepsFit, Holding, HasCopy,
       HasBox, HasPort, AwaitsCopy, BeforeCutOver, AfterTransfer, nodeVars,
       RunsOn, RemovedFrom, SourceNow, NoBox
  <2>9. HoldInv'
    BY <2>1, <2>2, <2>3, <2>4, <2>5, <2>6 DEF Placed, HoldInv, GameInv, At,
       Idle, Kept, Fixed, nodeVars, RunsOn, RemovedFrom, SourceNow, NoBox
  <2>10. CopyInv'
    BY <2>1, <2>2, <2>3, <2>4, <2>5, <2>6 DEF Placed, RunInv, HoldInv,
       CopyInv, JobInv, GameInv, At, Idle, Kept, Fixed, nodeVars, RunsOn,
       RemovedFrom, SourceNow, NoBox
  <2>11. JobInv'
    BY <2>1, <2>2, <2>3, <2>4, <2>5, <2>6 DEF Placed, RunInv, CopyInv, JobInv,
       At, Idle, Kept, Fixed, nodeVars, RunsOn, RemovedFrom, SourceNow, NoBox
  <2>12. GameInv'
    BY <2>1, <2>2, <2>3, <2>4, <2>5, <2>6 DEF Placed, HoldInv, CopyInv,
       JobInv, GameInv, At, Idle, Kept, Fixed, nodeVars, RunsOn, RemovedFrom,
       SourceNow, NoBox
  <2>13. PortInv'
    BY <2>1, <2>2, <2>3, <2>4, <2>5, <2>6 DEF Placed, CopyInv, PortInv,
       GameInv, At, Idle, Kept, Fixed, nodeVars, RunsOn, RemovedFrom,
       SourceNow, NoBox
  <2>14. GoneInv'
    BY <2>1, <2>2, <2>3, <2>4, <2>5, <2>6 DEF Placed, RunInv, JobInv, GoneInv,
       At, Idle, Kept, Fixed, nodeVars, RunsOn, RemovedFrom, SourceNow, NoBox
  <2> QED BY <2>7, <2>8, <2>9, <2>10, <2>11, <2>12, <2>13, <2>14 DEF Placed
<1>25. CASE EndRolledBack \/ Abandon
  <2>1. /\ task'.step = "idle"
        /\ UNCHANGED Kept
    BY <1>25, GotoMoves DEF EndRolledBack, Abandon, Steps, Kept
  <2>2. UNCHANGED <<row, nodeVars>>
    BY <1>25 DEF EndRolledBack, Abandon, othersVars
  <2> QED
    BY <2>1, <2>2, RunNodes DEF Placed, RunInv,
       RecordInv, HoldInv, CopyInv, JobInv, GameInv, PortInv, GoneInv,
       Forward, Undoing, At, Idle, Kept, Fixed, StepsFit, Holding, HasCopy,
       HasBox, HasPort, AwaitsCopy, BeforeCutOver, AfterTransfer, nodeVars
<1>26. CASE CheckCancel \/ WriteCancel
  <2>1. UNCHANGED <<row, nodeVars, task>>
    BY <1>26 DEF CheckCancel, WriteCancel
  <2> QED BY <2>1, SameKeeps
<1>27. CASE Power
  <2>1. row.node \in Nodes /\ row'.node = row.node /\ row'.port = row.port
    BY <1>27 DEF Power, DataTyped, Rows
  <2>2. row.status # "migrating" /\ UNCHANGED task
    BY <1>27 DEF Power
  <2>3. \/ RunsOn(row.node)
        \/ /\ UNCHANGED <<disk, job>>
           /\ \A m \in Nodes : box'[m].port = box[m].port
           /\ \A m \in Nodes : box'[m].up => box[m].up
           /\ \A m \in Nodes : box'[m] = box[m] \/ m = row.node
    <3>1. CASE StartedOn(row.node)
      BY <2>1, <3>1, StartedMoves
    <3>2. CASE box' = [box EXCEPT ![row.node].up = FALSE] /\ UNCHANGED <<disk, job>>
      BY <2>1, <3>2 DEF NodesTyped, Boxes
    <3> QED BY <1>27, <3>1, <3>2 DEF Power
  <2>4. ~Holding /\ ~HasCopy /\ ~HasBox /\ ~AwaitsCopy
    <3>1. ~Holding
      BY <2>2 DEF Placed, HoldInv
    <3> QED
      BY <3>1 DEF Holding, HasCopy, HasBox, AwaitsCopy, AfterTransfer,
         BeforeCutOver, Forward, Undoing, At, StepsFit
  <2>5. ~Holding' /\ ~HasCopy' /\ ~HasBox' /\ ~AwaitsCopy'
    BY <2>2, <2>4 DEF Holding, HasCopy, HasBox, AwaitsCopy, AfterTransfer,
       BeforeCutOver, Forward, Undoing, At
  <2>6. /\ ~Idle => task.src \in Nodes /\ task.dst \in Nodes /\ task.src # task.dst
        /\ task.step \in {"remove", "restart", "end"} => row.node = task.src
    BY RunNodes DEF Placed, RunInv, RecordInv
  <2>7. RunInv'
    BY <2>2, <2>5 DEF Placed, RunInv, Idle, At
  <2>8. RecordInv'
    <3>1. row'.status # "migrating"
      BY <1>27 DEF Power, DataTyped, Rows
    <3> QED BY <2>1, <2>2, <3>1 DEF Placed, RecordInv, Forward, Undoing
  <2>9. HoldInv'
    BY <2>5 DEF HoldInv
  <2>10. CopyInv'
    BY <2>1, <2>3, <2>5 DEF Placed, CopyInv, RunsOn
  <2>11. JobInv'
    BY <2>1, <2>2, <2>3, <2>6 DEF Placed, JobInv, RunsOn, Idle
  <2>12. GameInv'
    BY <2>1, <2>3 DEF Placed, GameInv, RunsOn
  <2>13. PortInv'
    BY <2>1, <2>2, <2>3, <2>5, <2>6 DEF Placed, PortInv, RunsOn, Idle
  <2>14. GoneInv'
    BY <2>1, <2>2, <2>3, <2>6 DEF Placed, GoneInv, RunsOn, Idle
  <2> QED
    BY <2>7, <2>8, <2>9, <2>10, <2>11, <2>12, <2>13, <2>14 DEF Placed
<1>28. CASE PanelRestarts
  <2>1. /\ task'.step = "idle"
        /\ UNCHANGED Kept
    BY <1>28, GotoMoves DEF PanelRestarts, Steps, Kept
  <2>2. row'.node = row.node /\ row'.port = row.port /\ UNCHANGED nodeVars
    BY <1>28 DEF PanelRestarts, DataTyped, Rows
  <2>3. ~Holding' /\ ~HasCopy' /\ ~HasBox' /\ ~AwaitsCopy'
    BY <2>1 DEF Holding, HasCopy, HasBox, AwaitsCopy, AfterTransfer,
       BeforeCutOver, Forward, Undoing, At
  <2> QED
    BY <2>1, <2>2, <2>3 DEF Placed, RunInv, RecordInv, HoldInv, CopyInv,
       JobInv, GameInv, PortInv, GoneInv, Forward, Undoing, Idle, At, Kept,
       Fixed, nodeVars
<1>29. ASSUME NEW n \in Nodes, AcceptMigration(n) PROVE Placed'
  <2>1. /\ task'.step = "enter" /\ task'.phase = "backup"
        /\ task'.src = row.node /\ task'.dst = n /\ n # row.node
        /\ task'.prev \in {"running", "stopped", "error"}
        /\ task'.from = row.port /\ ~task'.data /\ ~task'.built /\ ~task'.cut
        /\ task'.snapshot = task.snapshot
    BY <1>29 DEF AcceptMigration
  <2>2. UNCHANGED <<row, nodeVars>> /\ row.node \in Nodes
    BY <1>29 DEF AcceptMigration, DataTyped, Rows
  <2>3. \A m \in Nodes : job[m].state = "running" => ~job[m].heard
    BY <1>29 DEF AcceptMigration, ActiveRun
  <2>4. ~Holding' /\ ~HasCopy' /\ ~HasBox' /\ ~AwaitsCopy'
    BY <2>1 DEF Holding, HasCopy, HasBox, AwaitsCopy, AfterTransfer,
       BeforeCutOver, Forward, Undoing, At
  <2>5. RunInv' /\ RecordInv'
    BY <2>1, <2>2, <2>4 DEF RunInv, RecordInv, Forward, Undoing, Idle, At
  <2> QED
    BY <2>1, <2>2, <2>3, <2>4, <2>5 DEF Placed, HoldInv, CopyInv, JobInv,
       GameInv, PortInv, GoneInv, Idle, nodeVars
<1>30. ASSUME NEW n \in Nodes, JobEnds(n) PROVE Placed'
  <2>1. UNCHANGED <<row, box, task>> /\ job[n].state = "running"
    BY <1>30 DEF JobEnds, othersVars
  <2>2. /\ \A m \in Nodes : m # n => disk'[m] = disk[m] /\ job'[m] = job[m]
        /\ disk'[n] \in {job[n].makes, "some"}
        /\ job'[n].state # "running"
        /\ job'[n].state = "done" => disk'[n] = job[n].makes
        /\ job'[n].heard = job[n].heard /\ job'[n].makes = job[n].makes
    BY <1>30 DEF JobEnds, NodesTyped, Jobs
  <2>3. /\ n # row.node /\ (~Idle => n # task.src)
        /\ row.node \in Nodes /\ task.src \in Nodes /\ task.dst \in Nodes
        /\ task.snapshot /\ (HasCopy => n # task.dst)
    BY <2>1, RunNodes DEF Placed, JobInv, CopyInv, DataTyped, Rows
  <2>4. UNCHANGED <<Holding, HasCopy, HasBox, AwaitsCopy>>
    BY <2>1 DEF Holding, HasCopy, HasBox, AwaitsCopy, AfterTransfer,
       BeforeCutOver, Forward, Undoing, At
  <2>5. RunInv' /\ RecordInv'
    BY <2>1, <2>4 DEF Placed, RunInv, RecordInv, Forward, Undoing, Idle, At
  <2>6. HoldInv' /\ PortInv'
    BY <2>1, <2>2, <2>3, <2>4 DEF Placed, HoldInv, PortInv, Idle
  <2>7. CopyInv'
    BY <2>1, <2>2, <2>3, <2>4 DEF Placed, CopyInv, JobInv, Idle
  <2>8. JobInv'
    BY <2>1, <2>2, <2>3 DEF Placed, JobInv, Idle
  <2>9. GameInv'
    BY <2>1, <2>2, <2>3 DEF Placed, GameInv
  <2>10. GoneInv'
    BY <2>1, <2>2, <2>3 DEF Placed, GoneInv
  <2> QED BY <2>5, <2>6, <2>7, <2>8, <2>9, <2>10 DEF Placed
<1>31. ASSUME NEW n \in Nodes, NEW p \in Ports, TakePort(n, p) PROVE Placed'
  <2>1. UNCHANGED <<row, nodeVars, task>>
    BY <1>31 DEF TakePort
  <2> QED BY <2>1, SameKeeps
<1>32. CASE UNCHANGED vars
  <2>1. UNCHANGED <<row, nodeVars, task>>
    BY <1>32 DEF vars
  <2> QED BY <2>1, SameKeeps
<1> QED
  BY <1>1, <1>2, <1>3, <1>4, <1>5, <1>6, <1>7, <1>8, <1>9, <1>10, <1>11,
     <1>12, <1>13, <1>14, <1>15, <1>16, <1>17, <1>18, <1>19, <1>20, <1>21,
     <1>22, <1>23, <1>24, <1>25, <1>26, <1>27, <1>28, <1>29, <1>30, <1>31,
     <1>32 DEF Next, RunStep, RollbackStep

-----------------------------------------------------------------------------
(* What the runs check, for every set of nodes, ports and faults.          *)

\* A server on one node, with its container, and no migration.
LEMMA InitHolds == Init => Typed /\ Inv
<1> SUFFICES ASSUME Init PROVE Typed /\ Inv
  OBVIOUS
<1> PICK n \in Nodes, p \in Ports, s \in {"running", "stopped"}, b \in BOOLEAN :
        /\ row = [node |-> n, port |-> p, status |-> s]
        /\ disk = [m \in Nodes |-> IF m = n THEN "all" ELSE "none"]
        /\ box = [m \in Nodes |-> IF m = n
                                  THEN [port |-> p, up |-> s = "running"]
                                  ELSE NoBox]
        /\ job = [m \in Nodes |-> NoJob]
        /\ mig = NoMigration
        /\ task = [step |-> "idle", phase |-> "backup", src |-> n, dst |-> n,
                   prev |-> "stopped", from |-> p, to |-> 0,
                   snapshot |-> b, data |-> FALSE, built |-> FALSE,
                   cut |-> FALSE, known |-> FALSE, cancelled |-> FALSE,
                   outcome |-> "not_needed"]
        /\ cancel = FALSE /\ rival = <<>> /\ spoiled = FALSE
        /\ accepted = 0 /\ faults = 0
  BY DEF Init
<1>1. task \in Tasks
  BY DEF Tasks, Steps, Phases, Statuses
<1>2. RunTyped
  BY <1>1 DEF RunTyped, StepsFit, HasPort, Forward, Undoing
<1>3. NodesTyped
  <2>1. [port |-> p, up |-> s = "running"] \in Boxes /\ NoBox \in Boxes
    BY DEF Boxes, NoBox
  <2>2. NoJob \in Jobs
    BY DEF Jobs, NoJob, Contents
  <2> QED BY <2>1, <2>2 DEF NodesTyped, Contents
<1>4. DataTyped
  <2>1. row \in Rows /\ mig \in Migrations
    BY DEF Rows, Statuses, Migrations, NoMigration
  <2>2. 0 \in 0..MaxMigrations /\ 0 \in 0..MaxFaults
    BY MigrationAssumption
  <2> QED BY <2>1, <2>2 DEF DataTyped
<1>5. Placed
  BY DEF Placed, RunInv, RecordInv, HoldInv, CopyInv, JobInv, GameInv,
     PortInv, GoneInv, Holding, HasCopy, HasBox, AwaitsCopy, AfterTransfer,
     BeforeCutOver, Forward, Undoing, Idle, At, NoJob, NoBox
<1> QED BY <1>2, <1>3, <1>4, <1>5 DEF Typed, Inv

\* No step takes the promise up again.
LEMMA SpoiledStays == spoiled /\ [Next]_vars => spoiled'
BY DEF Next, RunStep, RollbackStep, vars, EnterPhase, Checkpoint,
   TakeSafetyBackup, BeginStop, StopSource, HoldSource, CompleteSnapshot,
   PrepareDestination, StartStream, EndStream, StartRestore, AwaitRestore,
   PlanPorts, BuildDestination, VerifyDestination, CutOver, StoreEnv,
   CleanUpSource, StartMoved, Succeed, Assess, MoveRecordBack, RemoveCopy,
   RestartSource, EndRolledBack, Abandon, CheckCancel, WriteCancel, Power,
   PanelRestarts, AcceptMigration, JobEnds, TakePort

\* ... and a step that gives it up, or follows one, has nothing to keep.
LEMMA InvStep ==
    ASSUME Typed, Typed', Inv, [Next]_vars
    PROVE  Inv'
BY SpoiledStays, PlacedStep DEF Inv

\* Both together are an inductive invariant.
LEMMA Invariants == Spec => [](Typed /\ Inv)
<1>1. Typed /\ Inv /\ [Next]_vars => (Typed /\ Inv)'
  BY TypedStep, InvStep
<1> QED BY InitHolds, <1>1, PTL DEF Spec

\* The row, the nodes, the migration's row and the run keep their types, so
\* that no phase runs with fields of another and a container is only built for
\* a port of the pool.
THEOREM TypeCorrect == Spec => []TypeOK
<1>1. Typed => TypeOK
  BY DEF Typed, RunTyped, NodesTyped, DataTyped, TypeOK
<1> QED BY Invariants, <1>1, PTL

\* The game runs only on the node of the row, on the port of the row: cutover,
\* failed cutover and rollback move all three together.
THEOREM GameAtHome == Spec => []RunsAtHome
<1>1. Inv => RunsAtHome
  BY DEF Inv, Placed, GameInv, PortInv, RunsAtHome
<1> QED BY Invariants, <1>1, PTL

\* A run about to be recorded as failed or cancelled has left the server where
\* it started, with all its files; one that says everything is restored has left
\* nothing of its copy.
THEOREM UndoneAtHome == Spec => []UndoneMeansHome
<1>1. Inv => UndoneMeansHome
  BY DEF Inv, Placed, RecordInv, CopyInv, GoneInv, UndoneMeansHome
<1> QED BY Invariants, <1>1, PTL

-----------------------------------------------------------------------------
(* The refinement.                                                         *)

Complete == {n \in Nodes : disk[n] = "all"}

\* A node whose directory alone changes is dropped or becomes a copy.
LEMMA OneDiskMoves ==
    ASSUME NEW n \in Nodes, Placed, row.node \in Nodes, n # row.node,
           UNCHANGED <<row.node, spoiled>>,
           \A m \in Nodes : m # n => disk'[m] = disk[m]
    PROVE  Home!Next
<1>1. CASE disk'[n] = "all"
  <2>1. Complete' = Complete \cup {n} /\ row.node \in Complete
    BY <1>1 DEF Complete, Placed, CopyInv
  <2>2. Home!Copy(n)
    BY <2>1 DEF Home!Copy, Complete
  <2> QED BY <2>2 DEF Home!Next
<1>2. CASE disk'[n] # "all"
  <2>1. Complete' = Complete \ {n}
    BY <1>2 DEF Complete
  <2>2. Home!Drop(n)
    BY <2>1 DEF Home!Drop, Complete
  <2> QED BY <2>2 DEF Home!Next
<1> QED BY <1>1, <1>2

\* A start at home makes every other copy old.
LEMMA StartPlays ==
    ASSUME RunsOn(row.node), UNCHANGED <<row.node, spoiled>>
    PROVE  Home!Next
<1>1. Complete' = Complete \cap {row.node}
  BY DEF Complete, RunsOn
<1> QED BY <1>1 DEF Home!Next, Home!Play, Complete

\* The record goes where a complete copy is.
LEMMA RecordMoves ==
    ASSUME NEW n \in Nodes, disk[n] = "all", row'.node = n,
           UNCHANGED <<disk, spoiled>>
    PROVE  Home!Next
<1>1. n \in Complete /\ Complete' = Complete
  BY DEF Complete
<1>2. Home!Move(n)
  BY <1>1 DEF Home!Move, Complete
<1> QED BY <1>2 DEF Home!Next

\* What touches neither the record's node nor a directory stutters.
LEMMA Stutters ==
    ASSUME UNCHANGED <<row.node, disk, spoiled>>
    PROVE  UNCHANGED Home!homeVars
BY DEF Home!homeVars

\* Every step is one of ServerHome's, or none.
LEMMA StepImplements ==
    ASSUME Typed, Typed', Inv, Inv', [Next]_vars
    PROVE  [Home!Next]_(Home!homeVars)
<1> USE DEF Typed, RunTyped
<1>1. CASE spoiled'
  <2>1. row'.node \in Nodes
    BY DEF DataTyped, Rows
  <2> QED BY <1>1, <2>1 DEF Home!Next, Home!Forfeit
<1> SUFFICES ASSUME ~spoiled' PROVE [Home!Next]_(Home!homeVars)
  BY <1>1
<1>2. ~spoiled /\ Placed /\ Placed' /\ UNCHANGED spoiled
  BY SpoiledStays DEF Inv, DataTyped
<1>3. row.node \in Nodes /\ task.src \in Nodes /\ task.dst \in Nodes
  BY RunNodes DEF DataTyped, Rows
<1>4. CASE \/ EnterPhase \/ Checkpoint \/ TakeSafetyBackup \/ CompleteSnapshot
           \/ PrepareDestination \/ AwaitRestore \/ PlanPorts
           \/ VerifyDestination \/ StoreEnv \/ Succeed \/ Assess
           \/ EndRolledBack \/ Abandon \/ CheckCancel \/ WriteCancel
           \/ BuildDestination \/ \E n \in Nodes : AcceptMigration(n)
           \/ \E n \in Nodes, p \in Ports : TakePort(n, p)
           \/ UNCHANGED vars
  <2>1. UNCHANGED <<row, disk>>
    BY <1>4 DEF EnterPhase, Checkpoint, TakeSafetyBackup, CompleteSnapshot,
       PrepareDestination, AwaitRestore, PlanPorts, VerifyDestination,
       StoreEnv, Succeed, Assess, EndRolledBack, Abandon, CheckCancel,
       WriteCancel, BuildDestination, AcceptMigration, TakePort, vars, nodeVars,
       othersVars
  <2> QED BY <1>2, <2>1, Stutters
<1>5. CASE BeginStop \/ StopSource \/ HoldSource \/ PanelRestarts
  <2>1. row'.node = row.node /\ UNCHANGED disk
    BY <1>5 DEF BeginStop, StopSource, HoldSource, PanelRestarts, nodeVars,
       DataTyped, Rows
  <2> QED BY <1>2, <2>1, Stutters
<1>6. CASE StartStream \/ EndStream \/ StartRestore
  <2>1. UNCHANGED row /\ task.phase = "transferring" /\ Forward
    BY <1>6 DEF StartStream, EndStream, StartRestore, At, Forward, Undoing
  <2>2. task.dst # row.node
    BY <1>2, <2>1 DEF Placed, RunInv, RecordInv, Forward, StepsFit, Idle,
       Undoing
  <2>3. \A m \in Nodes : m # task.dst => disk'[m] = disk[m]
    <3>1. \/ UNCHANGED disk
          \/ \E c \in Contents : disk' = [disk EXCEPT ![task.dst] = c]
      <4>1. "some" \in Contents /\ SourceNow \in Contents
        BY <1>3 DEF Contents, SourceNow, NodesTyped
      <4> QED BY <1>6, <4>1, Zenon DEF StartStream, EndStream, StartRestore
    <3> QED BY <3>1 DEF NodesTyped
  <2> QED BY <1>2, <1>3, <2>1, <2>2, <2>3, OneDiskMoves
<1>7. CASE CutOver
  <2>1. disk[task.dst] = "all"
    BY <1>2, <1>7 DEF CutOver, Placed, CopyInv, HasCopy, AfterTransfer,
       BeforeCutOver, Forward, Undoing, At
  <2>2. UNCHANGED disk /\ (UNCHANGED row \/ row'.node = task.dst)
    BY <1>7 DEF CutOver, nodeVars
  <2> QED BY <1>2, <1>3, <2>1, <2>2, RecordMoves, Stutters
<1>8. CASE MoveRecordBack
  <2>1. /\ UNCHANGED disk
        /\ \/ row'.node = row.node
           \/ row'.node = task.src /\ disk[task.src] = "all"
    BY <1>2, <1>8 DEF MoveRecordBack, nodeVars, DataTyped, Rows
  <2> QED BY <1>2, <1>3, <2>1, RecordMoves, Stutters
<1>9. CASE CleanUpSource
  <2>1. row.node = task.dst /\ task.dst # task.src /\ UNCHANGED row
    BY <1>2, <1>9 DEF CleanUpSource, Placed, RunInv, RecordInv, At, Forward,
       Undoing, Idle
  <2>2. UNCHANGED nodeVars \/ RemovedFrom(task.src)
    BY <1>3, <1>9, DeletedMoves DEF CleanUpSource
  <2>3. CASE RemovedFrom(task.src)
    <3>1. \A m \in Nodes : m # task.src => disk'[m] = disk[m]
      BY <2>3 DEF RemovedFrom
    <3> QED BY <1>2, <1>3, <2>1, <3>1, OneDiskMoves
  <2>4. CASE UNCHANGED nodeVars
    BY <1>2, <2>1, <2>4, Stutters DEF nodeVars
  <2> QED BY <2>2, <2>3, <2>4
<1>10. CASE RemoveCopy
  <2>1. row.node = task.src /\ task.dst # task.src /\ UNCHANGED row
    BY <1>2, <1>10 DEF RemoveCopy, Placed, RunInv, RecordInv, Idle
  <2>2. UNCHANGED nodeVars \/ RemovedFrom(task.dst)
    BY <1>3, <1>10, DeletedMoves DEF RemoveCopy
  <2>3. CASE RemovedFrom(task.dst)
    <3>1. \A m \in Nodes : m # task.dst => disk'[m] = disk[m]
      BY <2>3 DEF RemovedFrom
    <3> QED BY <1>2, <1>3, <2>1, <3>1, OneDiskMoves
  <2>4. CASE UNCHANGED nodeVars
    BY <1>2, <2>1, <2>4, Stutters DEF nodeVars
  <2> QED BY <2>2, <2>3, <2>4
<1>11. CASE StartMoved \/ RestartSource \/ Power
  <2>1. row'.node = row.node
    BY <1>11 DEF StartMoved, RestartSource, Power, DataTyped, Rows
  <2>2. UNCHANGED disk \/ StartedOn(row.node)
    BY <1>2, <1>11 DEF StartMoved, RestartSource, Power, nodeVars, Placed,
       RecordInv, At, Forward, Undoing
  <2>3. CASE StartedOn(row.node)
    BY <1>2, <1>3, <2>1, <2>3, StartedMoves, StartPlays
  <2> QED BY <1>2, <2>1, <2>2, <2>3, Stutters
<1>12. ASSUME NEW n \in Nodes, JobEnds(n) PROVE [Home!Next]_(Home!homeVars)
  <2>1. UNCHANGED row /\ job[n].state = "running"
    BY <1>12 DEF JobEnds
  <2>2. n # row.node
    BY <1>2, <2>1 DEF Placed, JobInv
  <2>3. \A m \in Nodes : m # n => disk'[m] = disk[m]
    BY <1>12 DEF JobEnds, NodesTyped
  <2> QED BY <1>2, <1>3, <2>1, <2>2, <2>3, OneDiskMoves
<1> QED
  BY <1>4, <1>5, <1>6, <1>7, <1>8, <1>9, <1>10, <1>11, <1>12
  DEF Next, RunStep, RollbackStep

\* "There is no point in the run at which the server's files exist in exactly
\* one place and the panel is between two records of where that is": whatever
\* fails, is cancelled or dies, the server moves only to a node that has all its
\* files and is deleted only where it is not.
THEOREM MigrationImplementsServerHome == Spec => ImplementsServerHome
<1>1. Init => Home!Init
  <2> SUFFICES ASSUME Init PROVE Home!Init
    OBVIOUS
  <2>1. PICK n \in Nodes : /\ row.node = n
                           /\ disk = [m \in Nodes |-> IF m = n THEN "all" ELSE "none"]
    BY DEF Init
  <2>2. Complete = {n}
    BY <2>1 DEF Complete
  <2>3. spoiled = FALSE
    BY DEF Init
  <2> QED BY <2>1, <2>2, <2>3 DEF Home!Init, Complete
<1>2. (Typed /\ Inv) /\ (Typed /\ Inv)' /\ [Next]_vars
         => [Home!Next]_(Home!homeVars)
  BY StepImplements
<1> QED
  BY <1>1, <1>2, Invariants, PTL DEF Spec, ImplementsServerHome, Home!Spec

\* The theorems about ServerHome, under the same mapping as the refinement.
HomeProofs ==
    INSTANCE ServerHomeProofs WITH
        home <- row.node,
        current <- {n \in Nodes : disk[n] = "all"},
        void <- spoiled

\* What ServerHome promises is so of a migration: after every step the node the
\* row names has all the files, or one of the four steps was taken.
THEOREM FilesStayAtHome == Spec => []Home!Safe
<1>1. ImplementsServerHome => HomeProofs!Spec
  BY PTL DEF ImplementsServerHome, Home!Spec, HomeProofs!Spec, Home!Init,
     HomeProofs!Init, Home!Next, HomeProofs!Next, Home!homeVars,
     HomeProofs!homeVars, Home!Play, HomeProofs!Play, Home!Forfeit,
     HomeProofs!Forfeit, Home!Copy, HomeProofs!Copy, Home!Move, HomeProofs!Move,
     Home!Drop, HomeProofs!Drop
<1>2. HomeProofs!Safe => Home!Safe
  BY DEF HomeProofs!Safe, Home!Safe
<1> QED
  BY <1>1, <1>2, MigrationImplementsServerHome, HomeProofs!FilesAtHome, PTL

-----------------------------------------------------------------------------
(* A server that is held, and the migration that holds it.                 *)
(*                                                                         *)
(* None of this needs the promise: it holds after it is void as well.      *)

\* From the cutover on, and at the end of a rollback, the row is not held.
Released ==
    \/ task.step \in {"env", "start", "close", "end"}
    \/ task.phase = "cleanup" /\ task.step \in {"enter", "work"}

\* A run that goes on has its migration open, and only such a run, or one that
\* was abandoned, holds the server.
HeldByMigration ==
    /\ task.prev # "migrating"
    /\ ~Idle => ActiveMigration
    /\ row.status = "migrating" => ActiveMigration /\ ~Released

\* Most steps neither hold the server nor end the migration.
LEMMA HoldKept ==
    ASSUME HeldByMigration, UNCHANGED task.prev, Idle => Idle',
           ActiveMigration => ActiveMigration',
           row'.status = "migrating" =>
               row.status = "migrating" /\ (Released' => Released)
    PROVE  HeldByMigration'
BY DEF HeldByMigration

\* A step of the run.
LEMMA RunHolds ==
    ASSUME Typed, HeldByMigration, RunStep
    PROVE  HeldByMigration'
<1> USE DEF Typed, RunTyped
<1>1. row \in Rows /\ mig \in Migrations /\ task \in Tasks
  BY DEF DataTyped
<1>2. ~Idle
  BY DEF RunStep, EnterPhase, Checkpoint, TakeSafetyBackup, BeginStop,
     StopSource, HoldSource, CompleteSnapshot, PrepareDestination, StartStream,
     EndStream, StartRestore, AwaitRestore, PlanPorts, BuildDestination,
     VerifyDestination, CutOver, StoreEnv, CleanUpSource, StartMoved, Succeed,
     At, Idle
<1>3. CASE EnterPhase
  <2>1. UNCHANGED <<row, task.prev, task.phase>> /\ task.step = "enter"
        /\ task'.step \in {"work", "assess"}
    BY <1>1, <1>3, GotoMoves, UnwindMoves DEF EnterPhase, nodeVars, Steps, Fixed
  <2>2. ActiveMigration => ActiveMigration'
    BY <1>1, <1>3 DEF EnterPhase, ActiveMigration, Migrations
  <2> QED BY <1>2, <2>1, <2>2, HoldKept DEF Released
<1>4. CASE Checkpoint
  <2>1. task.phase \in {"backup", "stopping", "transferring",
                        "allocating_ports", "building"}
    BY <1>4 DEF Checkpoint, StepsFit
  <2>2. Following[task.phase] \in Phases \ {"cleanup"}
    BY <2>1 DEF Following, Phases
  <2>3. UNCHANGED <<row, mig, task.prev>>
        /\ \/ task'.step = "assess"
           \/ task'.step = "enter" /\ task'.phase # "cleanup"
    <3>1. CASE Unwound
      BY <1>1, <1>4, <3>1, UnwindMoves DEF Checkpoint, Fixed
    <3>2. CASE Enter(Following[task.phase])
      <4>1. /\ task'.step = "enter" /\ task'.phase = Following[task.phase]
            /\ UNCHANGED Fixed
        BY <1>1, <2>2, <3>2, EnterMoves
      <4> QED BY <1>4, <2>2, <4>1 DEF Checkpoint, Fixed
    <3> QED BY <1>4, <3>1, <3>2 DEF Checkpoint
  <2> QED BY <1>2, <2>3, HoldKept DEF Released, ActiveMigration
<1>5. CASE \/ TakeSafetyBackup \/ CompleteSnapshot \/ PrepareDestination
           \/ StartStream \/ EndStream \/ StartRestore \/ AwaitRestore
           \/ PlanPorts \/ BuildDestination \/ VerifyDestination
  <2>1. UNCHANGED <<row, mig>>
    BY <1>5 DEF TakeSafetyBackup, CompleteSnapshot, PrepareDestination,
       StartStream, EndStream, StartRestore, AwaitRestore, PlanPorts,
       BuildDestination, VerifyDestination
  <2>2. UNCHANGED task.prev /\ ~Released'
    <3>1. "cutover" \in Phases /\ {"check", "prepare", "fetch", "await"} \subseteq Steps
      BY DEF Phases, Steps
    <3>2. CASE TakeSafetyBackup \/ CompleteSnapshot \/ PrepareDestination
      BY <1>1, <3>1, <3>2, GotoMoves, UnwindMoves, RunLearns DEF TakeSafetyBackup,
         CompleteSnapshot, PrepareDestination, At, Released, Fixed
    <3>3. CASE StartStream \/ EndStream \/ StartRestore \/ AwaitRestore
      <4>1. task.phase = "transferring"
        BY <3>3 DEF StartStream, EndStream, StartRestore, AwaitRestore, At
      <4>2. /\ UNCHANGED <<task.prev, task.phase>>
            /\ task'.step \in {"await", "check", "assess"}
        <5>1. CASE StartStream \/ EndStream
          BY <1>1, <3>1, <5>1, GotoMoves, UnwindMoves DEF StartStream, EndStream,
             Fixed
        <5>2. CASE StartRestore
          BY <1>1, <3>1, <5>2, UnwindMoves DEF StartRestore, Tasks, Fixed
        <5>3. CASE AwaitRestore
          BY <1>1, <3>1, <5>3, UnwindMoves DEF AwaitRestore, Tasks, Fixed
        <5> QED BY <3>3, <5>1, <5>2, <5>3
      <4> QED BY <4>1, <4>2 DEF Released
    <3>4. CASE PlanPorts \/ BuildDestination \/ VerifyDestination
      <4>1. CASE Unwind
        BY <1>1, <4>1, UnwindMoves DEF Released, Fixed
      <4>2. CASE PlanPorts /\ ~Unwind
        BY <1>1, <3>1, <4>2 DEF PlanPorts, At, Released, Tasks
      <4>3. CASE BuildDestination /\ ~Unwind
        BY <1>1, <3>1, <4>3, RunLearns DEF BuildDestination, At, Released, Fixed
      <4>4. CASE VerifyDestination /\ ~Unwind
        BY <1>1, <3>1, <4>4, EnterMoves DEF VerifyDestination, Released, Fixed
      <4> QED BY <3>4, <4>1, <4>2, <4>3, <4>4
    <3> QED BY <1>5, <3>2, <3>3, <3>4
  <2> QED BY <1>2, <2>1, <2>2, HoldKept DEF ActiveMigration
<1>6. CASE BeginStop \/ StopSource
  <2>1. UNCHANGED <<mig, task.prev, task.phase>>
        /\ task'.step \in {"stop", "hold", "assess"}
    BY <1>1, <1>6, GotoMoves, UnwindMoves DEF BeginStop, StopSource, Steps, Fixed
  <2>2. row'.status = "migrating" => row.status = "migrating"
    BY <1>1, <1>6 DEF BeginStop, StopSource, HeldByMigration, Rows
  <2> QED BY <1>2, <2>1, <2>2, HoldKept DEF Released, ActiveMigration
<1>7. CASE HoldSource
  <2>1. UNCHANGED <<mig, task.prev, task.phase>> /\ task'.step = "check"
    BY <1>1, <1>7, GotoMoves DEF HoldSource, Steps, Fixed
  <2> QED BY <1>2, <2>1 DEF HeldByMigration, Released, ActiveMigration, Idle
<1>8. CASE CutOver
  <2>1. UNCHANGED <<mig, task.prev, task.phase>>
        /\ \/ UNCHANGED row /\ task'.step = "assess"
           \/ row'.status = "stopped"
    BY <1>1, <1>8, GotoMoves, UnwindMoves DEF CutOver, Steps, Fixed
  <2> QED BY <1>2, <2>1, HoldKept DEF Released, ActiveMigration
<1>9. CASE StoreEnv \/ CleanUpSource
  <2>1. UNCHANGED <<row, mig, task.prev>> /\ Released
    BY <1>1, <1>9, GotoMoves, UnwindMoves, RunLearns DEF StoreEnv, CleanUpSource,
       Steps, Fixed, At, Released
  <2> QED BY <1>2, <2>1, HoldKept DEF ActiveMigration
<1>10. CASE StartMoved
  <2>1. UNCHANGED <<mig, task.prev>> /\ Released
        /\ (UNCHANGED row \/ row'.status # "migrating")
    BY <1>1, <1>10, GotoMoves DEF StartMoved, Steps, Fixed, At, Released, Rows
  <2> QED BY <1>2, <2>1, HoldKept DEF ActiveMigration
<1>11. CASE Succeed
  <2>1. UNCHANGED <<row, task.prev>> /\ row.status # "migrating"
        /\ (task'.step = "idle" \/ UNCHANGED mig)
    BY <1>1, <1>11, GotoMoves, UnwindMoves DEF Succeed, Steps, Fixed, At,
       HeldByMigration, Released
  <2> QED BY <1>2, <2>1 DEF HeldByMigration, ActiveMigration, Idle
<1> QED
  BY <1>3, <1>4, <1>5, <1>6, <1>7, <1>8, <1>9, <1>10, <1>11 DEF RunStep

\* A step of the rollback.
LEMMA RollbackHolds ==
    ASSUME Typed, HeldByMigration, RollbackStep
    PROVE  HeldByMigration'
<1> USE DEF Typed, RunTyped
<1>1. row \in Rows /\ mig \in Migrations /\ task \in Tasks
  BY DEF DataTyped
<1>2. ~Idle
  BY DEF RollbackStep, Assess, MoveRecordBack, RemoveCopy, RestartSource,
     EndRolledBack, Abandon, Idle
<1>3. CASE Assess
  <2>1. UNCHANGED <<row, task.prev>> /\ (ActiveMigration => ActiveMigration')
    <3>1. UNCHANGED <<row, task.prev>>
      BY <1>1, <1>3, GotoMoves, RunLearns DEF Assess, Steps, Fixed
    <3>2. mig'.status = mig.status
      BY <1>1, <1>3 DEF Assess, Migrations
    <3> QED BY <3>1, <3>2 DEF ActiveMigration
  <2>2. task'.step = "record" \/ row.status = task.prev
    BY <1>1, <1>3, RunLearns DEF Assess, Steps
  <2>3. ~Idle' /\ (row.status = "migrating" => ~Released')
    BY <1>1, <1>3, <2>2, GotoMoves, RunLearns DEF Assess, Steps, HeldByMigration,
       Released, Idle
  <2> QED BY <1>2, <2>1, <2>3 DEF HeldByMigration
<1>4. CASE MoveRecordBack \/ RemoveCopy
  <2>1. UNCHANGED <<mig, task.prev>> /\ task'.step \in {"remove", "restart"}
    BY <1>1, <1>4, GotoMoves, RunLearns DEF MoveRecordBack, RemoveCopy, Steps, Fixed
  <2>2. row'.status = row.status
    BY <1>1, <1>4 DEF MoveRecordBack, RemoveCopy, Rows
  <2> QED BY <1>2, <2>1, <2>2, HoldKept DEF Released, ActiveMigration
<1>5. CASE RestartSource
  <2>1. UNCHANGED <<mig, task.prev>>
    BY <1>1, <1>5, GotoMoves, RunLearns DEF RestartSource, Steps, Fixed
  <2>2. row'.status # "migrating"
    BY <1>1, <1>5 DEF RestartSource, HeldByMigration, Rows
  <2> QED BY <1>2, <2>1, <2>2, HoldKept DEF ActiveMigration
<1>6. CASE EndRolledBack
  <2>1. UNCHANGED <<row, task.prev>> /\ task'.step = "idle" /\ Released
    BY <1>1, <1>6, GotoMoves DEF EndRolledBack, Steps, Fixed, Released
  <2> QED BY <2>1 DEF HeldByMigration, Idle
<1>7. CASE Abandon
  <2>1. UNCHANGED <<row, mig, task.prev>> /\ task'.step = "idle"
    BY <1>1, <1>7, GotoMoves DEF Abandon, Steps, Fixed
  <2> QED BY <1>2, <2>1, HoldKept DEF Released, ActiveMigration
<1> QED
  BY <1>3, <1>4, <1>5, <1>6, <1>7 DEF RollbackStep

\* A server in `migrating` has a migration that is not ended, which the next
\* boot finds.
THEOREM HoldsHaveMigrations == Spec => []HeldHasMigration
<1>1. Init => HeldByMigration
  BY DEF Init, HeldByMigration, Idle
<1>2. Typed /\ HeldByMigration /\ [Next]_vars => HeldByMigration'
  <2> SUFFICES ASSUME Typed, HeldByMigration, [Next]_vars
               PROVE  HeldByMigration'
    OBVIOUS
  <2>1. row \in Rows /\ mig \in Migrations /\ task \in Tasks
    BY DEF Typed, RunTyped, DataTyped
  <2>2. CASE RunStep
    BY <2>2, RunHolds
  <2>3. CASE RollbackStep
    BY <2>3, RollbackHolds
  <2>4. CASE CheckCancel \/ WriteCancel
    <3>1. UNCHANGED <<row, task>> /\ (ActiveMigration => ActiveMigration')
      BY <2>1, <2>4 DEF CheckCancel, WriteCancel, ActiveMigration, Migrations
    <3> QED BY <3>1, HoldKept DEF Idle, Released
  <2>5. CASE Power
    <3>1. UNCHANGED <<mig, task>> /\ row'.status # "migrating"
      BY <2>1, <2>5 DEF Power, Rows
    <3> QED BY <3>1, HoldKept DEF Idle, ActiveMigration
  <2>6. CASE PanelRestarts
    <3>1. UNCHANGED task.prev /\ task'.step = "idle"
      BY <2>1, <2>6, GotoMoves DEF PanelRestarts, Steps, Fixed
    <3>2. row'.status # "migrating"
      BY <2>1, <2>6 DEF PanelRestarts, HeldByMigration, Rows
    <3> QED BY <3>1, <3>2 DEF HeldByMigration, Idle
  <2>7. ASSUME NEW n \in Nodes, AcceptMigration(n) PROVE HeldByMigration'
    <3>1. UNCHANGED row /\ row.status \in {"running", "stopped", "error"}
          /\ task'.prev = row.status
      BY <2>7 DEF AcceptMigration
    <3>2. mig'.status = "pending"
      BY <2>7 DEF AcceptMigration
    <3> QED BY <3>1, <3>2 DEF HeldByMigration, ActiveMigration
  <2>8. CASE \/ \E n \in Nodes : JobEnds(n)
             \/ \E n \in Nodes, p \in Ports : TakePort(n, p)
             \/ UNCHANGED vars
    <3>1. UNCHANGED <<row, mig, task>>
      BY <2>8 DEF JobEnds, TakePort, vars
    <3> QED BY <3>1, HoldKept DEF Idle, Released, ActiveMigration
  <2> QED BY <2>2, <2>3, <2>4, <2>5, <2>6, <2>7, <2>8 DEF Next
<1>3. HeldByMigration => HeldHasMigration
  BY DEF HeldByMigration, HeldHasMigration
<1> QED BY <1>1, <1>2, <1>3, Invariants, PTL DEF Spec
=============================================================================

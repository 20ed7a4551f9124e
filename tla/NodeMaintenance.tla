--------------------------- MODULE NodeMaintenance ---------------------------
(***************************************************************************)
(* Draining and activating one node: the panel's intent (nodes.is_active), *)
(* its per-node queue (services/nodeMaintenanceControl.ts) and what that   *)
(* queue runs (services/nodeMaintenance.ts), the agent's execution latch   *)
(* (maintenanceState.ts), its durable marker and serialised drain          *)
(* (nodeMaintenance.ts), and the work that may be launching meanwhile.     *)
(*                                                                         *)
(* A generation of the latch is not counted: a piece of work is `current`  *)
(* until the latch closes after it was accepted, which is all the code     *)
(* compares generations for.                                               *)
(***************************************************************************)
EXTENDS Naturals, Sequences, FiniteSets

CONSTANTS
    Works,        \* work the panel may send: each runs one container
    MaxToggles,   \* bound: drains and activations an administrator asks for
    MaxCalls,     \* bound: set() calls in the agent at once
    MaxFaults     \* bound: crashes of the panel and of the agent

ASSUME MaintenanceAssumption ==
    /\ IsFiniteSet(Works)
    /\ MaxToggles \in Nat /\ MaxCalls \in Nat
    /\ MaxFaults \in Nat

VARIABLES
    active,    \* nodes.is_active
    queue,     \* the node's promise chain in the panel, the head is running
    pc,        \* how far the head has got
    enabled,   \* the agent's latch
    marker,    \* .citadel-maintenance on the agent's disk
    calls,     \* the agent's chain of set(enabled) calls, the head is running
    drain,     \* how far a set(true) at the head has got
    booting,   \* the agent serves but has not reached its boot-time drain
    work,      \* [Works -> where the work is, accepted since the last close?]
    running,   \* containers that run
    settled,   \* history: a set(true) finished, no set(false) since
    row,       \* [Works -> status the panel keeps]
    watched,   \* works with a live start watch
    toggles, faults

panelVars == <<active, queue, pc>>
agentVars == <<enabled, marker, calls, drain, booting, settled>>
rowVars == <<row, watched>>
bounds == <<toggles, faults>>
vars == <<panelVars, agentVars, work, running, rowVars, bounds>>

-----------------------------------------------------------------------------
Operations == {"activate", "drain", "reconcile"}

\* A call of set(on): the boot code's own or the panel's, which is `awaited`
\* until the panel stops waiting for the answer.
Calls == [on: BOOLEAN, boot: BOOLEAN, awaited: BOOLEAN]

\* A drain settles the launches, then stops the containers it listed; `left`
\* are those still to stop, `failed` says one could not be.
DrainStates == [phase: {"off", "settle", "stop"}, left: SUBSET Works,
                failed: BOOLEAN]
NoDrain == [phase |-> "off", left |-> {}, failed |-> FALSE]

WorkPCs == {"idle", "sent", "pull", "starting", "check", "undo", "done"}
WorkStates == [pc: WorkPCs, current: BOOLEAN, waiting: BOOLEAN]
NoWork == [pc |-> "idle", current |-> FALSE, waiting |-> FALSE]

TypeOK ==
    /\ active \in BOOLEAN
    /\ queue \in Seq(Operations)
    /\ pc \in {"next", "ask", "enter", "post", "wait", "states", "leave",
               "waitLeave", "advertise"}
    /\ enabled \in BOOLEAN
    /\ marker \in BOOLEAN
    /\ calls \in Seq(Calls)
    /\ drain \in DrainStates
    /\ booting \in BOOLEAN
    /\ work \in [Works -> WorkStates]
    /\ running \subseteq Works
    /\ settled \in BOOLEAN
    /\ row \in [Works -> {"stopped", "starting", "running", "error"}]
    /\ watched \subseteq Works
    /\ toggles \in 0..MaxToggles
    /\ faults \in 0..MaxFaults

-----------------------------------------------------------------------------
(* The panel: NodeMaintenanceControl and the operations it is given.       *)

\* control.run: the operation joins the node's queue.
Toggle(op) ==
    /\ toggles < MaxToggles
    /\ op \in {"activate", "drain"}
    /\ queue' = Append(queue, op)
    /\ toggles' = toggles + 1
    /\ UNCHANGED <<active, pc, agentVars, work, running, rowVars, faults>>

\* The sweeper reconciles every node, one pass at a time.
SweepReconciles ==
    /\ \A i \in DOMAIN queue : queue[i] # "reconcile"
    /\ queue' = Append(queue, "reconcile")
    /\ UNCHANGED <<active, pc, agentVars, work, running, rowVars, bounds>>

\* The head of the queue is over, in success or in error.
Ends == queue' = Tail(queue) /\ pc' = "next"

\* Mutation of Begin: a reconcile acts on the intent the sweep was queued with.
BeginStale ==
    /\ pc = "next" /\ queue # <<>>
    /\ active' = (active /\ Head(queue) # "drain")
    /\ pc' = IF Head(queue) = "activate" THEN "leave" ELSE "enter"
    /\ UNCHANGED <<queue, agentVars, work, running, rowVars, bounds>>

\* Mutation of Begin: a reconcile only repairs active nodes.
BeginForgives ==
    /\ pc = "next" /\ queue # <<>>
    /\ active' = (active /\ Head(queue) # "drain")
    /\ IF Head(queue) = "reconcile" /\ ~active
       THEN Ends
       ELSE /\ pc' = CASE Head(queue) = "activate"  -> "leave"
                       [] Head(queue) = "drain"     -> "enter"
                       [] Head(queue) = "reconcile" -> "ask"
            /\ UNCHANGED queue
    /\ UNCHANGED <<agentVars, work, running, rowVars, bounds>>

\* The head starts: an activation with the agent, a drain with the intent, a
\* reconcile with a fresh read of the intent.
Begin ==
    /\ pc = "next" /\ queue # <<>>
    /\ active' = (active /\ Head(queue) # "drain")
    /\ pc' = CASE Head(queue) = "activate"  -> "leave"
               [] Head(queue) = "drain"     -> "enter"
               [] Head(queue) = "reconcile" -> IF active THEN "ask" ELSE "enter"
    /\ UNCHANGED <<queue, agentVars, work, running, rowVars, bounds>>

\* Mutation of Ask: an active node is taken to be open.
AskNothing ==
    /\ pc = "ask"
    /\ Ends
    /\ UNCHANGED <<active, agentVars, work, running, rowVars, bounds>>

\* isMaintained: an active node whose agent is latched is let go.
Ask ==
    /\ pc = "ask"
    /\ IF enabled THEN pc' = "leave" /\ UNCHANGED queue ELSE Ends
    /\ UNCHANGED <<active, agentVars, work, running, rowVars, bounds>>

\* enterNodeMaintenance: the agent answers the probe, every start watch of the
\* node is called off.
ProbeAndCancel ==
    /\ pc = "enter"
    /\ watched' = {}
    /\ pc' = "post"
    /\ UNCHANGED <<active, queue, agentVars, work, running, row, bounds>>

\* POST /v1/maintenance, in either direction.
Post ==
    /\ \/ pc = "post" /\ pc' = "wait"
       \/ pc = "leave" /\ pc' = "waitLeave"
    /\ Len(calls) < MaxCalls
    /\ calls' = Append(calls, [on |-> pc = "post", boot |-> FALSE,
                             awaited |-> TRUE])
    /\ UNCHANGED <<active, queue, enabled, marker, drain, booting, settled,
                   work, running, rowVars, bounds>>

\* A request to the agent that fails ends the operation; one that was waiting
\* for set() has been timed out, and the agent goes on with it.
Forget(cs) == [i \in DOMAIN cs |-> [cs[i] EXCEPT !.awaited = FALSE]]
NodeErrs ==
    /\ pc \notin {"next", "advertise"}
    /\ Ends
    /\ calls' = Forget(calls)
    /\ UNCHANGED <<active, enabled, marker, drain, booting, settled, work,
                   running, rowVars, bounds>>

\* Mutation of RecordStopped: the container's state is recorded as it is.
RecordState ==
    /\ pc = "states"
    /\ row' = [w \in Works |->
                IF w \notin running /\ row[w] \in {"running", "starting"}
                THEN "exited" ELSE row[w]]
    /\ Ends
    /\ UNCHANGED <<active, agentVars, work, running, watched, bounds>>

\* The observed states: what is down is recorded as stopped.
RecordStopped ==
    /\ pc = "states"
    /\ row' = [w \in Works |->
                IF w \notin running /\ row[w] \in {"running", "starting"}
                THEN "stopped" ELSE row[w]]
    /\ Ends
    /\ UNCHANGED <<active, agentVars, work, running, watched, bounds>>

\* Activation is advertised only after the agent acknowledged it.
Advertise ==
    /\ pc = "advertise"
    /\ active' = TRUE
    /\ Ends
    /\ UNCHANGED <<agentVars, work, running, rowVars, bounds>>

-----------------------------------------------------------------------------
(* The agent: NodeMaintenance.set, one call at a time.                     *)

\* The call at the head is answered.
Answers(ok) ==
    /\ calls' = Tail(calls)
    /\ IF ~Head(calls).awaited THEN UNCHANGED <<queue, pc>>
       ELSE IF ok /\ Head(calls).on THEN pc' = "states" /\ UNCHANGED queue
       ELSE IF ok /\ Head(queue) = "activate"
            THEN pc' = "advertise" /\ UNCHANGED queue
       ELSE Ends

\* set(false): the marker goes, then the latch opens.
Leave ==
    /\ calls # <<>> /\ ~Head(calls).on
    /\ enabled' = FALSE /\ marker' = FALSE /\ settled' = FALSE
    /\ Answers(TRUE)
    /\ UNCHANGED <<active, drain, booting, work, running, rowVars, bounds>>

\* set(true): the latch closes on all work accepted before, and the marker is
\* on disk before anything is stopped.
Enter ==
    /\ calls # <<>> /\ Head(calls).on /\ drain.phase = "off"
    /\ enabled' = TRUE /\ marker' = TRUE
    /\ work' = IF enabled THEN work
               ELSE [w \in Works |-> [work[w] EXCEPT !.current = FALSE]]
    /\ drain' = [NoDrain EXCEPT !.phase = "settle"]
    /\ UNCHANGED <<panelVars, calls, booting, settled, running, rowVars, bounds>>

Launching == {w \in Works : work[w].pc \in {"starting", "check", "undo"}}

\* Mutation of Settle: the drain does not wait for the launches in flight.
SettleAtOnce ==
    /\ drain.phase = "settle"
    /\ drain' = [drain EXCEPT !.phase = "stop", !.left = running]
    /\ UNCHANGED <<panelVars, enabled, marker, calls, booting, settled, work,
                   running, rowVars, bounds>>

\* settleLaunches, then the list of containers that run.
Settle ==
    /\ drain.phase = "settle"
    /\ Launching = {}
    /\ drain' = [drain EXCEPT !.phase = "stop", !.left = running]
    /\ UNCHANGED <<panelVars, enabled, marker, calls, booting, settled, work,
                   running, rowVars, bounds>>

\* One of the listed containers is stopped, or cannot be.
StopOne(w, ok) ==
    /\ drain.phase = "stop" /\ w \in drain.left
    /\ drain' = [drain EXCEPT !.left = @ \ {w}, !.failed = @ \/ ~ok]
    /\ running' = IF ok THEN running \ {w} ELSE running
    /\ UNCHANGED <<panelVars, enabled, marker, calls, booting, settled, work,
                   rowVars, bounds>>

\* The call answers; docker that could not be listed fails it too.
Finish ==
    /\ drain.phase = "stop" /\ drain.left = {}
    /\ drain' = NoDrain
    /\ settled' = (settled \/ ~drain.failed)
    /\ Answers(~drain.failed)
    /\ UNCHANGED <<active, enabled, marker, booting, work, running, rowVars,
                   bounds>>

ListFails ==
    /\ drain.phase = "settle" /\ Launching = {}
    /\ drain' = NoDrain
    /\ Answers(FALSE)
    /\ UNCHANGED <<active, enabled, marker, booting, settled, work, running,
                   rowVars, bounds>>

\* The agent accepts requests before its boot code gets here.  A call with
\* nothing ahead of it has started before any other code runs.
BootDrain ==
    /\ booting
    /\ calls = <<>> \/ drain.phase # "off"
    /\ booting' = FALSE
    /\ calls' = IF ~enabled THEN calls
                ELSE Append(calls, [on |-> TRUE, boot |-> TRUE,
                                    awaited |-> FALSE])
    /\ UNCHANGED <<panelVars, enabled, marker, drain, settled, work, running,
                   rowVars, bounds>>

-----------------------------------------------------------------------------
(* Work: a request of the panel that ends in one container launch.         *)

Moves(w, to) == work' = [work EXCEPT ![w].pc = to]

\* assertNodeActive, the transitional status, and the request.
Send(w) ==
    /\ active
    /\ work[w].pc = "idle" /\ w \notin running
    /\ work' = [work EXCEPT ![w] = [NoWork EXCEPT !.pc = "sent",
                                                  !.waiting = TRUE]]
    /\ row' = [row EXCEPT ![w] = "starting"]
    /\ UNCHANGED <<panelVars, agentVars, running, watched, bounds>>

\* runWork: refused under the latch, else tied to the current generation.
Accept(w) ==
    /\ work[w].pc = "sent" /\ ~enabled
    /\ work' = [work EXCEPT ![w] = [@ EXCEPT !.pc = "pull", !.current = TRUE]]
    /\ UNCHANGED <<panelVars, agentVars, running, rowVars, bounds>>

\* The request fails: refused at the door, at the launch, or after it.
Refuse(w) ==
    /\ \/ work[w].pc = "sent" /\ enabled
       \/ work[w].pc = "pull" /\ (enabled \/ ~work[w].current)
    /\ work' = [work EXCEPT ![w] = NoWork]
    /\ row' = IF work[w].waiting THEN [row EXCEPT ![w] = "error"] ELSE row
    /\ UNCHANGED <<panelVars, agentVars, running, watched, bounds>>

\* launch: the latch is looked at right before Docker is asked.
Launch(w) ==
    /\ work[w].pc = "pull" /\ ~enabled /\ work[w].current
    /\ Moves(w, "starting")
    /\ UNCHANGED <<panelVars, agentVars, running, rowVars, bounds>>

DockerStarts(w) ==
    /\ work[w].pc = "starting"
    /\ running' = running \cup {w}
    /\ Moves(w, "check")
    /\ UNCHANGED <<panelVars, agentVars, rowVars, bounds>>

\* ... and again after Docker answered.
CheckLaunch(w) ==
    /\ work[w].pc = "check"
    /\ Moves(w, IF enabled \/ ~work[w].current THEN "undo" ELSE "done")
    /\ UNCHANGED <<panelVars, agentVars, running, rowVars, bounds>>

\* A launch that raced the latch stops its own container, if it can.
UndoLaunch(w, ok) ==
    /\ work[w].pc = "undo"
    /\ running' = IF ok THEN running \ {w} ELSE running
    /\ work' = [work EXCEPT ![w] = NoWork]
    /\ row' = IF work[w].waiting THEN [row EXCEPT ![w] = "error"] ELSE row
    /\ UNCHANGED <<panelVars, agentVars, watched, bounds>>

\* The panel hears of it, records it and watches the start.
Reply(w) ==
    /\ work[w].pc = "done"
    /\ work' = [work EXCEPT ![w] = NoWork]
    /\ IF work[w].waiting
       THEN row' = [row EXCEPT ![w] = "running"] /\ watched' = watched \cup {w}
       ELSE UNCHANGED rowVars
    /\ UNCHANGED <<panelVars, agentVars, running, bounds>>

\* A watch takes a container that is down for a failed start, or ends.
WatchFails(w) ==
    /\ w \in watched /\ w \notin running
    /\ row' = [row EXCEPT ![w] = "error"]
    /\ watched' = watched \ {w}
    /\ UNCHANGED <<panelVars, agentVars, work, running, bounds>>

WatchEnds(w) ==
    /\ w \in watched
    /\ watched' = watched \ {w}
    /\ UNCHANGED <<panelVars, agentVars, work, running, row, bounds>>

\* The container ends by itself or by a request that needs no latch.
Exits(w) ==
    /\ w \in running
    /\ running' = running \ {w}
    /\ UNCHANGED <<panelVars, agentVars, work, rowVars, bounds>>

-----------------------------------------------------------------------------
\* The panel dies with its queue, its watches and everyone who was waiting.
PanelRestarts ==
    /\ faults < MaxFaults
    /\ faults' = faults + 1
    /\ queue' = <<>> /\ pc' = "next"
    /\ calls' = Forget(calls)
    /\ watched' = {}
    /\ work' = [w \in Works |-> [work[w] EXCEPT !.waiting = FALSE]]
    /\ UNCHANGED <<active, enabled, marker, drain, booting, settled, running,
                   row, toggles>>

\* The agent dies.  Docker finishes or drops the launches it was given, and
\* the new process reads the marker before it serves.
AgentRestarts ==
    /\ faults < MaxFaults
    /\ faults' = faults + 1
    /\ enabled' = marker
    /\ calls' = <<>> /\ drain' = NoDrain /\ booting' = TRUE
    /\ \E up \in SUBSET Launching : running' = running \cup up
    /\ work' = [w \in Works |-> NoWork]
    /\ row' = [w \in Works |-> IF work[w].waiting THEN "error" ELSE row[w]]
    /\ IF \E i \in DOMAIN calls : calls[i].awaited THEN Ends
       ELSE UNCHANGED <<queue, pc>>
    /\ UNCHANGED <<active, marker, settled, watched, toggles>>

Init ==
    /\ active = TRUE
    /\ queue = <<>> /\ pc = "next"
    /\ enabled = FALSE /\ marker = FALSE
    /\ calls = <<>> /\ drain = NoDrain /\ booting = FALSE
    /\ work = [w \in Works |-> NoWork]
    /\ running = {}
    /\ settled = FALSE
    /\ row = [w \in Works |-> "stopped"] /\ watched = {}
    /\ toggles = 0 /\ faults = 0

\* What the panel's queue does when the agent answers.
PanelStep == Begin \/ Ask \/ ProbeAndCancel \/ Post \/ RecordStopped \/ Advertise

\* What the agent does when Docker answers.
AgentStep ==
    Leave \/ Enter \/ Settle \/ Finish \/ BootDrain
    \/ \E w \in Works : StopOne(w, TRUE)

WorkStep(w) ==
    \/ Accept(w) \/ Refuse(w) \/ Launch(w) \/ DockerStarts(w) \/ CheckLaunch(w)
    \/ (\E ok \in BOOLEAN : UndoLaunch(w, ok)) \/ Reply(w)

Next ==
    \/ \E op \in Operations : Toggle(op)
    \/ SweepReconciles
    \/ PanelStep \/ NodeErrs
    \/ AgentStep \/ ListFails
    \/ \E w \in Works :
          \/ Send(w) \/ WorkStep(w) \/ StopOne(w, FALSE)
          \/ WatchFails(w) \/ WatchEnds(w) \/ Exits(w)
    \/ PanelRestarts \/ AgentRestarts

\* The sweeper comes round for ever; a node that is asked again and again
\* answers, and Docker that is asked again and again stops a container.
Fairness ==
    /\ WF_vars(SweepReconciles)
    /\ WF_vars(Begin) /\ WF_vars(Advertise)
    /\ SF_vars(Ask) /\ SF_vars(ProbeAndCancel) /\ SF_vars(Post)
    /\ WF_vars(Leave) /\ WF_vars(Enter) /\ WF_vars(Finish) /\ WF_vars(BootDrain)
    /\ SF_vars(Settle)
    /\ \A w \in Works : WF_vars(WorkStep(w)) /\ SF_vars(StopOne(w, TRUE))

Spec == Init /\ [][Next]_vars

FairSpec == Spec /\ Fairness

-----------------------------------------------------------------------------
(* Properties.                                                             *)

\* Nothing the panel sent closes the latch behind an activation, however late
\* the agent gets to it: only the agent's own boot drain can, and the sweeper
\* then repairs it.
LateDrainsAreHarmless ==
    ~enabled /\ enabled' /\ active => Head(calls).boot
ActivationHolds == [][LateDrainsAreHarmless]_vars

\* Intent reaches the agent in both directions, whatever crashes, time-outs and
\* failed stops come in between.
IntentReachesAgent == <>[](enabled = ~active)

\* A node that stays drained ends up running nothing.
DrainedNodeEmpties == <>[](~active => running = {})

\* While the agent stops containers nobody watches one of them for a failed
\* start: "startup watchdogs are cancelled before shutdown so this deliberate
\* stop does not become a recorded startup crash" (docs/node-maintenance.md).
WatchesCancelledBeforeShutdown == drain.phase = "stop" => watched = {}

\* The node as NodeDrain promises it.
Drained == INSTANCE NodeDrain WITH
    node <- IF settled THEN "drained" ELSE IF enabled THEN "draining" ELSE "open",
    launching <- Launching

\* Every step of the panel, the agent, Docker and the crashes is a step the
\* promise allows: a drain that was acknowledged holds until the next
\* activation, agent restarts included.
ImplementsNodeDrain == Drained!Spec
=============================================================================

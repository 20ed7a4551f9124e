---------------------------- MODULE AbuseWatcher ----------------------------
(***************************************************************************)
(* The abuse watcher's passes over the fleet (security/watcher.ts): a      *)
(* queue of nodes worked off by a few workers until a deadline             *)
(* (lib/boundedWork.ts), the cursor that says where the next pass starts,  *)
(* the backoff shared with the status sweeper (nodes/nodeReachability.ts)  *)
(* and the flags (security/suspiciousList.ts).                             *)
(*                                                                         *)
(* Nodes are numbered in the order of listActiveNodesWithSecrets.  One     *)
(* server stands for all of a node; whether its score is over the          *)
(* threshold is left open, and a suspension is the lifecycle's business.   *)
(***************************************************************************)
EXTENDS Naturals, Sequences, FiniteSets

CONSTANTS
    NumNodes,
    Concurrency,  \* MAX_NODE_CONCURRENCY, the workers of a pass
    Suspects,     \* nodes whose server may score over the threshold
    MaxScans,     \* bound: Scan-now requests
    MaxChanges    \* bound: nodes that join or leave the fleet

Nodes == 1..NumNodes

ASSUME WatcherAssumption ==
    /\ NumNodes \in Nat /\ Concurrency \in Nat
    /\ MaxScans \in Nat /\ MaxChanges \in Nat
    /\ Suspects \subseteq Nodes

VARIABLES
    fleet,    \* active nodes with a server to watch
    up,       \* nodes whose agent answers
    backoff,  \* nodes in their skip window
    cursor,   \* sweepCursor
    pass,     \* [Passes -> runSweep]
    jobs,     \* [Passes -> what its workers are at, when they are at something]
    flags,    \* [Nodes -> unreviewed flags younger than the suppression]
    rivals,   \* nodes whose server both passes judged at once (history)
    scans, changes

passVars == <<cursor, pass, jobs>>
flagVars == <<flags, rivals>>
fleetVars == <<fleet, up, scans, changes>>
vars == <<passVars, flagVars, fleetVars, backoff>>

\* The timer's, which never overlaps itself, and the administrator's.
Passes == {"timer", "scan"}

\* work: the rotated candidates; next: how many were taken; late: the start
\* deadline has passed; counted: nodes scanned, unreachable or skipped.
PassStates == [pc: {"idle", "read", "work"}, work: Seq(Nodes), offset: Nat,
               next: Nat, late: BOOLEAN, deferred: BOOLEAN, counted: Nat]
NoPass == [pc |-> "idle", work |-> <<>>, offset |-> 0, next |-> 0,
           late |-> FALSE, deferred |-> FALSE, counted |-> 0]

\* A worker asks a node for its samples, then looks for a flag of the server,
\* then inserts one.
Jobs == [step: {"ask", "look", "insert"}, node: Nodes]

TypeOK ==
    /\ fleet \subseteq Nodes /\ up \subseteq Nodes /\ backoff \subseteq Nodes
    /\ cursor \in Nat
    /\ pass \in [Passes -> PassStates]
    /\ jobs \in [Passes -> SUBSET Jobs]
    /\ \A p \in Passes :
          /\ Cardinality(jobs[p]) <= Concurrency
          /\ jobs[p] # {} => pass[p].pc = "work"
          /\ pass[p].next <= Len(pass[p].work)
    /\ flags \in [Nodes -> Nat] /\ rivals \subseteq Nodes
    /\ scans \in 0..MaxScans /\ changes \in 0..MaxChanges

-----------------------------------------------------------------------------
\* rotate: the list from the offset on, and then its beginning.
Rotate(list, offset) ==
    SubSeq(list, offset + 1, Len(list)) \o SubSeq(list, 1, offset)

\* The fleet's nodes, each of them once, in the order they were added.
Candidates ==
    {list \in [1..Cardinality(fleet) -> fleet] :
        \A i, j \in DOMAIN list : i < j => list[i] < list[j]}

\* A worker is at the top of its loop: nobody gave up, and something is left.
WorkerFree(p) ==
    /\ pass[p].pc = "work" /\ Cardinality(jobs[p]) < Concurrency
    /\ ~pass[p].deferred /\ pass[p].next < Len(pass[p].work)

Counted(p, n) == [pass[p] EXCEPT !.counted = @ + n]

\* The worker at job j of pass p goes on to a later step, or is done.
Proceeds(p, j, step) ==
    jobs' = [jobs EXCEPT ![p] = (@ \ {j}) \cup {[j EXCEPT !.step = step]}]
Ends(p, j) == jobs' = [jobs EXCEPT ![p] = @ \ {j}]

\* A pass that judges a node's server now.
Judges(p, n) == \E j \in jobs[p] : j.node = n /\ j.step # "ask"

-----------------------------------------------------------------------------
(* runSweep.                                                               *)

\* The clock of the deadline starts, and then the rows are read.
Start(p) ==
    /\ pass[p].pc = "idle"
    /\ p = "scan" => scans < MaxScans
    /\ scans' = IF p = "scan" THEN scans + 1 ELSE scans
    /\ \E list \in Candidates :
          pass' = [pass EXCEPT ![p] = [NoPass EXCEPT !.pc = "read",
                                                    !.work = list]]
    /\ UNCHANGED <<cursor, jobs, flagVars, fleet, up, changes, backoff>>

\* The cursor is read after the profiles were awaited.
Queue(p) ==
    /\ pass[p].pc = "read"
    /\ LET list == pass[p].work
           offset == IF list = <<>> THEN 0 ELSE cursor % Len(list)
       IN pass' = [pass EXCEPT ![p].pc = "work", ![p].offset = offset,
                               ![p].work = Rotate(list, offset)]
    /\ UNCHANGED <<cursor, jobs, flagVars, fleetVars, backoff>>

\* A query fails and the pass with it; the timer comes again.
ReadFails(p) ==
    /\ pass[p].pc = "read"
    /\ pass' = [pass EXCEPT ![p] = NoPass]
    /\ UNCHANGED <<cursor, jobs, flagVars, fleetVars, backoff>>

\* START_DEADLINE_MS passes, while there is something left that it matters
\* to; an administrator's scan has no deadline.
DeadlinePasses ==
    /\ pass["timer"].next < Len(pass["timer"].work) /\ ~pass["timer"].late
    /\ pass' = [pass EXCEPT !["timer"].late = TRUE]
    /\ UNCHANGED <<cursor, jobs, flagVars, fleetVars, backoff>>

\* A worker takes the next node and asks it, or skips it while it backs off.
TakeNode(p) ==
    /\ WorkerFree(p) /\ ~pass[p].late
    /\ LET n == pass[p].work[pass[p].next + 1] IN
       IF p = "timer" /\ n \in backoff
       THEN /\ pass' = [pass EXCEPT ![p] = [Counted(p, 1) EXCEPT !.next = @ + 1]]
            /\ UNCHANGED jobs
       ELSE /\ pass' = [pass EXCEPT ![p].next = @ + 1]
            /\ jobs' = [jobs EXCEPT ![p] =
                           @ \cup {[step |-> "ask", node |-> n]}]
    /\ UNCHANGED <<cursor, flagVars, fleetVars, backoff>>

\* Mutation of GiveUp: the flag that tells the other workers is not set.
GiveUpAlone(p) ==
    /\ WorkerFree(p) /\ pass[p].late
    /\ pass' = [pass EXCEPT ![p] =
                  Counted(p, Len(pass[p].work) - pass[p].next)]
    /\ UNCHANGED <<cursor, jobs, flagVars, fleetVars, backoff>>

\* The first worker past the deadline gives up for all and counts the rest.
GiveUp(p) ==
    /\ WorkerFree(p) /\ pass[p].late
    /\ pass' = [pass EXCEPT ![p] =
                  [Counted(p, Len(pass[p].work) - pass[p].next)
                   EXCEPT !.deferred = TRUE]]
    /\ UNCHANGED <<cursor, jobs, flagVars, fleetVars, backoff>>

\* sampleAndScoreNode: the node answers, and its server may be over the
\* threshold, or it does not and backs off.
NodeAnswers(p, j) ==
    /\ j.step = "ask"
    /\ IF j.node \in up
       THEN /\ backoff' = backoff \ {j.node}
            /\ \/ Ends(p, j) /\ UNCHANGED rivals
               \/ /\ j.node \in Suspects
                  /\ Proceeds(p, j, "look")
                  /\ rivals' = IF \E q \in Passes \ {p} : Judges(q, j.node)
                               THEN rivals \cup {j.node} ELSE rivals
       ELSE /\ backoff' = backoff \cup {j.node}
            /\ Ends(p, j)
            /\ UNCHANGED rivals
    /\ pass' = [pass EXCEPT ![p] = Counted(p, 1)]
    /\ UNCHANGED <<cursor, flags, fleetVars>>

\* Mutation of LookForFlag: the flags there are do not matter (up to two).
LookAway(p, j) ==
    /\ j.step = "look" /\ flags[j.node] < 2
    /\ Proceeds(p, j, "insert")
    /\ UNCHANGED <<cursor, pass, flagVars, fleetVars, backoff>>

\* hasRecentUnreviewedFlag, a query of its own.
LookForFlag(p, j) ==
    /\ j.step = "look"
    /\ IF flags[j.node] > 0 THEN Ends(p, j) ELSE Proceeds(p, j, "insert")
    /\ UNCHANGED <<cursor, pass, flagVars, fleetVars, backoff>>

\* recordFlag's INSERT; a failure costs this server only.
InsertFlag(p, j) ==
    /\ j.step = "insert"
    /\ \/ flags' = [flags EXCEPT ![j.node] = @ + 1]
       \/ UNCHANGED flags
    /\ Ends(p, j)
    /\ UNCHANGED <<cursor, pass, rivals, fleetVars, backoff>>

\* Mutation of EndPass: the offset of this pass is forgotten.
EndPassAtFront(p) ==
    /\ pass[p].pc = "work"
    /\ pass[p].deferred \/ pass[p].next = Len(pass[p].work)
    /\ jobs[p] = {}
    /\ cursor' = IF pass[p].work = <<>> THEN cursor
                 ELSE pass[p].next % Len(pass[p].work)
    /\ pass' = [pass EXCEPT ![p] = NoPass]
    /\ UNCHANGED <<jobs, flagVars, fleetVars, backoff>>

\* Mutation of EndPass: the workers are not awaited.
EndPassEarly(p) ==
    /\ pass[p].pc = "work"
    /\ pass[p].deferred \/ pass[p].next = Len(pass[p].work)
    /\ cursor' = IF pass[p].work = <<>> THEN cursor
                 ELSE (pass[p].offset + pass[p].next) % Len(pass[p].work)
    /\ pass' = [pass EXCEPT ![p] = NoPass]
    /\ UNCHANGED <<jobs, flagVars, fleetVars, backoff>>

\* All workers are back: the cursor goes where this pass stopped, whatever
\* another pass made of it meanwhile.
EndPass(p) ==
    /\ pass[p].pc = "work"
    /\ pass[p].deferred \/ pass[p].next = Len(pass[p].work)
    /\ jobs[p] = {}
    /\ cursor' = IF pass[p].work = <<>> THEN cursor
                 ELSE (pass[p].offset + pass[p].next) % Len(pass[p].work)
    /\ pass' = [pass EXCEPT ![p] = NoPass]
    /\ UNCHANGED <<jobs, flagVars, fleetVars, backoff>>

-----------------------------------------------------------------------------
(* The fleet, the status sweeper and the administrator.                    *)

\* A node is activated or drained, or gets or loses its last server.
FleetChanges(n) ==
    /\ changes < MaxChanges /\ changes' = changes + 1
    /\ fleet' = IF n \in fleet THEN fleet \ {n} ELSE fleet \cup {n}
    /\ UNCHANGED <<passVars, flagVars, up, scans, backoff>>

\* An agent goes away or comes back (bound: as long as nodes may change).
AgentChanges(n) ==
    /\ changes < MaxChanges /\ changes' = changes + 1
    /\ up' = IF n \in up THEN up \ {n} ELSE up \cup {n}
    /\ UNCHANGED <<passVars, flagVars, fleet, scans, backoff>>

\* The status sweeper asks a node that is not in its window.
SweeperNotes(n) ==
    /\ n \notin backoff /\ n \notin up
    /\ backoff' = backoff \cup {n}
    /\ UNCHANGED <<passVars, flagVars, fleetVars>>

WindowEnds(n) ==
    /\ n \in backoff
    /\ backoff' = backoff \ {n}
    /\ UNCHANGED <<passVars, flagVars, fleetVars>>

\* A flag is reviewed, or an hour old.
FlagsSettle(n) ==
    /\ flags[n] > 0
    /\ flags' = [flags EXCEPT ![n] = 0]
    /\ rivals' = IF \E p \in Passes : Judges(p, n) THEN rivals ELSE rivals \ {n}
    /\ UNCHANGED <<passVars, fleetVars, backoff>>

-----------------------------------------------------------------------------
Init ==
    /\ fleet = Nodes /\ up = Nodes /\ backoff = {}
    /\ cursor = 0
    /\ pass = [p \in Passes |-> NoPass]
    /\ jobs = [p \in Passes |-> {}]
    /\ flags = [n \in Nodes |-> 0] /\ rivals = {}
    /\ scans = 0 /\ changes = 0

WorkerStep(p) ==
    \/ TakeNode(p) \/ GiveUp(p)
    \/ \E j \in jobs[p] :
          NodeAnswers(p, j) \/ LookForFlag(p, j) \/ InsertFlag(p, j)

Next ==
    \/ \E p \in Passes :
          Start(p) \/ Queue(p) \/ ReadFails(p) \/ WorkerStep(p) \/ EndPass(p)
    \/ DeadlinePasses
    \/ \E n \in Nodes : FleetChanges(n) \/ AgentChanges(n) \/ SweeperNotes(n)
                        \/ WindowEnds(n) \/ FlagsSettle(n)

Spec == Init /\ [][Next]_vars

\* The interval fires, queries and requests end, windows pass, and a pass is
\* not always late before its first node: the deadline is at least a request's
\* time-out, and only two queries and no request come before it.
Fairness ==
    /\ WF_vars(Start("timer"))
    /\ \A p \in Passes :
          WF_vars(Queue(p)) /\ WF_vars(WorkerStep(p)) /\ WF_vars(EndPass(p))
    /\ SF_vars(Queue("timer") /\ ~pass["timer"].late)
    /\ SF_vars(TakeNode("timer"))
    /\ \A n \in Nodes : WF_vars(WindowEnds(n))

FairSpec == Spec /\ Fairness

-----------------------------------------------------------------------------
(* Properties.                                                             *)

\* "One job per node, and the numbers say what became of it": while a pass
\* runs every node that was taken, and when it gives up every other one, is
\* scanned, unreachable or skipped, and counted once.
Asking(p) == {j \in jobs[p] : j.step = "ask"}
EveryNodeCounted ==
    \A p \in Passes :
        pass[p].counted + Cardinality(Asking(p))
          = IF pass[p].deferred THEN Len(pass[p].work) ELSE pass[p].next

\* "Do not re-flag the same server while an unreviewed flag already exists":
\* the check and the INSERT are two statements, so this holds but for a server
\* that the timer's pass and a scan judged at the same time.
FlagsOnce == \A n \in Nodes : flags[n] > 1 => n \in rivals

\* "A sweep that gives up on its remaining nodes must not give up on the same
\* nodes forever: that is a permanent blind spot."  A node that stays in the
\* fleet and answers is asked again and again, however early every pass stops
\* and wherever scans put the cursor.
Asked(n) == \E p \in Passes : [step |-> "ask", node |-> n] \in jobs[p]
NoBlindSpot == \A n \in Nodes : <>[](n \in fleet /\ n \in up) => []<>Asked(n)
=============================================================================

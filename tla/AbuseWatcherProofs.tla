-------------------------- MODULE AbuseWatcherProofs --------------------------
(***************************************************************************)
(* Proofs about AbuseWatcher: the types, the numbers of a pass, and the    *)
(* flags.                                                                  *)
(***************************************************************************)
EXTENDS AbuseWatcher, FiniteSetTheorems, SequenceTheorems, TLAPS

Typed ==
    /\ fleet \subseteq Nodes /\ up \subseteq Nodes /\ backoff \subseteq Nodes
    /\ cursor \in Nat
    /\ pass \in [Passes -> PassStates]
    /\ jobs \in [Passes -> SUBSET Jobs]
    /\ flags \in [Nodes -> Nat] /\ rivals \subseteq Nodes
    /\ scans \in 0..MaxScans /\ changes \in 0..MaxChanges

\* A queue has every node once.
NoRepeats(list) == \A i, k \in DOMAIN list : list[i] = list[k] => i = k

\* What a pass has taken, each of it by one worker.
Queued(p) ==
    /\ pass[p].pc = "idle" => pass[p] = NoPass
    /\ NoRepeats(pass[p].work)
    /\ pass[p].next <= Len(pass[p].work)
    /\ \A j \in jobs[p] : \E i \in 1..pass[p].next : pass[p].work[i] = j.node
    /\ \A j, k \in jobs[p] : j.node = k.node => j = k

\* A pass that does not work has taken and counted nothing.
Fresh(p) ==
    pass[p].pc # "work" =>
        /\ jobs[p] = {} /\ pass[p].next = 0 /\ pass[p].counted = 0
        /\ pass[p].deferred = FALSE

\* The workers, and what they have made of the queue.
Manned(p) == IsFiniteSet(jobs[p]) /\ Cardinality(jobs[p]) <= Concurrency
Account(p) ==
    pass[p].counted + Cardinality(Asking(p))
      = IF pass[p].deferred THEN Len(pass[p].work) ELSE pass[p].next

\* A server not judged by two passes at once has one flag at most, and none
\* while somebody is about to insert one.
Alone(n) ==
    n \notin rivals =>
        /\ \A p, q \in Passes : Judges(p, n) /\ Judges(q, n) => p = q
        /\ flags[n] <= 1
        /\ \A p \in Passes :
              [step |-> "insert", node |-> n] \in jobs[p] => flags[n] = 0

PassInv(p) == Queued(p) /\ Fresh(p) /\ Manned(p) /\ Account(p)

Inv ==
    /\ Typed
    /\ \A p \in Passes : PassInv(p)
    /\ \A n \in Nodes : Alone(n)

-----------------------------------------------------------------------------
(* Lemmas about the operators.                                             *)

\* What the nodes are read into is a queue.
LEMMA CandidatesQueue ==
    ASSUME fleet \subseteq Nodes, NEW list \in Candidates
    PROVE  list \in Seq(Nodes) /\ NoRepeats(list)
<1>1. IsFiniteSet(fleet) /\ Cardinality(fleet) \in Nat
  <2>1. IsFiniteSet(1..NumNodes)
    BY FS_Interval, WatcherAssumption
  <2>2. fleet \in SUBSET (1..NumNodes)
    BY DEF Nodes
  <2>3. IsFiniteSet(fleet)
    BY <2>1, <2>2, FS_Subset
  <2> QED BY <2>3, FS_CardinalityType
<1>2. list \in Seq(Nodes)
  BY <1>1 DEF Candidates
<1>3. ASSUME NEW i \in DOMAIN list, NEW k \in DOMAIN list, list[i] = list[k]
      PROVE  i = k
  <2>1. i \in Nat /\ k \in Nat /\ list[i] \in Nat /\ list[k] \in Nat
    <3>1. list \in [1..Cardinality(fleet) -> fleet]
      BY DEF Candidates
    <3>2. fleet \subseteq Nat
      BY WatcherAssumption DEF Nodes
    <3>3. i \in 1..Cardinality(fleet) /\ k \in 1..Cardinality(fleet)
      BY <3>1
    <3>4. list[i] \in fleet /\ list[k] \in fleet
      BY <3>1, <3>3
    <3>5. i \in Nat /\ k \in Nat
      BY <1>1, <3>3
    <3> QED BY <3>2, <3>4, <3>5
  <2>2. ~(i < k) /\ ~(k < i)
    BY <1>3, <2>1 DEF Candidates
  <2> QED BY <2>1, <2>2
<1> QED BY <1>2, <1>3 DEF NoRepeats

\* What is left from an offset on.
LEMMA LastOrNot ==
    ASSUME NEW len \in Nat, NEW offset \in Nat, offset <= len
    PROVE  /\ len - (offset + 1) + 1 = len - offset
           /\ ~(offset + 1 <= len) => len - offset = 0
OBVIOUS

\* Rotating a queue leaves every node in it once.
LEMMA RotateQueue ==
    ASSUME NEW list \in Seq(Nodes), NoRepeats(list),
           NEW offset \in Nat, offset <= Len(list)
    PROVE  /\ Rotate(list, offset) \in Seq(Nodes)
           /\ Len(Rotate(list, offset)) = Len(list)
           /\ NoRepeats(Rotate(list, offset))
<1> DEFINE a == SubSeq(list, offset + 1, Len(list))
           b == SubSeq(list, 1, offset)
<1>1. Len(list) \in Nat /\ DOMAIN list = 1..Len(list)
  OBVIOUS
<1>2. /\ a \in Seq(Nodes) /\ Len(a) = Len(list) - offset
      /\ \A i \in 1..(Len(list) - offset) : a[i] = list[offset + i]
  <2>1. \A i \in (offset + 1)..Len(list) : list[i] \in Nodes
    BY <1>1
  <2>2. offset + 1 \in Int /\ Len(list) \in Int
    BY <1>1
  <2>3. /\ a \in Seq(Nodes)
        /\ Len(a) = IF offset + 1 <= Len(list)
                    THEN Len(list) - (offset + 1) + 1 ELSE 0
        /\ \A i \in 1..(Len(list) - (offset + 1) + 1) :
              a[i] = list[offset + 1 + i - 1]
    BY <2>1, <2>2, SubSeqProperties
  <2>4. /\ Len(list) - (offset + 1) + 1 = Len(list) - offset
        /\ ~(offset + 1 <= Len(list)) => Len(list) - offset = 0
    BY <1>1, LastOrNot
  <2>5. \A i \in 1..(Len(list) - offset) : offset + 1 + i - 1 = offset + i
    BY <1>1
  <2> HIDE DEF a
  <2>6. Len(a) = Len(list) - offset
    BY <2>3, <2>4
  <2>7. \A i \in 1..(Len(list) - offset) : a[i] = list[offset + i]
    BY <2>3, <2>4, <2>5
  <2> QED BY <2>3, <2>6, <2>7
<1>3. /\ b \in Seq(Nodes) /\ Len(b) = offset
      /\ \A i \in 1..offset : b[i] = list[i]
  <2>1. \A i \in 1..offset : list[i] \in Nodes
    BY <1>1
  <2> QED BY <1>1, <2>1
<1> DEFINE r == Rotate(list, offset)
<1>4. /\ r \in Seq(Nodes) /\ Len(r) = Len(list)
      /\ \A i \in 1..Len(list) :
            r[i] = IF i <= Len(list) - offset THEN list[offset + i]
                   ELSE list[i - (Len(list) - offset)]
  <2>1. r = a \o b
    BY DEF Rotate
  <2> HIDE DEF a, b, r
  <2>2. r \in Seq(Nodes) /\ Len(r) = Len(a) + Len(b)
    BY <1>2, <1>3, <2>1
  <2>3. \A i \in 1..(Len(a) + Len(b)) :
           r[i] = IF i <= Len(a) THEN a[i] ELSE b[i - Len(a)]
    BY <1>2, <1>3, <2>1
  <2> QED BY <1>1, <1>2, <1>3, <2>2, <2>3
<1>5. NoRepeats(r)
  <2> HIDE DEF r
  <2> SUFFICES ASSUME NEW i \in 1..Len(list), NEW k \in 1..Len(list), r[i] = r[k]
               PROVE  i = k
    BY <1>4 DEF NoRepeats
  <2> DEFINE At(x) == IF x <= Len(list) - offset THEN offset + x
                      ELSE x - (Len(list) - offset)
  <2>1. At(i) \in 1..Len(list) /\ At(k) \in 1..Len(list)
    BY <1>1
  <2>2. list[At(i)] = list[At(k)]
    BY <1>4
  <2>3. At(i) = At(k)
    BY <1>1, <2>1, <2>2 DEF NoRepeats
  <2> QED BY <1>1, <2>3
<1> QED BY <1>4, <1>5

\* A worker that goes on or ends leaves no more workers than there were.
LEMMA OneFewer ==
    ASSUME NEW S, IsFiniteSet(S), NEW j \in S, NEW k
    PROVE  /\ IsFiniteSet(S \ {j}) /\ IsFiniteSet((S \ {j}) \cup {k})
           /\ Cardinality(S) \in Nat
           /\ Cardinality(S \ {j}) = Cardinality(S) - 1
           /\ Cardinality((S \ {j}) \cup {k}) <= Cardinality(S)
<1>1. /\ IsFiniteSet(S \ {j}) /\ Cardinality(S \ {j}) = Cardinality(S) - 1
      /\ Cardinality(S) \in Nat
  BY FS_RemoveElement, FS_CardinalityType
<1>2. /\ IsFiniteSet((S \ {j}) \cup {k})
      /\ \/ Cardinality((S \ {j}) \cup {k}) = Cardinality(S \ {j})
         \/ Cardinality((S \ {j}) \cup {k}) = Cardinality(S \ {j}) + 1
  BY <1>1, FS_AddElement
<1> QED BY <1>1, <1>2

\* The workers that ask are some of the workers.
LEMMA AskingFinite ==
    ASSUME NEW p \in Passes, IsFiniteSet(jobs[p])
    PROVE  IsFiniteSet(Asking(p)) /\ Cardinality(Asking(p)) \in Nat
BY FS_Subset, FS_CardinalityType DEF Asking

-----------------------------------------------------------------------------
(* The types.                                                              *)

\* A step of a worker, with its job.
JobStep(p, j) == NodeAnswers(p, j) \/ LookForFlag(p, j) \/ InsertFlag(p, j)

\* The actions of a pass.
PassStep(p) ==
    \/ Start(p) \/ Queue(p) \/ ReadFails(p) \/ EndPass(p)
    \/ TakeNode(p) \/ GiveUp(p) \/ \E j \in jobs[p] : JobStep(p, j)

\* What is not a pass.
FleetStep ==
    \E n \in Nodes : FleetChanges(n) \/ AgentChanges(n) \/ SweeperNotes(n)
                     \/ WindowEnds(n) \/ FlagsSettle(n)

\* The steps, by who takes them.
LEMMA NextCases ==
    ASSUME Next
    PROVE  (\E p \in Passes : PassStep(p)) \/ DeadlinePasses \/ FleetStep
BY DEF Next, WorkerStep, PassStep, JobStep, FleetStep

\* A pass that has not begun is a pass.
LEMMA NoPassTyped == NoPass \in PassStates
<1>1. <<>> \in Seq(Nodes)
  OBVIOUS
<1> QED BY <1>1 DEF NoPass, PassStates

\* Counting nodes leaves a pass a pass.
LEMMA CountedTyped ==
    ASSUME NEW p \in Passes, pass[p] \in PassStates, NEW n \in Nat
    PROVE  Counted(p, n) \in PassStates
<1>1. pass[p].counted + n \in Nat
  BY DEF PassStates
<1>2. Counted(p, n) = [pass[p] EXCEPT !.counted = pass[p].counted + n]
  BY DEF Counted
<1> QED BY <1>1, <1>2 DEF PassStates

\* So does taking one.
LEMMA NextTyped ==
    ASSUME NEW r \in PassStates
    PROVE  [r EXCEPT !.next = @ + 1] \in PassStates
<1>1. r.next + 1 \in Nat
  BY DEF PassStates
<1> QED BY <1>1 DEF PassStates

\* What a division leaves is less than the divisor.
LEMMA RestBound ==
    ASSUME NEW c \in Nat, NEW n \in Nat, n > 0
    PROVE  c % n \in Nat /\ c % n < n
OBVIOUS

\* A pass starts somewhere in its queue.
LEMMA OffsetBound ==
    ASSUME NEW list \in Seq(Nodes), NEW c \in Nat
    PROVE  /\ (IF list = <<>> THEN 0 ELSE c % Len(list)) \in Nat
           /\ (IF list = <<>> THEN 0 ELSE c % Len(list)) <= Len(list)
<1>1. Len(list) \in Nat /\ (list # <<>> => Len(list) > 0)
  OBVIOUS
<1>2. CASE list = <<>>
  BY <1>1, <1>2
<1>3. CASE list # <<>>
  <2>1. c % Len(list) \in Nat /\ c % Len(list) < Len(list)
    BY <1>1, <1>3, RestBound
  <2>2. (IF list = <<>> THEN 0 ELSE c % Len(list)) = c % Len(list)
    BY <1>3
  <2> QED BY <1>1, <2>1, <2>2
<1> QED BY <1>2, <1>3

\* Every step keeps the types.
LEMMA StepTyped ==
    ASSUME Typed, \A p \in Passes : PassInv(p), Next
    PROVE  Typed'
<1> USE DEF Typed
<1>1. ASSUME NEW p \in Passes, PassStep(p)
      PROVE  Typed'
  <2>0. pass[p] \in PassStates /\ jobs[p] \subseteq Jobs
    OBVIOUS
  <2>1. CASE Start(p)
    <3>1. PICK list \in Candidates :
             pass' = [pass EXCEPT ![p] = [NoPass EXCEPT !.pc = "read",
                                                       !.work = list]]
      BY <2>1 DEF Start
    <3>2. [NoPass EXCEPT !.pc = "read", !.work = list] \in PassStates
      BY NoPassTyped, CandidatesQueue DEF PassStates
    <3>3. pass' \in [Passes -> PassStates]
      BY <3>1, <3>2
    <3>4. scans' \in 0..MaxScans
      BY <2>1, WatcherAssumption DEF Start
    <3> QED BY <2>1, <3>3, <3>4 DEF Start, flagVars
  <2>2. CASE Queue(p)
    <3> DEFINE list == pass[p].work
               offset == IF list = <<>> THEN 0 ELSE cursor % Len(list)
    <3>1. /\ list \in Seq(Nodes) /\ NoRepeats(list) /\ offset \in Nat
          /\ offset <= Len(list)
      <4>1. list \in Seq(Nodes) /\ NoRepeats(list)
        BY <2>0 DEF PassInv, Queued, PassStates
      <4>2. cursor \in Nat
        OBVIOUS
      <4> QED BY <4>1, <4>2, OffsetBound
    <3>2. Rotate(list, offset) \in Seq(Nodes)
      BY <3>1, RotateQueue
    <3>3. pass' = [pass EXCEPT ![p].pc = "work", ![p].offset = offset,
                               ![p].work = Rotate(list, offset)]
      BY <2>2 DEF Queue
    <3> HIDE DEF offset, list
    <3>4. [pass[p] EXCEPT !.pc = "work", !.offset = offset,
                          !.work = Rotate(list, offset)] \in PassStates
      BY <2>0, <3>1, <3>2 DEF PassStates
    <3>5. pass' \in [Passes -> PassStates]
      BY <3>3, <3>4
    <3> QED BY <2>2, <3>5 DEF Queue, flagVars, fleetVars
  <2>3. CASE ReadFails(p)
    BY <2>3, NoPassTyped DEF ReadFails, flagVars, fleetVars
  <2>4. CASE EndPass(p)
    <3>1. pass' \in [Passes -> PassStates]
      BY <2>4, NoPassTyped DEF EndPass
    <3>2. cursor' \in Nat
      <4>1. /\ pass[p].work \in Seq(Nodes) /\ pass[p].offset \in Nat
            /\ pass[p].next \in Nat
        BY <2>0 DEF PassStates
      <4>2. CASE pass[p].work = <<>>
        BY <2>4, <4>2 DEF EndPass
      <4>3. CASE pass[p].work # <<>>
        <5>1. Len(pass[p].work) \in Nat /\ Len(pass[p].work) > 0
          BY <4>1, <4>3
        <5> QED BY <2>4, <4>1, <4>3, <5>1 DEF EndPass
      <4> QED BY <4>2, <4>3
    <3> QED BY <2>4, <3>1, <3>2 DEF EndPass, flagVars, fleetVars
  <2>5. CASE TakeNode(p)
    <3>1. /\ pass[p].next \in Nat /\ pass[p].counted \in Nat
          /\ pass[p].work \in Seq(Nodes) /\ pass[p].next + 1 \in 1..Len(pass[p].work)
      BY <2>0, <2>5 DEF PassStates, TakeNode, WorkerFree
    <3>2. pass[p].work[pass[p].next + 1] \in Nodes
      BY <3>1
    <3>3. /\ [pass[p] EXCEPT !.next = @ + 1] \in PassStates
          /\ [Counted(p, 1) EXCEPT !.next = @ + 1] \in PassStates
      BY <2>0, CountedTyped, NextTyped
    <3>4. pass' \in [Passes -> PassStates]
      <4>1. \/ pass' = [pass EXCEPT ![p] = [Counted(p, 1) EXCEPT !.next = @ + 1]]
            \/ pass' = [pass EXCEPT ![p] = [pass[p] EXCEPT !.next = @ + 1]]
        BY <2>5 DEF TakeNode
      <4> QED BY <3>3, <4>1
    <3>5. jobs' \in [Passes -> SUBSET Jobs]
      <4>1. [step |-> "ask", node |-> pass[p].work[pass[p].next + 1]] \in Jobs
        BY <3>2 DEF Jobs
      <4> QED BY <2>5, <4>1 DEF TakeNode
    <3> QED BY <2>5, <3>4, <3>5 DEF TakeNode, flagVars, fleetVars
  <2>6. CASE GiveUp(p)
    <3>1. /\ pass[p].next \in Nat /\ pass[p].work \in Seq(Nodes)
          /\ pass[p].next < Len(pass[p].work) /\ pass[p].counted \in Nat
      BY <2>0, <2>6 DEF PassStates, GiveUp, WorkerFree
    <3>2. Len(pass[p].work) - pass[p].next \in Nat
      BY <3>1
    <3>3. [Counted(p, Len(pass[p].work) - pass[p].next)
             EXCEPT !.deferred = TRUE] \in PassStates
      <4>1. Counted(p, Len(pass[p].work) - pass[p].next) \in PassStates
        BY <2>0, <3>2, CountedTyped
      <4> QED BY <4>1 DEF PassStates
    <3> QED BY <2>6, <3>3 DEF GiveUp, flagVars, fleetVars
  <2>7. ASSUME NEW j \in jobs[p], JobStep(p, j)
        PROVE  Typed'
    <3>1. /\ j \in Jobs /\ j.node \in Nodes
          /\ [j EXCEPT !.step = "look"] \in Jobs
          /\ [j EXCEPT !.step = "insert"] \in Jobs
      BY <2>0 DEF Jobs
    <3>2. CASE NodeAnswers(p, j)
      <4>1. Counted(p, 1) \in PassStates
        BY <2>0, CountedTyped
      <4>2. jobs' \in [Passes -> SUBSET Jobs]
        BY <3>1, <3>2 DEF NodeAnswers, Ends, Proceeds
      <4>3. rivals' \subseteq Nodes /\ backoff' \subseteq Nodes
        BY <3>1, <3>2 DEF NodeAnswers
      <4> QED BY <3>2, <4>1, <4>2, <4>3 DEF NodeAnswers, fleetVars
    <3>3. CASE LookForFlag(p, j)
      BY <3>1, <3>3 DEF LookForFlag, Ends, Proceeds, flagVars, fleetVars
    <3>4. CASE InsertFlag(p, j)
      <4>1. flags' \in [Nodes -> Nat]
        BY <3>1, <3>4 DEF InsertFlag
      <4> QED BY <3>4, <4>1 DEF InsertFlag, Ends, fleetVars
    <3> QED BY <2>7, <3>2, <3>3, <3>4 DEF JobStep
  <2> QED BY <1>1, <2>1, <2>2, <2>3, <2>4, <2>5, <2>6, <2>7 DEF PassStep
<1>2. CASE DeadlinePasses
  <2>1. "timer" \in Passes
    BY DEF Passes
  <2>2. [pass["timer"] EXCEPT !.late = TRUE] \in PassStates
    BY <2>1 DEF PassStates
  <2> QED BY <1>2, <2>1, <2>2 DEF DeadlinePasses, flagVars, fleetVars
<1>3. CASE FleetStep
  <2>1. PICK n \in Nodes : FleetChanges(n) \/ AgentChanges(n) \/ SweeperNotes(n)
                           \/ WindowEnds(n) \/ FlagsSettle(n)
    BY <1>3 DEF FleetStep
  <2>2. CASE FleetChanges(n) \/ AgentChanges(n)
    <3>1. changes' \in 0..MaxChanges
      BY <2>2, WatcherAssumption DEF FleetChanges, AgentChanges
    <3> QED BY <2>2, <3>1 DEF FleetChanges, AgentChanges, passVars, flagVars
  <2>3. CASE SweeperNotes(n) \/ WindowEnds(n)
    BY <2>3 DEF SweeperNotes, WindowEnds, passVars, flagVars, fleetVars
  <2>4. CASE FlagsSettle(n)
    BY <2>4 DEF FlagsSettle, passVars, fleetVars
  <2> QED BY <2>1, <2>2, <2>3, <2>4
<1> QED BY <1>1, <1>2, <1>3, NextCases

-----------------------------------------------------------------------------
(* The passes.                                                             *)

\* A pass that is not at work in a step is as it was.
LEMMA PassFrame ==
    ASSUME NEW p \in Passes, PassInv(p), pass'[p] = pass[p], jobs'[p] = jobs[p]
    PROVE  PassInv(p)'
BY DEF PassInv, Queued, Fresh, Manned, Account, Asking

\* A step of one pass leaves the other alone.
LEMMA PassStepFrame ==
    ASSUME Typed, NEW p \in Passes, PassStep(p), NEW q \in Passes, q # p
    PROVE  pass'[q] = pass[q] /\ jobs'[q] = jobs[q]
<1> USE DEF Typed
<1>1. CASE Start(p) \/ Queue(p) \/ ReadFails(p) \/ EndPass(p)
  BY <1>1 DEF Start, Queue, ReadFails, EndPass
<1>2. CASE TakeNode(p) \/ GiveUp(p)
  BY <1>2 DEF TakeNode, GiveUp
<1>3. CASE \E j \in jobs[p] : JobStep(p, j)
  BY <1>3 DEF JobStep, NodeAnswers, LookForFlag, InsertFlag, Ends, Proceeds
<1> QED BY <1>1, <1>2, <1>3 DEF PassStep

\* A pass without anything to do.
LEMMA NoAsking ==
    ASSUME NEW p \in Passes, jobs[p] = {}
    PROVE  IsFiniteSet(jobs[p]) /\ Cardinality(jobs[p]) = 0
           /\ Cardinality(Asking(p)) = 0
BY FS_EmptySet DEF Asking

\* A step of a pass keeps its queue and its numbers.
LEMMA StepPass ==
    ASSUME Typed, NEW p \in Passes, PassInv(p), PassStep(p)
    PROVE  PassInv(p)'
<1> USE DEF Typed
<1>0. pass[p] \in PassStates /\ jobs[p] \subseteq Jobs
  OBVIOUS
<1>a. /\ pass[p].next \in Nat /\ pass[p].counted \in Nat
      /\ pass[p].work \in Seq(Nodes) /\ Len(pass[p].work) \in Nat
      /\ DOMAIN pass[p].work = 1..Len(pass[p].work)
      /\ pass[p].deferred \in BOOLEAN
  <2>1. pass[p].work \in Seq(Nodes)
    BY <1>0 DEF PassStates
  <2> QED BY <1>0, <2>1 DEF PassStates
<1>b. IsFiniteSet(Asking(p)) /\ Cardinality(Asking(p)) \in Nat
  BY AskingFinite DEF PassInv, Manned
<1>1. CASE Start(p)
  <2>1. PICK list \in Candidates :
           pass' = [pass EXCEPT ![p] = [NoPass EXCEPT !.pc = "read",
                                                     !.work = list]]
    BY <1>1 DEF Start
  <2>2. list \in Seq(Nodes) /\ NoRepeats(list)
    BY CandidatesQueue
  <2>3. jobs[p] = {} /\ jobs' = jobs
    BY <1>1 DEF Start, PassInv, Fresh
  <2>4. /\ pass'[p].pc = "read" /\ pass'[p].work = list /\ pass'[p].next = 0
        /\ pass'[p].counted = 0 /\ pass'[p].deferred = FALSE
    BY <2>1 DEF NoPass
  <2>5. Len(list) \in Nat
    BY <2>2
  <2>6. Queued(p)' /\ Fresh(p)'
    BY <2>2, <2>3, <2>4, <2>5 DEF Queued, Fresh, NoRepeats
  <2>7. Manned(p)' /\ Account(p)'
    BY <2>3, <2>4, NoAsking DEF PassInv, Manned, Account, Asking
  <2> QED BY <2>6, <2>7 DEF PassInv
<1>2. CASE Queue(p)
  <2> DEFINE list == pass[p].work
             offset == IF list = <<>> THEN 0 ELSE cursor % Len(list)
  <2>1. offset \in Nat /\ offset <= Len(list)
    <3>1. cursor \in Nat
      OBVIOUS
    <3> QED BY <1>a, <3>1, OffsetBound
  <2>2. pass' = [pass EXCEPT ![p].pc = "work", ![p].offset = offset,
                             ![p].work = Rotate(list, offset)]
    BY <1>2 DEF Queue
  <2>3. /\ list \in Seq(Nodes) /\ NoRepeats(list)
    BY <1>a DEF PassInv, Queued
  <2> HIDE DEF offset, list
  <2>4. /\ Rotate(list, offset) \in Seq(Nodes)
        /\ Len(Rotate(list, offset)) = Len(list)
        /\ NoRepeats(Rotate(list, offset))
    BY <2>1, <2>3, RotateQueue
  <2>5. /\ pass'[p].pc = "work" /\ pass'[p].work = Rotate(list, offset)
        /\ pass'[p].next = pass[p].next /\ pass'[p].counted = pass[p].counted
        /\ pass'[p].deferred = pass[p].deferred
    BY <1>0, <2>2 DEF PassStates
  <2>6. jobs' = jobs /\ jobs[p] = {} /\ pass[p].next = 0 /\ pass[p].counted = 0
        /\ pass[p].deferred = FALSE
    BY <1>2 DEF Queue, PassInv, Fresh
  <2>7. Queued(p)' /\ Fresh(p)'
    BY <1>a, <2>4, <2>5, <2>6 DEF Queued, Fresh, NoRepeats, list
  <2>8. Manned(p)' /\ Account(p)'
    BY <2>5, <2>6, NoAsking DEF PassInv, Manned, Account, Asking
  <2> QED BY <2>7, <2>8 DEF PassInv
<1>3. CASE ReadFails(p) \/ EndPass(p)
  <2>1. pass'[p] = NoPass /\ jobs' = jobs /\ jobs[p] = {}
    BY <1>3 DEF ReadFails, EndPass, PassInv, Fresh
  <2>2. /\ NoPass.pc = "idle" /\ NoPass.work = <<>> /\ NoPass.next = 0
        /\ NoPass.counted = 0 /\ NoPass.deferred = FALSE
    BY DEF NoPass
  <2>3. Queued(p)' /\ Fresh(p)'
    BY <2>1, <2>2 DEF Queued, Fresh, NoRepeats
  <2>4. Manned(p)' /\ Account(p)'
    BY <2>1, <2>2, NoAsking DEF PassInv, Manned, Account, Asking
  <2> QED BY <2>3, <2>4 DEF PassInv
<1>4. CASE TakeNode(p)
  <2> DEFINE n == pass[p].work[pass[p].next + 1]
             j == [step |-> "ask", node |-> n]
  <2>1. /\ pass[p].pc = "work" /\ ~pass[p].deferred
        /\ pass[p].next < Len(pass[p].work)
        /\ Cardinality(jobs[p]) < Concurrency
    BY <1>4 DEF TakeNode, WorkerFree
  <2>2. CASE /\ pass' = [pass EXCEPT ![p] = [Counted(p, 1) EXCEPT !.next = @ + 1]]
             /\ UNCHANGED jobs
    <3>1. /\ pass'[p].pc = "work" /\ pass'[p].work = pass[p].work
          /\ pass'[p].next = pass[p].next + 1
          /\ pass'[p].counted = pass[p].counted + 1
          /\ pass'[p].deferred = pass[p].deferred
      BY <1>0, <2>1, <2>2 DEF Counted, PassStates
    <3>2. Queued(p)'
      <4>1. 1..pass[p].next \subseteq 1..(pass[p].next + 1)
            /\ pass[p].next + 1 <= Len(pass[p].work)
        BY <1>a, <2>1
      <4>2. \A k \in jobs'[p] :
               \E i \in 1..pass'[p].next : pass'[p].work[i] = k.node
        BY <2>2, <3>1, <4>1 DEF PassInv, Queued
      <4> QED BY <2>2, <3>1, <4>1, <4>2 DEF PassInv, Queued, NoRepeats
    <3>3. Fresh(p)' /\ Manned(p)'
      BY <2>2, <3>1 DEF PassInv, Fresh, Manned
    <3>4. Account(p)'
      <4>1. Asking(p)' = Asking(p)
        BY <2>2 DEF Asking
      <4> QED BY <1>a, <1>b, <2>1, <3>1, <4>1 DEF PassInv, Account
    <3> QED BY <3>2, <3>3, <3>4 DEF PassInv
  <2>3. CASE /\ pass' = [pass EXCEPT ![p].next = @ + 1]
             /\ jobs' = [jobs EXCEPT ![p] = @ \cup {j}]
    <3>1. /\ pass'[p].pc = "work" /\ pass'[p].work = pass[p].work
          /\ pass'[p].next = pass[p].next + 1
          /\ pass'[p].counted = pass[p].counted
          /\ pass'[p].deferred = pass[p].deferred
          /\ jobs'[p] = jobs[p] \cup {j}
      BY <1>0, <2>1, <2>3 DEF PassStates
    <3>2. j.node = n /\ j.step = "ask"
      OBVIOUS
    <3>3. \A k \in jobs[p] : k.node # n
      <4> SUFFICES ASSUME NEW k \in jobs[p], k.node = n
                   PROVE  FALSE
        OBVIOUS
      <4>1. PICK i \in 1..pass[p].next : pass[p].work[i] = k.node
        BY DEF PassInv, Queued
      <4>2. i \in DOMAIN pass[p].work /\ pass[p].next + 1 \in DOMAIN pass[p].work
            /\ i # pass[p].next + 1
        BY <1>a, <2>1
      <4> QED BY <4>1, <4>2 DEF PassInv, Queued, NoRepeats
    <3> HIDE DEF j
    <3>4. j \notin jobs[p]
      BY <3>2, <3>3
    <3>5. Queued(p)'
      <4>1. \A k \in jobs'[p] :
               \E i \in 1..pass'[p].next : pass'[p].work[i] = k.node
        <5>1. 1..pass[p].next \subseteq 1..(pass[p].next + 1)
              /\ pass[p].next + 1 \in 1..(pass[p].next + 1)
          BY <1>a
        <5> QED BY <3>1, <3>2, <5>1 DEF PassInv, Queued
      <4>2. \A k, l \in jobs'[p] : k.node = l.node => k = l
        BY <3>1, <3>2, <3>3 DEF PassInv, Queued
      <4>3. pass'[p].next <= Len(pass'[p].work) /\ NoRepeats(pass'[p].work)
        BY <1>a, <2>1, <3>1 DEF PassInv, Queued
      <4> QED BY <3>1, <4>1, <4>2, <4>3 DEF Queued, NoRepeats
    <3>6. Manned(p)'
      <4>1. /\ IsFiniteSet(jobs[p] \cup {j})
            /\ Cardinality(jobs[p] \cup {j}) = Cardinality(jobs[p]) + 1
            /\ Cardinality(jobs[p]) \in Nat
        BY <3>4, FS_AddElement, FS_CardinalityType DEF PassInv, Manned
      <4> QED BY <2>1, <3>1, <4>1, WatcherAssumption DEF Manned
    <3>7. Account(p)'
      <4>1. Asking(p)' = Asking(p) \cup {j} /\ j \notin Asking(p)
        BY <3>1, <3>2, <3>4 DEF Asking
      <4>2. Cardinality(Asking(p)') = Cardinality(Asking(p)) + 1
        BY <1>b, <4>1, FS_AddElement
      <4> QED BY <1>a, <1>b, <2>1, <3>1, <4>2 DEF PassInv, Account
    <3> QED BY <3>1, <3>5, <3>6, <3>7 DEF PassInv, Fresh
  <2> QED BY <1>4, <2>2, <2>3 DEF TakeNode
<1>5. CASE GiveUp(p)
  <2>1. /\ pass[p].pc = "work" /\ ~pass[p].deferred
        /\ pass[p].next < Len(pass[p].work) /\ jobs' = jobs
    BY <1>5 DEF GiveUp, WorkerFree
  <2>2. /\ pass'[p].pc = "work" /\ pass'[p].work = pass[p].work
        /\ pass'[p].next = pass[p].next
        /\ pass'[p].counted = pass[p].counted
                                + (Len(pass[p].work) - pass[p].next)
        /\ pass'[p].deferred = TRUE
    BY <1>0, <1>5, <2>1 DEF GiveUp, Counted, PassStates
  <2>3. Queued(p)' /\ Fresh(p)' /\ Manned(p)'
    BY <2>1, <2>2 DEF PassInv, Queued, Fresh, Manned, NoRepeats
  <2>4. Account(p)'
    BY <1>a, <1>b, <2>1, <2>2 DEF PassInv, Account, Asking
  <2> QED BY <2>3, <2>4 DEF PassInv
<1>6. ASSUME NEW j \in jobs[p], JobStep(p, j)
      PROVE  PassInv(p)'
  <2>0. j \in Jobs
    BY <1>0
  <2>1. pass[p].pc = "work"
    BY <1>6 DEF PassInv, Fresh
  <2>2. PICK k : /\ \/ jobs'[p] = jobs[p] \ {j}
                    \/ jobs'[p] = (jobs[p] \ {j}) \cup {k}
                 /\ k.node = j.node /\ k.step # "ask"
    <3>1. /\ [j EXCEPT !.step = "look"].node = j.node
          /\ [j EXCEPT !.step = "look"].step = "look"
          /\ [j EXCEPT !.step = "insert"].node = j.node
          /\ [j EXCEPT !.step = "insert"].step = "insert"
      BY <2>0 DEF Jobs
    <3>2. CASE jobs'[p] = (jobs[p] \ {j}) \cup {[j EXCEPT !.step = "look"]}
      BY <3>1, <3>2
    <3>3. CASE jobs'[p] = (jobs[p] \ {j}) \cup {[j EXCEPT !.step = "insert"]}
      BY <3>1, <3>3
    <3>4. CASE jobs'[p] = jobs[p] \ {j}
      BY <3>1, <3>4
    <3>5. CASE NodeAnswers(p, j)
      BY <3>2, <3>4, <3>5 DEF NodeAnswers, Ends, Proceeds
    <3>6. CASE LookForFlag(p, j)
      BY <3>3, <3>4, <3>6 DEF LookForFlag, Ends, Proceeds
    <3>7. CASE InsertFlag(p, j)
      BY <3>4, <3>7 DEF InsertFlag, Ends
    <3> QED BY <1>6, <3>5, <3>6, <3>7 DEF JobStep
  <2>3. /\ pass'[p].pc = pass[p].pc /\ pass'[p].work = pass[p].work
        /\ pass'[p].next = pass[p].next
        /\ pass'[p].deferred = pass[p].deferred
        /\ pass'[p].counted = IF j.step = "ask" THEN pass[p].counted + 1
                              ELSE pass[p].counted
    BY <1>0, <1>6
       DEF JobStep, NodeAnswers, LookForFlag, InsertFlag, Counted, PassStates
  <2>4. Queued(p)'
    <3>1. \A l \in jobs'[p] :
             \E i \in 1..pass'[p].next : pass'[p].work[i] = l.node
      BY <2>2, <2>3 DEF PassInv, Queued
    <3>2. \A l, m \in jobs'[p] : l.node = m.node => l = m
      BY <2>2 DEF PassInv, Queued
    <3> QED BY <2>1, <2>3, <3>1, <3>2 DEF PassInv, Queued, NoRepeats
  <2>5. Manned(p)'
    <3>1. IsFiniteSet(jobs[p]) /\ Cardinality(jobs[p]) <= Concurrency
      BY DEF PassInv, Manned
    <3>2. /\ IsFiniteSet(jobs'[p]) /\ Cardinality(jobs'[p]) \in Nat
          /\ Cardinality(jobs[p]) \in Nat
          /\ Cardinality(jobs'[p]) <= Cardinality(jobs[p])
      <4>1. IsFiniteSet(jobs'[p])
        <5>1. IsFiniteSet(jobs[p] \ {j}) /\ IsFiniteSet((jobs[p] \ {j}) \cup {k})
          BY <3>1, OneFewer
        <5> QED BY <2>2, <5>1
      <4>2. Cardinality(jobs'[p]) \in Nat
        BY <4>1, FS_CardinalityType
      <4>3. /\ Cardinality(jobs[p]) \in Nat
            /\ Cardinality(jobs[p] \ {j}) = Cardinality(jobs[p]) - 1
            /\ Cardinality((jobs[p] \ {j}) \cup {k}) <= Cardinality(jobs[p])
        BY <3>1, OneFewer
      <4>4. CASE jobs'[p] = jobs[p] \ {j}
        BY <4>1, <4>2, <4>3, <4>4
      <4>5. CASE jobs'[p] = (jobs[p] \ {j}) \cup {k}
        BY <4>1, <4>2, <4>3, <4>5
      <4> QED BY <2>2, <4>4, <4>5
    <3> QED BY <3>1, <3>2, WatcherAssumption DEF Manned
  <2>6. Account(p)'
    <3>1. Asking(p)' = Asking(p) \ {j}
      BY <2>2 DEF Asking
    <3>2. CASE j.step = "ask"
      <4>1. j \in Asking(p)
        BY <3>2 DEF Asking
      <4>2. Cardinality(Asking(p)') = Cardinality(Asking(p)) - 1
        BY <1>b, <3>1, <4>1, FS_RemoveElement
      <4>3. pass'[p].counted = pass[p].counted + 1
        BY <2>3, <3>2
      <4>4. pass'[p].counted + Cardinality(Asking(p)')
              = pass[p].counted + Cardinality(Asking(p))
        BY <1>a, <1>b, <4>2, <4>3
      <4> QED BY <2>3, <4>4 DEF PassInv, Account
    <3>3. CASE j.step # "ask"
      <4>1. Asking(p)' = Asking(p)
        BY <3>1, <3>3 DEF Asking
      <4> QED BY <2>3, <3>3, <4>1 DEF PassInv, Account
    <3> QED BY <3>2, <3>3
  <2> QED BY <2>1, <2>3, <2>4, <2>5, <2>6 DEF PassInv, Fresh
<1> QED BY <1>1, <1>2, <1>3, <1>4, <1>5, <1>6 DEF PassStep

\* Every step keeps those of both.
LEMMA StepPasses ==
    ASSUME Typed, \A p \in Passes : PassInv(p), Next
    PROVE  \A p \in Passes : PassInv(p)'
<1> TAKE q \in Passes
<1>1. ASSUME NEW p \in Passes, PassStep(p)
      PROVE  PassInv(q)'
  <2>1. CASE q = p
    BY <1>1, <2>1, StepPass
  <2>2. CASE q # p
    BY <1>1, <2>2, PassStepFrame, PassFrame
  <2> QED BY <2>1, <2>2
<1>2. CASE DeadlinePasses
  <2>1. /\ jobs' = jobs /\ pass'[q].pc = pass[q].pc
        /\ pass'[q].work = pass[q].work /\ pass'[q].next = pass[q].next
        /\ pass'[q].counted = pass[q].counted
        /\ pass'[q].deferred = pass[q].deferred
    BY <1>2 DEF DeadlinePasses, Typed, PassStates
  <2>2. pass[q].pc = "idle" => pass'[q] = pass[q]
    <3>1. Len(NoPass.work) = 0 /\ NoPass.next = 0
      BY DEF NoPass
    <3>2. CASE q = "timer"
      BY <1>2, <3>1, <3>2 DEF DeadlinePasses, PassInv, Queued
    <3>3. CASE q # "timer"
      BY <1>2, <3>3 DEF DeadlinePasses, Typed
    <3> QED BY <3>2, <3>3
  <2> QED BY <2>1, <2>2
          DEF PassInv, Queued, Fresh, Manned, Account, Asking, NoRepeats
<1>3. CASE FleetStep
  <2>1. pass' = pass /\ jobs' = jobs
    BY <1>3 DEF FleetStep, FleetChanges, AgentChanges, SweeperNotes, WindowEnds,
                FlagsSettle, passVars
  <2> QED BY <2>1, PassFrame
<1> QED BY <1>1, <1>2, <1>3, NextCases

-----------------------------------------------------------------------------
(* The flags.                                                              *)

Inserting(n) == [step |-> "insert", node |-> n]

\* Nobody begins to judge n, and nothing is flagged.
LEMMA AloneFrame ==
    ASSUME NEW n \in Nodes, Alone(n), flags'[n] = flags[n],
           n \in rivals => n \in rivals',
           \A p \in Passes : Judges(p, n)' => Judges(p, n),
           \A p \in Passes : Inserting(n) \in jobs'[p] => Inserting(n) \in jobs[p]
    PROVE  Alone(n)'
BY DEF Alone, Inserting

\* Every step keeps a server not judged twice at one flag.
LEMMA StepFlags ==
    ASSUME Typed, \A n \in Nodes : Alone(n), Next
    PROVE  \A n \in Nodes : Alone(n)'
<1> USE DEF Typed
<1> TAKE n \in Nodes
<1>0. Alone(n)
  OBVIOUS
<1>1. CASE flags' = flags /\ rivals' = rivals /\ jobs' = jobs
  BY <1>0, <1>1, AloneFrame DEF Judges
<1>2. ASSUME NEW p \in Passes, PassStep(p)
      PROVE  Alone(n)'
  <2>1. CASE Start(p) \/ Queue(p) \/ ReadFails(p) \/ EndPass(p) \/ GiveUp(p)
    BY <1>1, <2>1 DEF Start, Queue, ReadFails, EndPass, GiveUp, flagVars
  <2>2. CASE TakeNode(p)
    <3>1. flags' = flags /\ rivals' = rivals
      BY <2>2 DEF TakeNode, flagVars
    <3>2. \A q \in Passes : \A j \in jobs'[q] : j \in jobs[q] \/ j.step = "ask"
      BY <2>2 DEF TakeNode
    <3>3. \A q \in Passes : Judges(q, n)' => Judges(q, n)
      BY <3>2 DEF Judges
    <3>4. \A q \in Passes : Inserting(n) \in jobs'[q] => Inserting(n) \in jobs[q]
      BY <3>2 DEF Inserting
    <3> QED BY <1>0, <3>1, <3>3, <3>4, AloneFrame
  <2>3. ASSUME NEW j \in jobs[p], JobStep(p, j)
        PROVE  Alone(n)'
    <3>0. j \in Jobs /\ j.node \in Nodes
      BY DEF Jobs
    <3>a. /\ [j EXCEPT !.step = "look"].node = j.node
          /\ [j EXCEPT !.step = "look"].step = "look"
          /\ [j EXCEPT !.step = "insert"].node = j.node
          /\ [j EXCEPT !.step = "insert"].step = "insert"
      BY <3>0 DEF Jobs
    <3>b. \A q \in Passes : q # p => jobs'[q] = jobs[q]
      BY <2>3 DEF JobStep, NodeAnswers, LookForFlag, InsertFlag, Ends, Proceeds
    <3>1. CASE NodeAnswers(p, j)
      <4>1. flags' = flags /\ (n \in rivals => n \in rivals')
        BY <3>1 DEF NodeAnswers
      <4>2. \A q \in Passes : Inserting(n) \in jobs'[q] => Inserting(n) \in jobs[q]
        BY <3>1, <3>a DEF NodeAnswers, Ends, Proceeds, Inserting
      <4>3. CASE Ends(p, j) \/ j.node # n
        <5>0. \A l \in jobs'[p] : l \in jobs[p] \/ l.node # n
          <6>1. CASE Ends(p, j)
            BY <6>1 DEF Ends
          <6>2. CASE Proceeds(p, j, "look") /\ j.node # n
            BY <3>a, <6>2 DEF Proceeds
          <6> QED BY <3>1, <4>3, <6>1, <6>2 DEF NodeAnswers
        <5>1. \A q \in Passes : Judges(q, n)' => Judges(q, n)
          BY <3>b, <5>0 DEF Judges
        <5> QED BY <1>0, <4>1, <4>2, <5>1, AloneFrame
      <4>4. CASE Proceeds(p, j, "look") /\ j.node = n
                 /\ rivals' = IF \E q \in Passes \ {p} : Judges(q, j.node)
                              THEN rivals \cup {j.node} ELSE rivals
        <5>1. ASSUME n \notin rivals'
              PROVE  \A q \in Passes : q # p => ~Judges(q, n)'
          BY <3>b, <4>4, <5>1 DEF Judges
        <5> QED BY <1>0, <4>1, <4>2, <5>1 DEF Alone, Inserting
      <4> QED BY <3>1, <4>3, <4>4 DEF NodeAnswers
    <3>2. CASE LookForFlag(p, j)
      <4>1. flags' = flags /\ rivals' = rivals
        BY <3>2 DEF LookForFlag, flagVars
      <4>2. \A q \in Passes : Judges(q, n)' => Judges(q, n)
        BY <3>2, <3>a DEF LookForFlag, Ends, Proceeds, Judges
      <4>3. \A q \in Passes : Inserting(n) \in jobs'[q] =>
               Inserting(n) \in jobs[q] \/ flags[n] = 0
        BY <3>0, <3>2, <3>a DEF LookForFlag, Ends, Proceeds, Inserting
      <4> QED BY <1>0, <4>1, <4>2, <4>3 DEF Alone, Inserting
    <3>3. CASE InsertFlag(p, j)
      <4>1. /\ rivals' = rivals /\ jobs'[p] = jobs[p] \ {j} /\ j.step = "insert"
            /\ flags'[n] \in {flags[n], IF j.node = n THEN flags[n] + 1
                                        ELSE flags[n]}
        BY <3>0, <3>3 DEF InsertFlag, Ends
      <4>2. \A q \in Passes : Judges(q, n)' => Judges(q, n)
        BY <3>b, <4>1 DEF Judges
      <4>3. \A q \in Passes : Inserting(n) \in jobs'[q] => Inserting(n) \in jobs[q]
        BY <3>b, <4>1
      <4>4. CASE j.node # n
        BY <1>0, <4>1, <4>2, <4>3, <4>4, AloneFrame
      <4>5. CASE j.node = n
        <5>1. j = Inserting(n) /\ Judges(p, n)
          BY <3>0, <4>1, <4>5 DEF Jobs, Inserting, Judges
        <5> SUFFICES ASSUME n \notin rivals'
                     PROVE  /\ flags'[n] <= 1
                            /\ \A q \in Passes : Inserting(n) \notin jobs'[q]
          BY <1>0, <4>1, <4>2 DEF Alone, Inserting
        <5>2. flags[n] = 0
          BY <1>0, <4>1, <5>1 DEF Alone, Inserting
        <5>3. ASSUME NEW q \in Passes, Inserting(n) \in jobs'[q]
              PROVE  FALSE
          <6>1. Judges(q, n)
            BY <4>3, <5>3 DEF Judges, Inserting
          <6>2. q = p
            BY <1>0, <4>1, <5>1, <6>1 DEF Alone
          <6> QED BY <4>1, <5>1, <5>3, <6>2
        <5> QED BY <4>1, <5>2, <5>3
      <4> QED BY <4>4, <4>5
    <3> QED BY <2>3, <3>1, <3>2, <3>3 DEF JobStep
  <2> QED BY <1>2, <2>1, <2>2, <2>3 DEF PassStep
<1>3. CASE DeadlinePasses
  BY <1>1, <1>3 DEF DeadlinePasses, flagVars
<1>4. CASE FleetStep
  <2>1. PICK m \in Nodes : FleetChanges(m) \/ AgentChanges(m) \/ SweeperNotes(m)
                           \/ WindowEnds(m) \/ FlagsSettle(m)
    BY <1>4 DEF FleetStep
  <2>2. CASE FleetChanges(m) \/ AgentChanges(m) \/ SweeperNotes(m) \/ WindowEnds(m)
    BY <1>1, <2>2
       DEF FleetChanges, AgentChanges, SweeperNotes, WindowEnds, passVars, flagVars
  <2>3. CASE FlagsSettle(m)
    <3>1. jobs' = jobs /\ \A q \in Passes : Judges(q, n)' <=> Judges(q, n)
      BY <2>3 DEF FlagsSettle, passVars, Judges
    <3>2. CASE m = n
      <4>1. flags'[n] = 0
        BY <2>3, <3>2 DEF FlagsSettle
      <4>2. n \notin rivals' => n \notin rivals \/ \A q \in Passes : ~Judges(q, n)
        BY <2>3, <3>2 DEF FlagsSettle
      <4> QED BY <1>0, <3>1, <4>1, <4>2 DEF Alone, Inserting
    <3>3. CASE m # n
      <4>1. flags'[n] = flags[n] /\ (n \in rivals => n \in rivals')
        BY <2>3, <3>3 DEF FlagsSettle
      <4> QED BY <1>0, <3>1, <4>1, AloneFrame
    <3> QED BY <3>2, <3>3
  <2> QED BY <2>1, <2>2, <2>3
<1> QED BY <1>2, <1>3, <1>4, NextCases

-----------------------------------------------------------------------------
(* The theorems.                                                           *)

\* The invariant holds at first.
LEMMA InitInv ==
    ASSUME Init
    PROVE  Inv
<1>1. Typed
  BY NoPassTyped, WatcherAssumption DEF Init, Typed
<1>2. ASSUME NEW p \in Passes
      PROVE  PassInv(p)
  <2>1. pass[p] = NoPass /\ jobs[p] = {}
    BY DEF Init
  <2>2. /\ NoPass.pc = "idle" /\ NoPass.work = <<>> /\ NoPass.next = 0
        /\ NoPass.counted = 0 /\ NoPass.deferred = FALSE
    BY DEF NoPass
  <2>3. Queued(p) /\ Fresh(p)
    BY <2>1, <2>2 DEF Queued, Fresh, NoRepeats
  <2>4. Manned(p) /\ Account(p)
    <3>1. IsFiniteSet(jobs[p]) /\ Cardinality(jobs[p]) = 0
          /\ Cardinality(Asking(p)) = 0
      BY <2>1, NoAsking
    <3>2. pass[p].counted = 0 /\ pass[p].next = 0 /\ pass[p].deferred = FALSE
      BY <2>1, <2>2
    <3> QED BY <3>1, <3>2, WatcherAssumption DEF Manned, Account
  <2> QED BY <2>3, <2>4 DEF PassInv
<1>3. \A n \in Nodes : Alone(n)
  BY DEF Init, Alone, Judges
<1> QED BY <1>1, <1>2, <1>3 DEF Inv

\* Every step keeps it.
LEMMA NextInv ==
    ASSUME Inv, [Next]_vars
    PROVE  Inv'
<1>1. CASE Next
  BY <1>1, StepTyped, StepPasses, StepFlags DEF Inv
<1>2. CASE UNCHANGED vars
  <2>1. Typed'
    BY <1>2 DEF Inv, Typed, vars, passVars, flagVars, fleetVars
  <2>2. \A p \in Passes : PassInv(p)'
    BY <1>2, PassFrame DEF Inv, vars, passVars
  <2>3. \A n \in Nodes : Alone(n)'
    BY <1>2, AloneFrame DEF Inv, vars, passVars, flagVars, Judges
  <2> QED BY <2>1, <2>2, <2>3 DEF Inv
<1> QED BY <1>1, <1>2

\* It holds always.
LEMMA SpecInv == Spec => []Inv
BY InitInv, NextInv, PTL DEF Spec

\* The queue is never left behind its end, and a pass has no worker too many
\* and none when it does not work: startWatcher's and runWithBudget's loops.
THEOREM WatcherTypeCorrect == Spec => []TypeOK
<1>1. Inv => TypeOK
  BY DEF Inv, Typed, PassInv, Queued, Fresh, Manned, TypeOK
<1> QED BY <1>1, SpecInv, PTL

\* Every node of a pass is accounted for, however many workers, nodes and
\* passes there are and whenever it gives up (SweepResult).
THEOREM NumbersAddUp == Spec => []EveryNodeCounted
<1>1. Inv => EveryNodeCounted
  BY DEF Inv, PassInv, Account, EveryNodeCounted
<1> QED BY <1>1, SpecInv, PTL

\* Two unreviewed flags of one server come from two passes that judged it at
\* once, and from nothing else (hasRecentUnreviewedFlag, recordFlag).
THEOREM FlaggedOnce == Spec => []FlagsOnce
<1>1. Inv => FlagsOnce
  <2> SUFFICES ASSUME Inv, NEW n \in Nodes, flags[n] > 1
               PROVE  n \in rivals
    BY DEF FlagsOnce
  <2>1. flags[n] \in Nat /\ Alone(n)
    BY DEF Inv, Typed
  <2> QED BY <2>1 DEF Alone
<1> QED BY <1>1, SpecInv, PTL
=============================================================================

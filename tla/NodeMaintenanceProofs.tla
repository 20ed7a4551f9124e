------------------------ MODULE NodeMaintenanceProofs ------------------------
(***************************************************************************)
(* NodeMaintenance implements NodeDrain, whatever work there is and however *)
(* many toggles, calls and crashes happen.                                 *)
(*                                                                         *)
(* The refinement maps "drained" to a history variable, so it holds only    *)
(* with an invariant of the agent: a drain that was acknowledged keeps the  *)
(* latch closed and the node empty (SettledHolds), because the launches     *)
(* were over before the containers were listed (DrainEmpties), because the  *)
(* call at the head of the chain holds the latch (DrainClosed), and because *)
(* a restart finds the latch it left (MarkerDurable).                       *)
(***************************************************************************)
EXTENDS NodeMaintenance, SequenceTheorems, TLAPS

\* The types of what the agent keeps.
AgentTypeOK ==
    /\ enabled \in BOOLEAN /\ marker \in BOOLEAN /\ settled \in BOOLEAN
    /\ calls \in Seq(Calls)
    /\ drain \in DrainStates
    /\ work \in [Works -> WorkStates]
    /\ running \subseteq Works

\* The marker on disk says what the latch says, so a crash changes neither.
MarkerDurable == marker = enabled

\* A drain under way belongs to the call at the head and keeps the latch shut.
DrainClosed ==
    drain.phase # "off" => enabled /\ calls # <<>> /\ Head(calls).on

\* Once the containers are listed no launch is left that could add one, and
\* whatever runs is listed or was not stoppable.
DrainEmpties ==
    drain.phase = "stop" =>
        /\ Launching = {}
        /\ ~drain.failed => running \subseteq drain.left

\* An acknowledged drain holds.
SettledHolds == settled => enabled /\ Launching = {} /\ running = {}

AgentInv ==
    /\ AgentTypeOK
    /\ MarkerDurable
    /\ DrainClosed
    /\ DrainEmpties
    /\ SettledHolds

-----------------------------------------------------------------------------
(* Lemmas about the operators.                                             *)

\* Giving up on the answers keeps the calls, and the one at the head.
LEMMA ForgetKeeps ==
    ASSUME NEW cs \in Seq(Calls)
    PROVE  /\ Forget(cs) \in Seq(Calls)
           /\ cs # <<>> => Forget(cs) # <<>> /\ Head(Forget(cs)).on = Head(cs).on
<1>1. \A i \in DOMAIN cs : [cs[i] EXCEPT !.awaited = FALSE] \in Calls
  <2>1. \A i \in DOMAIN cs : cs[i] \in Calls
    BY LenProperties
  <2>2. \A c \in Calls : [c EXCEPT !.awaited = FALSE] \in Calls
    BY DEF Calls
  <2> QED BY <2>1, <2>2
<1>2. Forget(cs) = [i \in 1..Len(cs) |-> [cs[i] EXCEPT !.awaited = FALSE]]
  <2>1. DOMAIN cs = 1..Len(cs)
    BY LenProperties
  <2> QED BY <2>1, Zenon DEF Forget
<1>3. Forget(cs) \in Seq(Calls) /\ Len(Forget(cs)) = Len(cs)
  <2>1. Len(cs) \in Nat /\ DOMAIN cs = 1..Len(cs)
    BY LenProperties
  <2>2. Forget(cs) \in [1..Len(cs) -> Calls]
    BY <1>1, <1>2, <2>1
  <2>3. Forget(cs) \in Seq(Calls)
    BY <2>1, <2>2, SeqDef, Zenon
  <2> QED BY <2>1, <2>2, <2>3, LenProperties
<1>4. ASSUME cs # <<>>
      PROVE  Forget(cs) # <<>> /\ Head(Forget(cs)).on = Head(cs).on
  <2>1. Len(cs) > 0 /\ 1 \in 1..Len(cs)
    BY <1>4
  <2>2. Forget(cs)[1] = [cs[1] EXCEPT !.awaited = FALSE] /\ cs[1] \in Calls
    BY <1>2, <2>1
  <2> QED BY <1>3, <2>1, <2>2 DEF Calls
<1> QED BY <1>3, <1>4

\* A call that joins the chain does not take the head's place.
LEMMA AppendKeeps ==
    ASSUME NEW cs \in Seq(Calls), NEW c \in Calls
    PROVE  /\ Append(cs, c) \in Seq(Calls)
           /\ cs # <<>> => Append(cs, c) # <<>> /\ Head(Append(cs, c)) = Head(cs)
OBVIOUS

\* Work that moves joins or leaves the launches.
LEMMA LaunchingMoves ==
    ASSUME work \in [Works -> WorkStates], NEW w \in Works, NEW r,
           work' = [work EXCEPT ![w] = r]
    PROVE  Launching' = IF r.pc \in {"starting", "check", "undo"}
                        THEN Launching \cup {w} ELSE Launching \ {w}
BY DEF Launching

\* ... by where it moves to.
LEMMA LaunchingFollows ==
    ASSUME work \in [Works -> WorkStates], NEW w \in Works,
           NEW to \in WorkPCs, Moves(w, to)
    PROVE  Launching' = IF to \in {"starting", "check", "undo"}
                        THEN Launching \cup {w} ELSE Launching \ {w}
<1>1. [work[w] EXCEPT !.pc = to].pc = to
  BY DEF WorkStates
<1>2. work' = [work EXCEPT ![w] = [work[w] EXCEPT !.pc = to]]
  BY DEF Moves
<1> QED BY <1>1, <1>2, LaunchingMoves

\* Nothing else adds or ends one.
LEMMA LaunchingSame ==
    ASSUME UNCHANGED work
    PROVE  Launching' = Launching
BY DEF Launching


-----------------------------------------------------------------------------
(* AgentInv is inductive.                                                  *)

\* The node starts open, with nothing on it.
LEMMA InitInv == Init => AgentInv
<1> SUFFICES ASSUME Init PROVE AgentInv
  OBVIOUS
<1>1. NoWork \in WorkStates /\ NoDrain \in DrainStates
  BY DEF NoWork, WorkStates, WorkPCs, NoDrain, DrainStates
<1>2. AgentTypeOK
  BY <1>1, EmptySeq DEF Init, AgentTypeOK
<1> QED
  BY <1>2 DEF Init, AgentInv, MarkerDurable, DrainClosed, DrainEmpties,
     SettledHolds, NoDrain

\* A step that leaves the agent, the work and the containers alone.
LEMMA QuietKeeps ==
    ASSUME AgentInv, UNCHANGED <<agentVars, work, running>>
    PROVE  AgentInv'
BY DEF AgentInv, AgentTypeOK, MarkerDurable, DrainClosed, DrainEmpties,
   SettledHolds, Launching, agentVars

\* A step that only touches the chain, and not the call at its head.
LEMMA ChainKeeps ==
    ASSUME AgentInv,
           UNCHANGED <<enabled, marker, drain, settled, Launching, running>>,
           work' \in [Works -> WorkStates],
           calls' \in Seq(Calls),
           calls # <<>> => calls' # <<>> /\ Head(calls').on = Head(calls).on
    PROVE  AgentInv'
BY DEF AgentInv, AgentTypeOK, MarkerDurable, DrainClosed, DrainEmpties,
   SettledHolds

\* A step of the work that closes no drain: it adds a launch only while the
\* latch is open, and a container only where a launch was.
LEMMA WorkKeeps ==
    ASSUME AgentInv, UNCHANGED agentVars,
           work' \in [Works -> WorkStates],
           running' \subseteq Works,
           Launching' \subseteq Launching \/ ~enabled,
           running' \subseteq running \/ Launching # {}
    PROVE  AgentInv'
<1>1. AgentTypeOK' /\ MarkerDurable' /\ DrainClosed'
  BY DEF AgentInv, AgentTypeOK, MarkerDurable, DrainClosed, agentVars
<1>2. DrainEmpties' /\ SettledHolds'
  <2>1. CASE ~enabled
    BY <2>1 DEF AgentInv, DrainClosed, DrainEmpties, SettledHolds, agentVars,
       AgentTypeOK, DrainStates
  <2>2. CASE Launching' \subseteq Launching /\ Launching # {}
    BY <2>2 DEF AgentInv, DrainEmpties, SettledHolds, agentVars
  <2>3. CASE Launching' \subseteq Launching /\ running' \subseteq running
    BY <2>3 DEF AgentInv, DrainEmpties, SettledHolds, agentVars
  <2> QED BY <2>1, <2>2, <2>3
<1> QED BY <1>1, <1>2 DEF AgentInv

\* The panel's queue and the operations it runs.
LEMMA PanelKeeps ==
    ASSUME AgentInv,
           \/ \E op \in Operations : Toggle(op)
           \/ SweepReconciles \/ PanelStep \/ NodeErrs \/ PanelRestarts
    PROVE  AgentInv'
<1>1. ASSUME NEW op \in Operations, Toggle(op) PROVE AgentInv'
  BY <1>1, QuietKeeps DEF Toggle
<1>2. CASE SweepReconciles
  BY <1>2, QuietKeeps DEF SweepReconciles
<1>3. CASE Begin \/ Ask \/ ProbeAndCancel \/ RecordStopped \/ Advertise
  BY <1>3, QuietKeeps DEF Begin, Ask, ProbeAndCancel, RecordStopped, Advertise
<1>4. CASE Post
  <2>1. \A on \in BOOLEAN :
          [on |-> on, boot |-> FALSE, awaited |-> TRUE] \in Calls
    BY DEF Calls
  <2>2. (pc = "post") \in BOOLEAN
    OBVIOUS
  <2>3. PICK c \in Calls : calls' = Append(calls, c)
    BY <1>4, <2>1, <2>2 DEF Post
  <2>4. UNCHANGED <<enabled, marker, drain, settled, work, running>>
    BY <1>4 DEF Post
  <2> QED
    BY <2>3, <2>4, AppendKeeps, LaunchingSame, ChainKeeps
       DEF AgentInv, AgentTypeOK
<1>5. CASE NodeErrs
  BY <1>5, ForgetKeeps, LaunchingSame, ChainKeeps
     DEF NodeErrs, AgentInv, AgentTypeOK
<1>6. CASE PanelRestarts
  <2>1. \A w \in Works : [work[w] EXCEPT !.waiting = FALSE] \in WorkStates
    BY DEF AgentInv, AgentTypeOK, WorkStates
  <2>2. work' \in [Works -> WorkStates]
    BY <1>6, <2>1 DEF PanelRestarts
  <2>3. \A w \in Works : work'[w].pc = work[w].pc
    BY <1>6 DEF PanelRestarts, AgentInv, AgentTypeOK, WorkStates
  <2>4. Launching' = Launching
    BY <2>3 DEF Launching
  <2> QED
    BY <1>6, <2>2, <2>4, ForgetKeeps, ChainKeeps
       DEF PanelRestarts, AgentInv, AgentTypeOK
<1> QED BY <1>1, <1>2, <1>3, <1>4, <1>5, <1>6 DEF PanelStep

\* The agent's chain of calls.
LEMMA AgentKeeps ==
    ASSUME AgentInv,
           \/ AgentStep \/ ListFails
           \/ \E w \in Works : StopOne(w, FALSE)
    PROVE  AgentInv'
<1>1. ASSUME calls # <<>> PROVE Tail(calls) \in Seq(Calls)
  BY <1>1, HeadTailProperties DEF AgentInv, AgentTypeOK
<1>2. NoDrain \in DrainStates
  BY DEF NoDrain, DrainStates
<1>3. CASE Leave
  <2>1. Launching' = Launching
    BY <1>3, LaunchingSame DEF Leave
  <2>2. drain.phase = "off"
    BY <1>3 DEF Leave, AgentInv, DrainClosed
  <2> QED
    BY <1>1, <1>3, <2>1, <2>2
       DEF Leave, Answers, AgentInv, AgentTypeOK, MarkerDurable, DrainClosed,
           DrainEmpties, SettledHolds
<1>4. CASE Enter
  <2>1. \A w \in Works : [work[w] EXCEPT !.current = FALSE] \in WorkStates
    BY DEF AgentInv, AgentTypeOK, WorkStates
  <2>2. work' \in [Works -> WorkStates]
    BY <1>4, <2>1 DEF Enter, AgentInv, AgentTypeOK
  <2>3. \A w \in Works : work'[w].pc = work[w].pc
    BY <1>4 DEF Enter, AgentInv, AgentTypeOK, WorkStates
  <2>4. Launching' = Launching
    BY <2>3 DEF Launching
  <2>5. drain' \in DrainStates /\ drain'.phase = "settle"
    BY <1>4 DEF Enter, NoDrain, DrainStates
  <2> QED
    BY <1>4, <2>2, <2>4, <2>5
       DEF Enter, AgentInv, AgentTypeOK, MarkerDurable, DrainClosed,
           DrainEmpties, SettledHolds
<1>5. CASE Settle
  <2>1. Launching' = Launching
    BY <1>5, LaunchingSame DEF Settle
  <2>2. /\ drain' \in DrainStates
        /\ drain'.phase = "stop" /\ drain'.left = running
    BY <1>5 DEF Settle, AgentInv, AgentTypeOK, DrainStates
  <2> QED
    BY <1>5, <2>1, <2>2
       DEF Settle, AgentInv, AgentTypeOK, MarkerDurable, DrainClosed,
           DrainEmpties, SettledHolds
<1>6. ASSUME NEW w \in Works, NEW ok \in BOOLEAN, StopOne(w, ok)
      PROVE  AgentInv'
  <2>1. Launching' = Launching
    BY <1>6, LaunchingSame DEF StopOne
  <2>2. /\ drain' \in DrainStates
        /\ drain'.phase = "stop"
        /\ drain'.left = drain.left \ {w}
        /\ drain'.failed = (drain.failed \/ ~ok)
    BY <1>6 DEF StopOne, AgentInv, AgentTypeOK, DrainStates
  <2>3. running' \subseteq running /\ (ok => running' = running \ {w})
    BY <1>6 DEF StopOne
  <2> QED
    BY <1>6, <2>1, <2>2, <2>3
       DEF StopOne, AgentInv, AgentTypeOK, MarkerDurable, DrainClosed,
           DrainEmpties, SettledHolds
<1>7. CASE Finish
  <2>1. Launching' = Launching
    BY <1>7, LaunchingSame DEF Finish
  <2>2. calls # <<>> /\ enabled
    BY <1>7 DEF Finish, AgentInv, DrainClosed
  <2>3. settled' => Launching = {} /\ running = {}
    BY <1>7 DEF Finish, AgentInv, DrainEmpties, SettledHolds
  <2>4. settled' \in BOOLEAN
    BY <1>7 DEF Finish, AgentInv, AgentTypeOK, DrainStates
  <2> QED
    BY <1>1, <1>2, <1>7, <2>1, <2>2, <2>3, <2>4
       DEF Finish, Answers, NoDrain, AgentInv, AgentTypeOK, MarkerDurable,
           DrainClosed, DrainEmpties, SettledHolds
<1>8. CASE ListFails
  <2>1. Launching' = Launching
    BY <1>8, LaunchingSame DEF ListFails
  <2>2. calls # <<>>
    BY <1>8 DEF ListFails, AgentInv, DrainClosed
  <2> QED
    BY <1>1, <1>2, <1>8, <2>1, <2>2
       DEF ListFails, Answers, NoDrain, AgentInv, AgentTypeOK, MarkerDurable,
           DrainClosed, DrainEmpties, SettledHolds
<1>9. CASE BootDrain
  <2>1. [on |-> TRUE, boot |-> TRUE, awaited |-> FALSE] \in Calls
    BY DEF Calls
  <2>2. /\ calls' \in Seq(Calls)
        /\ calls # <<>> => calls' # <<>> /\ Head(calls').on = Head(calls).on
    BY <1>9, <2>1, AppendKeeps DEF BootDrain, AgentInv, AgentTypeOK
  <2>3. UNCHANGED <<enabled, marker, drain, settled, work, running>>
    BY <1>9 DEF BootDrain
  <2> QED
    BY <2>2, <2>3, LaunchingSame, ChainKeeps DEF AgentInv, AgentTypeOK
<1> QED
  BY <1>3, <1>4, <1>5, <1>6, <1>7, <1>8, <1>9 DEF AgentStep

\* The work that may be launching meanwhile.
LEMMA WorkStepKeeps ==
    ASSUME AgentInv, NEW w \in Works,
           \/ Send(w) \/ WorkStep(w) \/ WatchFails(w) \/ WatchEnds(w)
           \/ Exits(w)
    PROVE  AgentInv'
<1>0. work \in [Works -> WorkStates] /\ running \subseteq Works
  BY DEF AgentInv, AgentTypeOK
<1>1. ASSUME NEW r \in WorkStates, work' = [work EXCEPT ![w] = r]
      PROVE  /\ work' \in [Works -> WorkStates]
             /\ Launching' = IF r.pc \in {"starting", "check", "undo"}
                             THEN Launching \cup {w} ELSE Launching \ {w}
  BY <1>0, <1>1, LaunchingMoves
<1>2. \A pc1 \in WorkPCs : [work[w] EXCEPT !.pc = pc1] \in WorkStates
  BY <1>0 DEF WorkStates
<1>3. NoWork \in WorkStates
  BY DEF NoWork, WorkStates, WorkPCs
<1>4. CASE Send(w)
  <2>1. [NoWork EXCEPT !.pc = "sent", !.waiting = TRUE] \in WorkStates
    BY DEF NoWork, WorkStates, WorkPCs
  <2>2. Launching' = Launching \ {w} /\ work' \in [Works -> WorkStates]
    BY <1>1, <1>4, <2>1 DEF Send, NoWork
  <2> QED BY <1>0, <1>4, <2>2, WorkKeeps DEF Send
<1>5. CASE Accept(w)
  <2>1. [work[w] EXCEPT !.pc = "pull", !.current = TRUE] \in WorkStates
    BY <1>0 DEF WorkStates, WorkPCs
  <2>2. work' \in [Works -> WorkStates]
    BY <1>1, <1>5, <2>1 DEF Accept
  <2> QED BY <1>0, <1>5, <2>2, WorkKeeps DEF Accept
<1>6. CASE Refuse(w)
  <2>1. Launching' = Launching \ {w} /\ work' \in [Works -> WorkStates]
    BY <1>1, <1>3, <1>6 DEF Refuse, NoWork
  <2> QED BY <1>0, <1>6, <2>1, WorkKeeps DEF Refuse
<1>7. CASE Launch(w)
  <2>1. work' \in [Works -> WorkStates]
    BY <1>1, <1>2, <1>7 DEF Launch, Moves, WorkPCs
  <2> QED BY <1>0, <1>7, <2>1, WorkKeeps DEF Launch
<1>8. CASE DockerStarts(w)
  <2>1. w \in Launching
    BY <1>8 DEF DockerStarts, Launching
  <2>2. [work[w] EXCEPT !.pc = "check"] \in WorkStates
    BY <1>2 DEF WorkPCs
  <2>3. Launching' = Launching \cup {w} /\ work' \in [Works -> WorkStates]
    BY <1>0, <1>1, <1>8, <2>2 DEF DockerStarts, Moves, WorkStates
  <2> QED BY <1>0, <1>8, <2>1, <2>3, WorkKeeps DEF DockerStarts
<1>9. CASE CheckLaunch(w)
  <2>1. w \in Launching
    BY <1>9 DEF CheckLaunch, Launching
  <2>2. \A pc1 \in {"undo", "done"} :
          /\ [work[w] EXCEPT !.pc = pc1] \in WorkStates
          /\ [work[w] EXCEPT !.pc = pc1].pc = pc1
    BY <1>0 DEF WorkStates, WorkPCs
  <2>3. PICK pc1 \in {"undo", "done"} :
          work' = [work EXCEPT ![w] = [work[w] EXCEPT !.pc = pc1]]
    BY <1>0, <1>9 DEF CheckLaunch, Moves
  <2>4. Launching' \subseteq Launching /\ work' \in [Works -> WorkStates]
    BY <1>1, <2>1, <2>2, <2>3
  <2> QED BY <1>0, <1>9, <2>4, WorkKeeps DEF CheckLaunch
<1>10. ASSUME NEW ok \in BOOLEAN, UndoLaunch(w, ok) PROVE AgentInv'
  <2>1. Launching' = Launching \ {w} /\ work' \in [Works -> WorkStates]
    BY <1>1, <1>3, <1>10 DEF UndoLaunch, NoWork
  <2>2. running' \subseteq running
    BY <1>10 DEF UndoLaunch
  <2> QED BY <1>0, <1>10, <2>1, <2>2, WorkKeeps DEF UndoLaunch
<1>11. CASE Reply(w)
  <2>1. Launching' = Launching \ {w} /\ work' \in [Works -> WorkStates]
    BY <1>1, <1>3, <1>11 DEF Reply, NoWork
  <2> QED BY <1>0, <1>11, <2>1, WorkKeeps DEF Reply
<1>12. CASE WatchFails(w) \/ WatchEnds(w)
  BY <1>12, QuietKeeps DEF WatchFails, WatchEnds
<1>13. CASE Exits(w)
  BY <1>0, <1>13, LaunchingSame, WorkKeeps DEF Exits
<1> QED
  BY <1>4, <1>5, <1>6, <1>7, <1>8, <1>9, <1>10, <1>11, <1>12, <1>13
     DEF WorkStep

\* The agent's restart reads the latch from the marker.
LEMMA RestartKeeps ==
    ASSUME AgentInv, AgentRestarts
    PROVE  AgentInv'
<1>1. NoWork \in WorkStates /\ NoDrain \in DrainStates
  BY DEF NoWork, WorkStates, WorkPCs, NoDrain, DrainStates
<1>2. Launching' = {}
  BY DEF AgentRestarts, Launching, NoWork
<1>3. running' \subseteq running \cup Launching
  BY DEF AgentRestarts
<1>4. AgentTypeOK'
  BY <1>1, <1>3 DEF AgentRestarts, AgentInv, AgentTypeOK, Launching
<1> QED
  BY <1>2, <1>3, <1>4
     DEF AgentRestarts, NoDrain, AgentInv, MarkerDurable, DrainClosed,
         DrainEmpties, SettledHolds

\* No step breaks the agent's invariant.
LEMMA NextInv == AgentInv /\ [Next]_vars => AgentInv'
<1>1. AgentInv /\ UNCHANGED vars => AgentInv'
  BY QuietKeeps DEF vars, agentVars
<1> QED
  BY <1>1, PanelKeeps, AgentKeeps, WorkStepKeeps, RestartKeeps DEF Next

\* A drain the agent acknowledged holds until the next activation: no launch,
\* time-out, failed stop or crash of either side puts a container on the node.
THEOREM DrainHolds == Spec => []AgentInv
BY InitInv, NextInv, PTL DEF Spec

-----------------------------------------------------------------------------
(* NodeMaintenance implements NodeDrain.                                   *)

\* The node starts open.
LEMMA InitDrained == Init => Drained!Init
<1>1. Init => Launching = {}
  BY DEF Init, Launching, NoWork
<1> QED BY <1>1 DEF Init, Drained!Init

\* What the panel and the agent keep is open, draining or drained.
LEMMA NodeSame ==
    ASSUME UNCHANGED <<enabled, settled>>
    PROVE  UNCHANGED (IF settled THEN "drained"
                      ELSE IF enabled THEN "draining" ELSE "open")
OBVIOUS

\* A step NodeDrain does not see.
LEMMA Unseen ==
    ASSUME UNCHANGED <<enabled, settled, running, Launching>>
    PROVE  UNCHANGED Drained!vars
BY DEF Drained!vars

\* The panel's queue, its operations and its crash move nothing on the node.
LEMMA PanelUnseen ==
    ASSUME AgentInv,
           \/ \E op \in Operations : Toggle(op)
           \/ SweepReconciles \/ PanelStep \/ NodeErrs \/ PanelRestarts
    PROVE  UNCHANGED Drained!vars
<1>1. UNCHANGED <<enabled, settled, running>>
  BY DEF Toggle, SweepReconciles, PanelStep, Begin, Ask, ProbeAndCancel, Post,
     RecordStopped, Advertise, NodeErrs, PanelRestarts, agentVars
<1>2. CASE PanelRestarts
  <2>1. \A w \in Works : work'[w].pc = work[w].pc
    BY <1>2 DEF PanelRestarts, AgentInv, AgentTypeOK, WorkStates
  <2>2. Launching' = Launching
    BY <2>1 DEF Launching
  <2> QED BY <1>1, <2>2, Unseen
<1>3. CASE ~PanelRestarts
  <2>1. UNCHANGED work
    BY <1>3 DEF Toggle, SweepReconciles, PanelStep, Begin, Ask,
       ProbeAndCancel, Post, RecordStopped, Advertise, NodeErrs
  <2> QED BY <1>1, <2>1, LaunchingSame, Unseen
<1> QED BY <1>2, <1>3

\* The agent's chain closes, drains and opens the node.
LEMMA AgentImplements ==
    ASSUME AgentInv,
           \/ AgentStep \/ ListFails
           \/ \E w \in Works : StopOne(w, FALSE)
    PROVE  [Drained!Next]_Drained!vars
<1>1. CASE Leave
  <2>1. Launching' = Launching
    BY <1>1, LaunchingSame DEF Leave
  <2> QED BY <1>1, <2>1 DEF Leave, Drained!Open, Drained!Next
<1>2. CASE Enter
  <2>1. \A w \in Works : work'[w].pc = work[w].pc
    BY <1>2 DEF Enter, AgentInv, AgentTypeOK, WorkStates
  <2>2. Launching' = Launching
    BY <2>1 DEF Launching
  <2>3. CASE enabled
    BY <1>2, <2>2, <2>3, Unseen DEF Enter
  <2>4. CASE ~enabled
    <3>1. Drained!Close
      BY <1>2, <2>2, <2>4 DEF Enter, AgentInv, SettledHolds, Drained!Close
    <3> QED BY <3>1 DEF Drained!Next
  <2> QED BY <2>3, <2>4
<1>3. CASE Settle \/ ListFails \/ BootDrain
  BY <1>3, LaunchingSame, Unseen DEF Settle, ListFails, BootDrain
<1>4. ASSUME NEW w \in Works, NEW ok \in BOOLEAN, StopOne(w, ok)
      PROVE  [Drained!Next]_Drained!vars
  <2>1. UNCHANGED <<enabled, settled, Launching>>
    BY <1>4, LaunchingSame DEF StopOne
  <2>2. CASE ok
    <3>1. running' = running \ {w}
      BY <1>4, <2>2 DEF StopOne
    <3>2. Drained!Stops(w)
      BY <2>1, <3>1, NodeSame DEF Drained!Stops
    <3> QED BY <3>2 DEF Drained!Next
  <2>3. CASE ~ok
    BY <1>4, <2>1, <2>3, Unseen DEF StopOne
  <2> QED BY <2>2, <2>3
<1>5. CASE Finish
  <2>1. UNCHANGED <<enabled, running, Launching>>
    BY <1>5, LaunchingSame DEF Finish
  <2>2. CASE settled' = settled
    BY <2>1, <2>2, Unseen
  <2>3. CASE settled' # settled
    <3>1. ~settled /\ settled' /\ ~drain.failed
      BY <1>5, <2>3 DEF Finish, AgentInv, AgentTypeOK, DrainStates
    <3>2. enabled /\ Launching = {} /\ running = {}
      BY <1>5, <3>1 DEF Finish, AgentInv, DrainClosed, DrainEmpties
    <3>3. Drained!Drained
      BY <2>1, <3>1, <3>2 DEF Drained!Drained
    <3> QED BY <3>3 DEF Drained!Next
  <2> QED BY <2>2, <2>3
<1> QED BY <1>1, <1>2, <1>3, <1>4, <1>5 DEF AgentStep

\* The work launches on an open node only.
LEMMA WorkImplements ==
    ASSUME AgentInv, NEW w \in Works,
           \/ Send(w) \/ WorkStep(w) \/ WatchFails(w) \/ WatchEnds(w)
           \/ Exits(w)
    PROVE  [Drained!Next]_Drained!vars
<1>1. UNCHANGED <<enabled, settled>>
  BY DEF Send, WorkStep, Accept, Refuse, Launch, DockerStarts, CheckLaunch,
     UndoLaunch, Reply, WatchFails, WatchEnds, Exits, agentVars
<1>2. work \in [Works -> WorkStates]
  BY DEF AgentInv, AgentTypeOK
<1>3. w \in Launching <=> work[w].pc \in {"starting", "check", "undo"}
  BY DEF Launching
<1>4. CASE Send(w) \/ Refuse(w) \/ Accept(w) \/ Reply(w)
  <2>1. UNCHANGED running
    BY <1>4 DEF Send, Refuse, Accept, Reply
  <2>2. PICK r \in {NoWork, [NoWork EXCEPT !.pc = "sent", !.waiting = TRUE],
                    [work[w] EXCEPT !.pc = "pull", !.current = TRUE]} :
          work' = [work EXCEPT ![w] = r]
    BY <1>2, <1>4 DEF Send, Refuse, Accept, Reply
  <2>3. r.pc \in {"idle", "sent", "pull"}
    <3>1. [work[w] EXCEPT !.pc = "pull", !.current = TRUE].pc = "pull"
      BY <1>2 DEF WorkStates
    <3>2. NoWork.pc = "idle"
      BY DEF NoWork
    <3>3. [NoWork EXCEPT !.pc = "sent", !.waiting = TRUE].pc = "sent"
      BY DEF NoWork
    <3> QED BY <3>1, <3>2, <3>3, Zenon
  <2>4. Launching' = Launching \ {w}
    BY <1>2, <2>2, <2>3, LaunchingMoves
  <2>5. w \notin Launching
    BY <1>3, <1>4 DEF Send, Refuse, Accept, Reply
  <2>6. Launching' = Launching
    BY <2>4, <2>5
  <2> QED BY <1>1, <2>1, <2>6, Unseen
<1>5. CASE WatchFails(w) \/ WatchEnds(w)
  BY <1>1, <1>5, LaunchingSame, Unseen DEF WatchFails, WatchEnds
<1>6. CASE Launch(w)
  <2>1. Launching' = Launching \cup {w}
    BY <1>2, <1>6, LaunchingFollows DEF Launch, WorkPCs
  <2>2. Drained!Launch(w)
    BY <1>1, <1>6, <2>1 DEF Launch, AgentInv, SettledHolds, Drained!Launch
  <2> QED BY <2>2 DEF Drained!Next
<1>7. CASE DockerStarts(w)
  <2>1. w \in Launching
    BY <1>3, <1>7 DEF DockerStarts
  <2>2. Launching' = Launching \cup {w}
    BY <1>2, <1>7, LaunchingFollows DEF DockerStarts, WorkPCs
  <2>3. Drained!ComesUp(w)
    BY <1>1, <1>7, <2>1, <2>2 DEF DockerStarts, Drained!ComesUp
  <2> QED BY <2>3 DEF Drained!Next
<1>8. CASE CheckLaunch(w)
  <2>1. w \in Launching
    BY <1>3, <1>8 DEF CheckLaunch
  <2>2. PICK to \in {"undo", "done"} : Moves(w, to)
    BY <1>8 DEF CheckLaunch
  <2>3. to \in WorkPCs
    BY DEF WorkPCs
  <2>4. Launching' = Launching \/ Launching' = Launching \ {w}
    BY <1>2, <2>1, <2>2, <2>3, LaunchingFollows
  <2>5. CASE Launching' = Launching
    BY <1>1, <1>8, <2>5, Unseen DEF CheckLaunch
  <2>6. CASE Launching' = Launching \ {w}
    <3>1. Drained!Settles(w)
      BY <1>1, <1>8, <2>6 DEF CheckLaunch, Drained!Settles
    <3> QED BY <3>1 DEF Drained!Next
  <2> QED BY <2>4, <2>5, <2>6
<1>9. ASSUME NEW ok \in BOOLEAN, UndoLaunch(w, ok)
      PROVE  [Drained!Next]_Drained!vars
  <2>1. Launching' = Launching \ {w}
    BY <1>2, <1>9, LaunchingMoves DEF UndoLaunch, NoWork
  <2>2. Drained!Settles(w)
    BY <1>1, <1>9, <2>1 DEF UndoLaunch, Drained!Settles
  <2> QED BY <2>2 DEF Drained!Next
<1>10. CASE Exits(w)
  <2>1. Drained!Stops(w)
    BY <1>1, <1>10, LaunchingSame DEF Exits, Drained!Stops
  <2> QED BY <2>1 DEF Drained!Next
<1> QED
  BY <1>4, <1>5, <1>6, <1>7, <1>8, <1>9, <1>10 DEF WorkStep

\* A restart of the agent finds the node as it left it.
LEMMA RestartImplements ==
    ASSUME AgentInv, AgentRestarts
    PROVE  Drained!AgentDies
<1>1. Launching' = {}
  BY DEF AgentRestarts, Launching, NoWork
<1>2. UNCHANGED <<enabled, settled>>
  BY DEF AgentRestarts, AgentInv, MarkerDurable
<1>3. \E up \in SUBSET Launching : running' = running \cup up
  BY DEF AgentRestarts
<1> QED BY <1>1, <1>2, <1>3, NodeSame DEF Drained!AgentDies

\* Every step of the panel, the agent, Docker and the crashes is one NodeDrain
\* allows, or one it does not see.
LEMMA NextDrained == AgentInv /\ [Next]_vars => [Drained!Next]_Drained!vars
<1>1. AgentInv /\ UNCHANGED vars => UNCHANGED Drained!vars
  BY LaunchingSame, Unseen DEF vars, agentVars
<1>2. AgentInv /\ AgentRestarts => Drained!Next
  BY RestartImplements DEF Drained!Next
<1> QED
  BY <1>1, <1>2, PanelUnseen, AgentImplements, WorkImplements DEF Next

\* Draining a node keeps the promise of docs/node-maintenance.md: nothing
\* launches once the latch is closed, and a drained node runs nothing until it
\* is activated.
THEOREM NodeImplementsDrain == Spec => ImplementsNodeDrain
<1>1. AgentInv /\ [Next]_vars => [Drained!Next]_Drained!vars
  BY NextDrained
<1> QED
  BY <1>1, InitDrained, DrainHolds, PTL DEF Spec, ImplementsNodeDrain,
     Drained!Spec

-----------------------------------------------------------------------------
(* The panel's side, and with it the type invariant.                       *)

PanelPCs == {"next", "ask", "enter", "post", "wait", "states", "leave",
             "waitLeave", "advertise"}

\* The types of what the panel keeps.
PanelTypeOK ==
    /\ active \in BOOLEAN
    /\ queue \in Seq(Operations)
    /\ pc \in PanelPCs
    /\ booting \in BOOLEAN
    /\ row \in [Works -> {"stopped", "starting", "running", "error"}]
    /\ watched \subseteq Works
    /\ toggles \in 0..MaxToggles
    /\ faults \in 0..MaxFaults

\* An operation under way is the head of the queue.
QueueHeld == pc # "next" => queue # <<>>

\* At most one call to the agent is awaited, by the operation under way.
OneAwaited ==
    \A i \in DOMAIN calls : calls[i].awaited =>
        /\ pc \in {"wait", "waitLeave"}
        /\ \A j \in DOMAIN calls : calls[j].awaited => j = i

PanelInv == PanelTypeOK /\ QueueHeld /\ OneAwaited

\* The operation at the head of the queue ends.
LEMMA EndsType ==
    ASSUME queue \in Seq(Operations), queue # <<>>, Ends
    PROVE  queue' \in Seq(Operations) /\ pc' = "next"
BY HeadTailProperties DEF Ends

\* Nobody waits for a call the panel gave up on.
LEMMA ForgetsAll ==
    ASSUME NEW cs \in Seq(Calls)
    PROVE  \A i \in DOMAIN Forget(cs) : ~Forget(cs)[i].awaited
<1>1. \A i \in DOMAIN cs : cs[i] \in Calls
  BY LenProperties
<1> QED BY <1>1 DEF Forget, Calls

\* An answered call leaves the chain, and whoever awaited it goes on.
LEMMA AnswersKeep ==
    ASSUME calls \in Seq(Calls), PanelInv, calls # <<>>,
           NEW ok, Answers(ok)
    PROVE  /\ queue' \in Seq(Operations)
           /\ pc' \in PanelPCs
           /\ QueueHeld'
           /\ OneAwaited'
<1>1. /\ DOMAIN calls = 1..Len(calls) /\ Len(calls) \in Nat /\ Len(calls) > 0
      /\ Head(calls) = calls[1]
      /\ DOMAIN Tail(calls) = 1..(Len(calls) - 1)
      /\ \A i \in 1..(Len(calls) - 1) : Tail(calls)[i] = calls[i + 1]
  OBVIOUS
<1>2. \A i \in DOMAIN calls' :
        i + 1 \in DOMAIN calls /\ calls'[i] = calls[i + 1] /\ i + 1 # 1
  BY <1>1 DEF Answers
<1>3. CASE ~Head(calls).awaited
  <2>1. UNCHANGED <<queue, pc>>
    BY <1>3 DEF Answers
  <2>2. \A i \in DOMAIN calls' : i \in Int
    BY <1>1 DEF Answers
  <2>3. OneAwaited'
    <3> SUFFICES ASSUME NEW i \in DOMAIN calls', calls'[i].awaited
                 PROVE  /\ pc \in {"wait", "waitLeave"}
                        /\ \A j \in DOMAIN calls' : calls'[j].awaited => j = i
      BY <2>1 DEF OneAwaited
    <3>1. i + 1 \in DOMAIN calls /\ calls[i + 1].awaited
      BY <1>2
    <3>2. \A j \in DOMAIN calls' :
            calls'[j].awaited => calls[j + 1].awaited /\ j + 1 \in DOMAIN calls
      BY <1>2
    <3>3. \A j \in DOMAIN calls' : calls'[j].awaited => j + 1 = i + 1
      BY <3>1, <3>2 DEF PanelInv, OneAwaited
    <3> QED BY <2>2, <3>1, <3>3 DEF PanelInv, OneAwaited
  <2> QED BY <2>1, <2>3 DEF PanelInv, PanelTypeOK, QueueHeld
<1>4. CASE Head(calls).awaited
  <2>1. 1 \in DOMAIN calls /\ calls[1].awaited
    BY <1>1, <1>4
  <2>2. pc # "next" /\ queue # <<>>
    BY <2>1 DEF PanelInv, OneAwaited, QueueHeld
  <2>3. \A i \in DOMAIN calls' : ~calls'[i].awaited
    BY <1>2, <2>1 DEF PanelInv, OneAwaited
  <2>4. CASE Ends
    BY <2>2, <2>3, <2>4, EndsType
       DEF PanelInv, PanelTypeOK, PanelPCs, QueueHeld, OneAwaited
  <2>5. CASE pc' \in {"states", "advertise"} /\ UNCHANGED queue
    BY <2>2, <2>3, <2>5
       DEF PanelInv, PanelTypeOK, PanelPCs, QueueHeld, OneAwaited
  <2> QED BY <1>4, <2>4, <2>5 DEF Answers
<1> QED BY <1>3, <1>4

\* The panel starts idle.
LEMMA InitPanel == Init => PanelInv
<1> SUFFICES ASSUME Init PROVE PanelInv
  OBVIOUS
<1>1. queue \in Seq(Operations)
  BY EmptySeq DEF Init
<1>2. toggles \in 0..MaxToggles /\ faults \in 0..MaxFaults
  BY MaintenanceAssumption DEF Init
<1>3. OneAwaited
  BY DEF Init, OneAwaited
<1> QED
  BY <1>1, <1>2, <1>3 DEF Init, PanelInv, PanelTypeOK, PanelPCs, QueueHeld

\* The panel's own steps.
LEMMA PanelStepKeeps ==
    ASSUME AgentTypeOK, PanelInv,
           \/ \E op \in Operations : Toggle(op)
           \/ SweepReconciles \/ PanelStep \/ NodeErrs \/ PanelRestarts
    PROVE  PanelInv'
<1>0. /\ calls \in Seq(Calls) /\ PanelTypeOK /\ QueueHeld /\ OneAwaited
      /\ DOMAIN calls = 1..Len(calls) /\ Len(calls) \in Nat
  BY LenProperties DEF AgentTypeOK, PanelInv
<1>1. ASSUME NEW op \in Operations, Toggle(op) \/ SweepReconciles
      PROVE  PanelInv'
  <2>1. PICK added \in Operations : queue' = Append(queue, added)
    BY <1>1 DEF Toggle, SweepReconciles, Operations
  <2>2. queue' \in Seq(Operations) /\ queue' # <<>>
    BY <1>0, <2>1, AppendProperties DEF PanelTypeOK
  <2>3. toggles' \in 0..MaxToggles
    BY <1>0, <1>1, MaintenanceAssumption
       DEF Toggle, SweepReconciles, PanelTypeOK, bounds
  <2> QED
    BY <1>0, <1>1, <2>2, <2>3
       DEF Toggle, SweepReconciles, PanelInv, PanelTypeOK, QueueHeld,
           OneAwaited, agentVars, rowVars, bounds
<1>2. CASE Begin
  <2>1. \A i \in DOMAIN calls : ~calls[i].awaited
    BY <1>0, <1>2 DEF Begin, OneAwaited
  <2>2. Head(queue) \in Operations
    BY <1>0, <1>2, HeadTailProperties DEF Begin, PanelTypeOK
  <2>3. pc' \in {"leave", "enter", "ask"}
    BY <1>2, <2>2 DEF Begin, Operations
  <2>4. active' \in BOOLEAN
    BY <1>2 DEF Begin
  <2> QED
    BY <1>0, <1>2, <2>1, <2>3, <2>4
       DEF Begin, PanelInv, PanelTypeOK, PanelPCs, QueueHeld, OneAwaited,
           agentVars, rowVars, bounds
<1>3. CASE Ask \/ RecordStopped \/ Advertise
  <2>1. \A i \in DOMAIN calls : ~calls[i].awaited
    BY <1>0, <1>3 DEF Ask, RecordStopped, Advertise, OneAwaited
  <2>2. queue # <<>>
    BY <1>0, <1>3 DEF Ask, RecordStopped, Advertise, QueueHeld
  <2>3. /\ queue' \in Seq(Operations)
        /\ pc' = "next" \/ (pc' = "leave" /\ UNCHANGED queue)
    BY <1>0, <1>3, <2>2, EndsType
       DEF Ask, RecordStopped, Advertise, PanelTypeOK
  <2>4. /\ active' \in BOOLEAN
        /\ row' \in [Works -> {"stopped", "starting", "running", "error"}]
        /\ UNCHANGED <<calls, booting, watched, toggles, faults>>
    BY <1>0, <1>3
       DEF Ask, RecordStopped, Advertise, PanelTypeOK, agentVars, rowVars,
           bounds
  <2> QED
    BY <1>0, <2>1, <2>2, <2>3, <2>4
       DEF PanelInv, PanelTypeOK, PanelPCs, QueueHeld, OneAwaited
<1>4. CASE ProbeAndCancel
  <2>1. \A i \in DOMAIN calls : ~calls[i].awaited
    BY <1>0, <1>4 DEF ProbeAndCancel, OneAwaited
  <2> QED
    BY <1>0, <1>4, <2>1
       DEF ProbeAndCancel, PanelInv, PanelTypeOK, PanelPCs, QueueHeld,
           OneAwaited, agentVars, bounds
<1>5. CASE Post
  <2>1. \A i \in DOMAIN calls : ~calls[i].awaited
    BY <1>0, <1>5 DEF Post, OneAwaited
  <2>2. PICK c : calls' = Append(calls, c)
    BY <1>5 DEF Post
  <2>3. /\ DOMAIN calls' = 1..(Len(calls) + 1)
        /\ \A i \in 1..Len(calls) : calls'[i] = calls[i]
    BY <1>0, <2>2
  <2>4. \A i \in DOMAIN calls' : calls'[i].awaited => i = Len(calls) + 1
    BY <1>0, <2>1, <2>3
  <2>5. OneAwaited'
    BY <1>5, <2>4 DEF Post, OneAwaited
  <2> QED
    BY <1>0, <1>5, <2>5
       DEF Post, PanelInv, PanelTypeOK, PanelPCs, QueueHeld, rowVars, bounds
<1>6. CASE NodeErrs
  <2>1. \A i \in DOMAIN calls' : ~calls'[i].awaited
    BY <1>0, <1>6, ForgetsAll DEF NodeErrs
  <2>2. queue' \in Seq(Operations) /\ pc' = "next"
    BY <1>0, <1>6, EndsType DEF NodeErrs, PanelTypeOK, QueueHeld
  <2> QED
    BY <1>0, <1>6, <2>1, <2>2
       DEF NodeErrs, PanelInv, PanelTypeOK, PanelPCs, QueueHeld, OneAwaited,
           rowVars, bounds
<1>7. CASE PanelRestarts
  <2>1. \A i \in DOMAIN calls' : ~calls'[i].awaited
    BY <1>0, <1>7, ForgetsAll DEF PanelRestarts
  <2>2. faults' \in 0..MaxFaults
    BY <1>0, <1>7, MaintenanceAssumption DEF PanelRestarts, PanelTypeOK
  <2> QED
    BY <1>0, <1>7, <2>1, <2>2, EmptySeq
       DEF PanelRestarts, PanelInv, PanelTypeOK, PanelPCs, QueueHeld,
           OneAwaited
<1> QED BY <1>1, <1>2, <1>3, <1>4, <1>5, <1>6, <1>7 DEF PanelStep, Operations

\* What the agent does, and what that tells the panel.
LEMMA AgentStepKeeps ==
    ASSUME AgentInv, PanelInv,
           \/ AgentStep \/ ListFails \/ AgentRestarts
           \/ \E w \in Works : StopOne(w, FALSE)
    PROVE  PanelInv'
<1>0. /\ calls \in Seq(Calls) /\ PanelTypeOK /\ QueueHeld /\ OneAwaited
      /\ DOMAIN calls = 1..Len(calls) /\ Len(calls) \in Nat
  BY LenProperties DEF AgentInv, AgentTypeOK, PanelInv
<1>1. CASE Leave \/ Finish \/ ListFails
  <2>1. calls # <<>>
    BY <1>1 DEF Leave, Finish, ListFails, AgentInv, DrainClosed
  <2>2. PICK ok : Answers(ok)
    BY <1>1 DEF Leave, Finish, ListFails
  <2>3. UNCHANGED <<active, booting, row, watched, toggles, faults>>
    BY <1>1 DEF Leave, Finish, ListFails, rowVars, bounds
  <2> QED BY <1>0, <2>1, <2>2, <2>3, AnswersKeep DEF PanelInv, PanelTypeOK
<1>2. CASE \/ Enter \/ Settle
           \/ \E w \in Works, ok \in BOOLEAN : StopOne(w, ok)
  <2>1. UNCHANGED <<panelVars, calls, booting, rowVars, bounds>>
    BY <1>2 DEF Enter, Settle, StopOne
  <2> QED
    BY <2>1 DEF PanelInv, PanelTypeOK, QueueHeld, OneAwaited, panelVars,
       rowVars, bounds
<1>3. CASE BootDrain
  <2>1. OneAwaited'
    <3>1. CASE enabled
      <4>1. PICK c : calls' = Append(calls, c) /\ ~c.awaited
        BY <1>3, <3>1 DEF BootDrain
      <4>2. /\ DOMAIN calls' = 1..(Len(calls) + 1)
            /\ \A i \in 1..Len(calls) : calls'[i] = calls[i]
            /\ calls'[Len(calls) + 1] = c
        BY <1>0, <4>1
      <4>3. \A i \in DOMAIN calls' :
              calls'[i].awaited => i \in DOMAIN calls /\ calls[i].awaited
        BY <1>0, <4>1, <4>2
      <4>4. UNCHANGED pc
        BY <1>3 DEF BootDrain, panelVars
      <4> QED BY <1>0, <4>3, <4>4 DEF OneAwaited
    <3>2. CASE ~enabled
      BY <1>0, <1>3, <3>2 DEF BootDrain, OneAwaited, panelVars
    <3> QED BY <3>1, <3>2
  <2> QED
    BY <1>0, <1>3, <2>1
       DEF BootDrain, PanelInv, PanelTypeOK, QueueHeld, panelVars, rowVars,
           bounds
<1>4. CASE AgentRestarts
  <2>1. faults' \in 0..MaxFaults
    BY <1>0, <1>4, MaintenanceAssumption DEF AgentRestarts, PanelTypeOK
  <2>2. row' \in [Works -> {"stopped", "starting", "running", "error"}]
    BY <1>0, <1>4 DEF AgentRestarts, PanelTypeOK
  <2>3. /\ queue' \in Seq(Operations)
        /\ pc' \in PanelPCs
        /\ QueueHeld'
    <3>1. CASE \E i \in DOMAIN calls : calls[i].awaited
      <4>1. queue # <<>>
        BY <1>0, <3>1 DEF OneAwaited, QueueHeld
      <4>2. Ends
        BY <1>4, <3>1 DEF AgentRestarts
      <4> QED
        BY <1>0, <4>1, <4>2, EndsType DEF PanelTypeOK, PanelPCs, QueueHeld
    <3>2. CASE ~ \E i \in DOMAIN calls : calls[i].awaited
      BY <1>0, <1>4, <3>2 DEF AgentRestarts, PanelTypeOK, QueueHeld
    <3> QED BY <3>1, <3>2
  <2>4. OneAwaited'
    BY <1>4 DEF AgentRestarts, OneAwaited
  <2> QED
    BY <1>0, <1>4, <2>1, <2>2, <2>3, <2>4
       DEF AgentRestarts, PanelInv, PanelTypeOK
<1> QED BY <1>1, <1>2, <1>3, <1>4 DEF AgentStep

\* The work writes rows and watches, nothing else of the panel's.
LEMMA WorkRowsKeep ==
    ASSUME AgentTypeOK, PanelInv, NEW w \in Works,
           \/ Send(w) \/ WorkStep(w) \/ WatchFails(w) \/ WatchEnds(w)
           \/ Exits(w)
    PROVE  PanelInv'
<1>1. UNCHANGED <<panelVars, calls, booting, bounds>>
  BY DEF Send, WorkStep, Accept, Refuse, Launch, DockerStarts, CheckLaunch,
     UndoLaunch, Reply, WatchFails, WatchEnds, Exits, agentVars
<1>2. /\ row' \in [Works -> {"stopped", "starting", "running", "error"}]
      /\ watched' \subseteq Works
  BY DEF Send, WorkStep, Accept, Refuse, Launch, DockerStarts, CheckLaunch,
     UndoLaunch, Reply, WatchFails, WatchEnds, Exits, rowVars, PanelInv,
     PanelTypeOK
<1> QED
  BY <1>1, <1>2 DEF PanelInv, PanelTypeOK, QueueHeld, OneAwaited, panelVars,
     bounds

\* No step breaks the panel's invariant.
LEMMA NextPanel == AgentInv /\ PanelInv /\ [Next]_vars => PanelInv'
<1>1. PanelInv /\ UNCHANGED vars => PanelInv'
  BY DEF vars, panelVars, agentVars, rowVars, bounds, PanelInv, PanelTypeOK,
     QueueHeld, OneAwaited
<1> QED
  BY <1>1, PanelStepKeeps, AgentStepKeeps, WorkRowsKeep DEF Next, AgentInv

\* Every reachable state of the panel and the agent is well formed; the panel
\* never awaits two calls of one agent, nor one without an operation under way.
THEOREM MaintenanceTypeCorrect == Spec => [](TypeOK /\ OneAwaited)
<1>1. AgentInv /\ PanelInv => TypeOK /\ OneAwaited
  BY DEF AgentInv, AgentTypeOK, PanelInv, PanelTypeOK, PanelPCs, TypeOK
<1>2. Init => PanelInv
  BY InitPanel
<1>3. AgentInv /\ PanelInv /\ [Next]_vars => PanelInv'
  BY NextPanel
<1> QED BY <1>1, <1>2, <1>3, DrainHolds, PTL DEF Spec

-----------------------------------------------------------------------------
(* Why no late drain undoes an activation: the agent works through its     *)
(* calls in order, and the panel writes its intent on the safe side of     *)
(* them - before a drain is posted, after an activation is answered.       *)

\* A drain the panel posted, not the agent's own at boot.
PanelDrain(c) == c.on /\ ~c.boot

\* The intent is written before the agent is asked to drain.
IntentFirst == pc \in {"enter", "post"} => ~active

\* No drain of the panel is left in the agent's chain once a node is active, or
\* about to be.
NoDrainLeft ==
    active \/ pc = "advertise" =>
        \A i \in DOMAIN calls : ~PanelDrain(calls[i])

\* An activation somebody waits for has no drain of the panel behind it.
ActivationLast ==
    \A i, j \in DOMAIN calls :
        calls[i].awaited /\ ~calls[i].on /\ i < j => ~PanelDrain(calls[j])

OrderInv == IntentFirst /\ NoDrainLeft /\ ActivationLast

\* The chain keeps its order when its head is answered and when a call joins.
LEMMA AnswersOrder ==
    ASSUME calls \in Seq(Calls), calls # <<>>, OrderInv, NEW ok, Answers(ok),
           UNCHANGED active
    PROVE  OrderInv'
<1>1. /\ DOMAIN calls = 1..Len(calls) /\ Len(calls) \in Nat /\ Len(calls) > 0
      /\ Head(calls) = calls[1]
      /\ DOMAIN Tail(calls) = 1..(Len(calls) - 1)
      /\ \A i \in 1..(Len(calls) - 1) : Tail(calls)[i] = calls[i + 1]
  OBVIOUS
<1>2. \A i \in DOMAIN calls' :
        /\ i \in Int /\ i + 1 \in DOMAIN calls /\ i + 1 > 1
        /\ calls'[i] = calls[i + 1]
  BY <1>1 DEF Answers
<1>3. ActivationLast'
  <2> SUFFICES ASSUME NEW i \in DOMAIN calls', NEW j \in DOMAIN calls',
                      calls'[i].awaited, ~calls'[i].on, i < j
               PROVE  ~PanelDrain(calls'[j])
    BY DEF ActivationLast, PanelDrain
  <2>1. /\ i + 1 \in DOMAIN calls /\ j + 1 \in DOMAIN calls /\ i + 1 < j + 1
        /\ calls'[i] = calls[i + 1] /\ calls'[j] = calls[j + 1]
    BY <1>2
  <2> QED BY <2>1 DEF OrderInv, ActivationLast
<1>4. CASE pc' = "advertise" /\ pc # "advertise"
  <2>1. calls[1].awaited /\ ~calls[1].on /\ 1 \in DOMAIN calls
    BY <1>1, <1>4 DEF Answers, Ends
  <2>2. \A i \in DOMAIN calls' : ~PanelDrain(calls'[i])
    BY <1>2, <2>1 DEF OrderInv, ActivationLast
  <2> QED BY <1>3, <1>4, <2>2 DEF OrderInv, IntentFirst, NoDrainLeft, PanelDrain
<1>5. CASE ~(pc' = "advertise" /\ pc # "advertise")
  <2>1. pc' = pc \/ pc' \in {"states", "next", "advertise"}
    BY DEF Answers, Ends
  <2>2. IntentFirst'
    BY <2>1 DEF OrderInv, IntentFirst
  <2>3. active \/ pc = "advertise" =>
          \A i \in DOMAIN calls' : ~PanelDrain(calls'[i])
    BY <1>2 DEF OrderInv, NoDrainLeft
  <2>4. NoDrainLeft'
    BY <1>5, <2>1, <2>3 DEF NoDrainLeft, PanelDrain
  <2> QED BY <1>3, <2>2, <2>4 DEF OrderInv
<1> QED BY <1>4, <1>5

\* A call that joins the chain: its place is behind every other.
LEMMA AppendOrder ==
    ASSUME calls \in Seq(Calls), OrderInv, NEW c, calls' = Append(calls, c),
           UNCHANGED active, IntentFirst', pc' # "advertise" \/ pc = "advertise",
           \/ ~PanelDrain(c)
           \/ /\ ~active /\ pc' # "advertise"
              /\ \A i \in DOMAIN calls : ~calls[i].awaited
    PROVE  OrderInv'
<1>1. /\ DOMAIN calls = 1..Len(calls) /\ Len(calls) \in Nat
      /\ DOMAIN calls' = 1..(Len(calls) + 1)
      /\ \A i \in 1..Len(calls) : calls'[i] = calls[i]
      /\ calls'[Len(calls) + 1] = c
  OBVIOUS
<1>2. NoDrainLeft'
  <2> SUFFICES ASSUME active \/ pc' = "advertise", NEW i \in DOMAIN calls'
               PROVE  ~PanelDrain(calls'[i])
    BY DEF NoDrainLeft, PanelDrain
  <2>1. CASE i = Len(calls) + 1
    BY <1>1, <2>1
  <2>2. CASE i # Len(calls) + 1
    BY <1>1, <2>2 DEF OrderInv, NoDrainLeft
  <2> QED BY <2>1, <2>2
<1>3. ActivationLast'
  <2> SUFFICES ASSUME NEW i \in DOMAIN calls', NEW j \in DOMAIN calls',
                      calls'[i].awaited, ~calls'[i].on, i < j
               PROVE  ~PanelDrain(calls'[j])
    BY DEF ActivationLast, PanelDrain
  <2>1. i \in DOMAIN calls /\ calls'[i] = calls[i]
    BY <1>1
  <2>2. CASE j = Len(calls) + 1
    BY <1>1, <2>1, <2>2
  <2>3. CASE j # Len(calls) + 1
    BY <1>1, <2>1, <2>3 DEF OrderInv, ActivationLast
  <2> QED BY <2>2, <2>3
<1> QED BY <1>2, <1>3 DEF OrderInv

\* Giving up on the answers drops no call and waits for none.
LEMMA ForgetOrder ==
    ASSUME calls \in Seq(Calls), OrderInv, calls' = Forget(calls),
           UNCHANGED active, pc' = "next"
    PROVE  OrderInv'
<1>1. \A i \in DOMAIN calls : calls[i] \in Calls
  BY LenProperties
<1>2. /\ DOMAIN calls' = DOMAIN calls
      /\ \A i \in DOMAIN calls :
            ~calls'[i].awaited /\ (PanelDrain(calls'[i]) => PanelDrain(calls[i]))
  BY <1>1 DEF Forget, Calls, PanelDrain
<1> QED
  BY <1>2 DEF OrderInv, IntentFirst, NoDrainLeft, ActivationLast, PanelDrain

\* The panel's own steps keep the order.
LEMMA PanelOrder ==
    ASSUME AgentTypeOK, PanelInv, OrderInv,
           \/ \E op \in Operations : Toggle(op)
           \/ SweepReconciles \/ PanelStep \/ NodeErrs \/ PanelRestarts
    PROVE  OrderInv'
<1>0. calls \in Seq(Calls) /\ OneAwaited /\ queue \in Seq(Operations)
  BY DEF AgentTypeOK, PanelInv, PanelTypeOK
<1>1. ASSUME UNCHANGED <<active, pc, calls>> PROVE OrderInv'
  BY <1>1 DEF OrderInv, IntentFirst, NoDrainLeft, ActivationLast, PanelDrain
<1>2. ASSUME NEW op \in Operations, Toggle(op) \/ SweepReconciles
      PROVE  OrderInv'
  BY <1>1, <1>2 DEF Toggle, SweepReconciles, agentVars
<1>3. CASE Begin
  <2>1. Head(queue) \in Operations /\ pc = "next" /\ UNCHANGED calls
    BY <1>0, <1>3, HeadTailProperties DEF Begin, agentVars
  <2>2. /\ pc' \in {"leave", "enter", "ask"}
        /\ pc' = "enter" => ~active'
        /\ active' => active
    BY <1>3, <2>1 DEF Begin, Operations
  <2> QED
    BY <2>1, <2>2
       DEF OrderInv, IntentFirst, NoDrainLeft, ActivationLast, PanelDrain
<1>4. CASE Ask \/ RecordStopped
  <2>1. pc' \in {"leave", "next"} /\ UNCHANGED <<active, calls>>
    BY <1>4 DEF Ask, RecordStopped, Ends, agentVars
  <2> QED
    BY <2>1 DEF OrderInv, IntentFirst, NoDrainLeft, ActivationLast, PanelDrain
<1>5. CASE ProbeAndCancel
  <2>1. pc = "enter" /\ pc' = "post" /\ UNCHANGED <<active, calls>>
    BY <1>5 DEF ProbeAndCancel, agentVars
  <2> QED
    BY <2>1 DEF OrderInv, IntentFirst, NoDrainLeft, ActivationLast, PanelDrain
<1>6. CASE Post
  <2>1. /\ pc \in {"post", "leave"} /\ pc' \in {"wait", "waitLeave"}
        /\ UNCHANGED active
        /\ calls' = Append(calls, [on |-> pc = "post", boot |-> FALSE,
                                   awaited |-> TRUE])
    BY <1>6 DEF Post
  <2>2. \A i \in DOMAIN calls : ~calls[i].awaited
    BY <1>0, <2>1 DEF OneAwaited
  <2>3. PanelDrain([on |-> pc = "post", boot |-> FALSE, awaited |-> TRUE])
            => pc = "post"
    BY DEF PanelDrain
  <2>4. (pc = "post" => ~active) /\ IntentFirst'
    BY <2>1 DEF OrderInv, IntentFirst
  <2> HIDE DEF IntentFirst
  <2> QED BY <1>0, <2>1, <2>2, <2>3, <2>4, AppendOrder
<1>7. CASE NodeErrs \/ PanelRestarts
  <2>1. pc' = "next" /\ UNCHANGED active /\ calls' = Forget(calls)
    BY <1>7 DEF NodeErrs, PanelRestarts, Ends
  <2> QED BY <1>0, <2>1, ForgetOrder
<1>8. CASE Advertise
  <2>1. pc = "advertise" /\ pc' = "next" /\ UNCHANGED calls
    BY <1>8 DEF Advertise, Ends, agentVars
  <2> QED
    BY <2>1 DEF OrderInv, IntentFirst, NoDrainLeft, ActivationLast, PanelDrain
<1> QED
  BY <1>2, <1>3, <1>4, <1>5, <1>6, <1>7, <1>8 DEF PanelStep, Operations

\* Work changes neither the panel's queue nor the agent's latch.
LEMMA WorkIsQuiet ==
    ASSUME NEW w \in Works,
           \/ Send(w) \/ WorkStep(w) \/ WatchFails(w) \/ WatchEnds(w)
           \/ Exits(w)
    PROVE  UNCHANGED <<panelVars, agentVars>>
<1>1. WorkStep(w) => UNCHANGED <<panelVars, agentVars>>
  BY DEF WorkStep, Accept, Refuse, Launch, DockerStarts, CheckLaunch,
     UndoLaunch, Reply
<1>2. Send(w) \/ WatchFails(w) \/ WatchEnds(w) \/ Exits(w) =>
        UNCHANGED <<panelVars, agentVars>>
  BY DEF Send, WatchFails, WatchEnds, Exits
<1> QED BY <1>1, <1>2

\* So does everybody else.
LEMMA OthersOrder ==
    ASSUME AgentInv, PanelInv, OrderInv,
           \/ AgentStep \/ ListFails \/ AgentRestarts
           \/ \E w \in Works :
                 \/ Send(w) \/ WorkStep(w) \/ StopOne(w, FALSE)
                 \/ WatchFails(w) \/ WatchEnds(w) \/ Exits(w)
           \/ UNCHANGED vars
    PROVE  OrderInv'
<1>0. calls \in Seq(Calls)
  BY DEF AgentInv, AgentTypeOK
<1>1. ASSUME UNCHANGED <<active, pc, calls>> PROVE OrderInv'
  BY <1>1 DEF OrderInv, IntentFirst, NoDrainLeft, ActivationLast, PanelDrain
<1>2. CASE Leave \/ Finish \/ ListFails
  <2>1. calls # <<>>
    BY <1>2 DEF Leave, Finish, ListFails, AgentInv, DrainClosed
  <2>2. PICK ok : Answers(ok)
    BY <1>2 DEF Leave, Finish, ListFails
  <2>3. UNCHANGED active
    BY <1>2 DEF Leave, Finish, ListFails
  <2> QED BY <1>0, <2>1, <2>2, <2>3, AnswersOrder
<1>3. CASE \/ Enter \/ Settle
           \/ \E w \in Works, ok \in BOOLEAN : StopOne(w, ok)
  <2>1. Enter \/ Settle => UNCHANGED <<panelVars, calls>>
    BY DEF Enter, Settle
  <2>2. ASSUME NEW w \in Works, NEW ok \in BOOLEAN, StopOne(w, ok)
        PROVE  UNCHANGED <<panelVars, calls>>
    BY <2>2, Zenon DEF StopOne
  <2>3. UNCHANGED <<panelVars, calls>>
    BY <1>3, <2>1, <2>2
  <2>4. UNCHANGED <<active, pc, calls>>
    BY <2>3 DEF panelVars
  <2> QED BY <1>1, <2>4
<1>4. CASE BootDrain
  <2>1. UNCHANGED <<active, pc>>
    BY <1>4 DEF BootDrain, panelVars
  <2>2. CASE ~enabled
    BY <1>1, <1>4, <2>1, <2>2 DEF BootDrain
  <2>3. CASE enabled
    <3>1. PICK c : calls' = Append(calls, c) /\ ~PanelDrain(c)
      <4>1. calls' = Append(calls, [on |-> TRUE, boot |-> TRUE, awaited |-> FALSE])
        BY <1>4, <2>3 DEF BootDrain
      <4>2. ~PanelDrain([on |-> TRUE, boot |-> TRUE, awaited |-> FALSE])
        BY DEF PanelDrain
      <4> QED BY <4>1, <4>2
    <3>2. IntentFirst'
      BY <2>1 DEF OrderInv, IntentFirst
    <3> QED BY <1>0, <2>1, <3>1, <3>2, AppendOrder
  <2> QED BY <2>2, <2>3
<1>5. CASE AgentRestarts
  <2>1. calls' = <<>> /\ UNCHANGED active /\ (pc' = pc \/ pc' = "next")
    BY <1>5 DEF AgentRestarts, Ends
  <2>2. DOMAIN calls' = {}
    BY <2>1
  <2> QED
    BY <2>1, <2>2 DEF OrderInv, IntentFirst, NoDrainLeft, ActivationLast
<1>6. ASSUME NEW w \in Works,
             \/ Send(w) \/ WorkStep(w) \/ WatchFails(w) \/ WatchEnds(w) \/ Exits(w)
      PROVE  UNCHANGED <<active, pc, calls>>
  <2>1. UNCHANGED <<panelVars, agentVars>>
    BY <1>6, WorkIsQuiet
  <2> QED BY <2>1 DEF panelVars, agentVars
<1>7. UNCHANGED vars => UNCHANGED <<active, pc, calls>>
  BY DEF vars, panelVars, agentVars
<1> QED BY <1>1, <1>2, <1>3, <1>4, <1>5, <1>6, <1>7 DEF AgentStep

\* Only two steps can close an open latch: a drain, and a restart that finds
\* the marker.
LEMMA WhoCloses ==
    ASSUME AgentInv, [Next]_vars, ~enabled, enabled'
    PROVE  Enter
<1>1. ~Leave
  BY DEF Leave
<1>2. ~AgentRestarts
  BY DEF AgentRestarts, AgentInv, MarkerDurable
<1>3. ASSUME \/ \E op \in Operations : Toggle(op)
             \/ SweepReconciles \/ PanelStep \/ NodeErrs \/ PanelRestarts
      PROVE  UNCHANGED enabled
  BY <1>3 DEF Toggle, SweepReconciles, PanelStep, NodeErrs, PanelRestarts, Begin,
     Ask, ProbeAndCancel, Post, RecordStopped, Advertise, agentVars
<1>4. ASSUME \/ Settle \/ Finish \/ BootDrain \/ ListFails
             \/ \E w \in Works, ok \in BOOLEAN : StopOne(w, ok)
      PROVE  UNCHANGED enabled
  <2>1. CASE Settle \/ Finish \/ ListFails
    BY <2>1 DEF Settle, Finish, ListFails
  <2>2. CASE BootDrain
    BY <2>2 DEF BootDrain
  <2>3. ASSUME NEW w \in Works, NEW ok \in BOOLEAN, StopOne(w, ok)
        PROVE  UNCHANGED enabled
    BY <2>3 DEF StopOne
  <2> QED BY <1>4, <2>1, <2>2, <2>3
<1>5. ASSUME NEW w \in Works,
             \/ Send(w) \/ WorkStep(w) \/ WatchFails(w) \/ WatchEnds(w) \/ Exits(w)
      PROVE  UNCHANGED enabled
  BY <1>5, WorkIsQuiet DEF agentVars
<1>6. UNCHANGED vars => UNCHANGED enabled
  BY DEF vars, agentVars
<1> QED BY <1>1, <1>2, <1>3, <1>4, <1>5, <1>6 DEF Next, AgentStep

\* However late the agent gets to a drain the panel gave up on, it cannot close
\* the latch of a node that was activated since.
THEOREM LateDrainsHarmless == Spec => ActivationHolds
<1>1. Init => OrderInv
  <2> SUFFICES ASSUME Init PROVE OrderInv
    OBVIOUS
  <2>1. DOMAIN calls = {} /\ pc = "next"
    BY DEF Init
  <2> QED BY <2>1 DEF OrderInv, IntentFirst, NoDrainLeft, ActivationLast
<1>2. AgentInv /\ PanelInv /\ OrderInv /\ [Next]_vars => OrderInv'
  BY PanelOrder, OthersOrder DEF Next, AgentInv
<1>3. AgentInv /\ OrderInv /\ [Next]_vars => [LateDrainsAreHarmless]_vars
  <2> SUFFICES ASSUME AgentInv, OrderInv, [Next]_vars,
                      ~enabled, enabled', active
               PROVE  Head(calls).boot
    BY DEF LateDrainsAreHarmless
  <2>1. calls # <<>> /\ Head(calls).on
    BY WhoCloses DEF Enter
  <2>2. 1 \in DOMAIN calls /\ Head(calls) = calls[1] /\ calls[1] \in Calls
    BY <2>1 DEF AgentInv, AgentTypeOK
  <2> QED BY <2>1, <2>2 DEF OrderInv, NoDrainLeft, PanelDrain
<1>4. Init => PanelInv
  BY InitPanel
<1>5. AgentInv /\ PanelInv /\ [Next]_vars => PanelInv'
  BY NextPanel
<1> QED
  BY <1>1, <1>2, <1>3, <1>4, <1>5, DrainHolds, PTL DEF Spec, ActivationHolds
=============================================================================

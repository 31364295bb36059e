--------------------------- MODULE RebalanceProofs ---------------------------
(***************************************************************************)
(* What holds of Rebalance for every set of nodes, every model depth, every *)
(* memory bound and every value of the bounds: its types, that only         *)
(* complete layouts are ever committed, and that it implements              *)
(* LayoutService.                                                           *)
(***************************************************************************)
EXTENDS Rebalance, SequenceTheorems, TLAPS

\* A node whose load runs still has the assign of that load at the head.
BusyHasAssign ==
  \A n \in Nodes : busy[n] => tasks[n] # <<>> /\ Head(tasks[n]).t = "assign"

\* Only members of the plan are sent a range.
TodoPlanned == todo \subseteq Members(plan.at)

TypeInv == TypeOK /\ BusyHasAssign /\ TodoPlanned

-----------------------------------------------------------------------------
(***************************************************************************)
(* Facts about the data.                                                   *)
(***************************************************************************)

\* The layers of a range are layers of the model.
LEMMA HeldLayers ==
  ASSUME NEW r \in Ranges \cup {NoRange}
  PROVE  Held(r) \subseteq LayerIds
BY NLayersAssumption DEF Held, Ranges, NoRange, LayerIds

\* What the planner may choose is a layout that tiles the model.
LEMMA TilingsAreLayouts ==
  ASSUME NEW S, NEW A \in Tilings(S)
  PROVE  A \in Layouts /\ Tiles(A)
BY DEF Tilings, TiledLayouts

\* compute_plan returns such a layout, with nodes excluded or not.
LEMMA ComputePlanTiles ==
  ASSUME NEW X, NEW A \in ComputePlan(X)
  PROVE  A \in Layouts /\ Tiles(A)
BY TilingsAreLayouts DEF ComputePlan

\* The empty layout is a layout, without members.
LEMMA NoLayoutTyped == NoLayout \in Layouts /\ Members(NoLayout) = {}
BY DEF NoLayout, Layouts, Members

\* The empty plan is a plan.
LEMMA NoPlanTyped == NoPlan \in Plans
BY NoLayoutTyped DEF NoPlan, Plans

\* Nobody waiting is a state of the waiters.
LEMMA NoWaitTyped == NoWait \in [Nodes -> {"none", "wait", "ok", "failed"}]
BY DEF NoWait

\* An answer of a node is a frame to the hub.
LEMMA FrameTyped ==
  ASSUME NEW t \in AnswerKinds, NEW r \in Ranges \cup {NoRange},
         NEW g \in Nat, NEW fs \in SUBSET LayerIds
  PROVE  Frame(t, r, g, fs) \in ToHubFrames
BY DEF Frame, ToHubFrames, Answers

\* A frame appended on the current connection keeps the network typed.
LEMMA SaysTyped ==
  ASSUME NetTyped, NEW n \in Nodes, NEW f \in ToHubFrames, Says(n, f)
  PROVE  toHub' \in [Nodes -> [Conns -> Seq(ToHubFrames)]]
<1> DEFINE q == [toHub[n] EXCEPT ![conn[n]] = Append(toHub[n][conn[n]], f)]
<1>1. toHub[n] \in [Conns -> Seq(ToHubFrames)]
  BY DEF NetTyped
<1>2. \A s \in Seq(ToHubFrames) : Append(s, f) \in Seq(ToHubFrames)
  BY AppendProperties
<1>3. q \in [Conns -> Seq(ToHubFrames)]
  BY <1>1, <1>2
<1>4. toHub' = [toHub EXCEPT ![n] = q]
  BY DEF Says
<1> QED
  BY <1>3, <1>4 DEF NetTyped

\* Reading a frame keeps the network typed.
LEMMA TakeTyped ==
  ASSUME NetTyped, NEW n \in Nodes, NEW c \in Conns, NEW t,
         Hears(n, c, t), Take(n, c)
  PROVE  toHub' \in [Nodes -> [Conns -> Seq(ToHubFrames)]]
<1> DEFINE q == [toHub[n] EXCEPT ![c] = Tail(toHub[n][c])]
<1>1. toHub[n] \in [Conns -> Seq(ToHubFrames)]
  BY DEF NetTyped
<1>2. Tail(toHub[n][c]) \in Seq(ToHubFrames)
  BY <1>1 DEF Hears
<1>3. q \in [Conns -> Seq(ToHubFrames)]
  BY <1>1, <1>2
<1>4. toHub' = [toHub EXCEPT ![n] = q]
  BY DEF Take
<1> QED
  BY <1>3, <1>4 DEF NetTyped

\* A frame of this module's kinds is one of its answers.
LEMMA HeardTyped ==
  ASSUME NetTyped, NEW n \in Nodes, NEW c \in Conns, NEW t \in AnswerKinds,
         Hears(n, c, t)
  PROVE  Head(toHub[n][c]) \in Answers
<1>1. toHub[n][c] \in Seq(ToHubFrames) /\ toHub[n][c] # <<>>
  BY DEF NetTyped, Hears
<1>2. Head(toHub[n][c]) \in Answers \cup OtherFrames
  BY <1>1 DEF ToHubFrames
<1>3. Head(toHub[n][c]).t \in AnswerKinds
  BY DEF Hears
<1> QED
  BY <1>2, <1>3, OtherFramesAssumption

\* A task sent to a member of the plan keeps the network typed.
LEMMA SentTyped ==
  ASSUME NetTyped, NEW n \in Nodes, NEW c, NEW f \in Tasks
  PROVE  Sent(n, c, f) \in [Nodes -> Seq(ToNodeFrames)]
BY DEF NetTyped, Sent, ToNodeFrames

\* What a node works on is a task with a range and a generation.
LEMMA NextTask ==
  ASSUME NodesTyped, NEW n \in Nodes, tasks[n] # <<>>
  PROVE  /\ Head(tasks[n]) \in Tasks
         /\ [tasks EXCEPT ![n] = Tail(@)] \in [Nodes -> Seq(Tasks)]
BY DEF NodesTyped

\* load_range leaves layer files of the model on disk.
LEMMA FilesAfterLoadTyped ==
  ASSUME NodesTyped, NEW n \in Nodes, NEW f \in Tasks
  PROVE  FilesAfterLoad(n, f.range) \in SUBSET LayerIds
BY HeldLayers DEF NodesTyped, FilesAfterLoad, Tasks

\* _park gives every node a role.
LEMMA ParkedTyped ==
  ASSUME NEW p, NEW A, NEW r \in [Nodes -> Roles]
  PROVE  Parked(p, A, r) \in [Nodes -> Roles]
BY DEF Parked, Roles

\* Benching the members that failed gives every node a role.
LEMMA BenchedTyped ==
  ASSUME RecordsTyped
  PROVE  Benched \in [Nodes -> Roles]
BY DEF RecordsTyped, Benched, Roles

\* _left keeps the records typed and the other records alone.
LEMMA LeftTyped ==
  ASSUME RecordsTyped, ApplyTyped, NEW n \in Nodes, Left(n)
  PROVE  /\ ws' \in [Nodes -> 0 .. MaxConn]
         /\ ready' \in [Nodes -> BOOLEAN]
         /\ role' \in [Nodes -> Roles]
         /\ wait' \in [Nodes -> {"none", "wait", "ok", "failed"}]
<1> USE DEF RecordsTyped, ApplyTyped, Left
<1>1. ws' \in [Nodes -> 0 .. MaxConn]
  BY BoundsAssumption
<1>2. ready' \in [Nodes -> BOOLEAN]
  OBVIOUS
<1>3. role' \in [Nodes -> Roles]
  BY DEF Roles
<1>4. wait' \in [Nodes -> {"none", "wait", "ok", "failed"}]
  OBVIOUS
<1> QED
  BY <1>1, <1>2, <1>3, <1>4

\* Only members of a plan change their range.
LEMMA ChangedAreMembers ==
  ASSUME NEW A
  PROVE  Changed(A) \subseteq Members(A) /\ Members(A) \subseteq Nodes
BY DEF Changed, Members

\* What phase 1 notes as fetched are layers of the model.
LEMMA FetchedTyped ==
  ASSUME RecordsTyped, ApplyTyped
  PROVE  Fetched \in [Nodes -> SUBSET LayerIds]
<1>1. \A n \in Nodes : Held(plan.at[n]) \in SUBSET LayerIds
  BY HeldLayers DEF ApplyTyped, Plans, Layouts
<1> QED
  BY <1>1 DEF RecordsTyped, Fetched

\* A layout of compute_plan makes a plan.
LEMMA PlanTyped ==
  ASSUME NEW A \in Layouts
  PROVE  [at |-> A, known |-> Known] \in Plans
BY DEF Plans, Known

\* Asking the members in S to prefetch for p.
LEMMA PrefetchForTyped ==
  ASSUME TypeOK, NEW p \in Plans, NEW S \in SUBSET Members(p.at),
         PrefetchFor(p, S)
  PROVE  /\ plan' \in Plans
         /\ todo' \in SUBSET Nodes
         /\ wait' \in [Nodes -> {"none", "wait", "ok", "failed"}]
         /\ toNode' \in [Nodes -> Seq(ToNodeFrames)]
         /\ TodoPlanned'
<1> DEFINE ask == Unfetched(S, p.at)
           f(n) == [t |-> "prefetch", range |-> p.at[n], gen |-> gen + 1]
<1>1. plan' = p /\ todo' = S
  BY DEF PrefetchFor
<1>2. S \subseteq Nodes
  BY DEF Members
<1>3. wait' \in [Nodes -> {"none", "wait", "ok", "failed"}]
  BY DEF PrefetchFor
<1>4. \A n \in ask : f(n) \in Tasks
  <2>1. \A n \in ask : p.at[n] \in Ranges
    BY DEF Unfetched, Members, Plans, Layouts
  <2>2. gen + 1 \in Nat
    BY DEF TypeOK, ApplyTyped
  <2> QED
    BY <2>1, <2>2 DEF Tasks, TaskKinds
<1>5. \A n \in ask : Append(toNode[n], f(n)) \in Seq(ToNodeFrames)
  <2> SUFFICES ASSUME NEW n \in ask
               PROVE  Append(toNode[n], f(n)) \in Seq(ToNodeFrames)
    OBVIOUS
  <2>1. toNode[n] \in Seq(ToNodeFrames)
    BY <1>2 DEF TypeOK, NetTyped, Unfetched
  <2>2. f(n) \in ToNodeFrames
    BY <1>4 DEF ToNodeFrames
  <2> HIDE DEF f
  <2> QED
    BY <2>1, <2>2, AppendProperties
<1>6. \A n \in Nodes : toNode[n] \in Seq(ToNodeFrames)
  BY DEF TypeOK, NetTyped
<1>7. toNode' = [n \in Nodes |-> IF n \in ask /\ Reaches(n, ws[n])
                                 THEN Append(toNode[n], f(n)) ELSE toNode[n]]
  BY DEF PrefetchFor
<1>8. toNode' \in [Nodes -> Seq(ToNodeFrames)]
  BY <1>5, <1>6, <1>7
<1> QED
  BY <1>1, <1>2, <1>3, <1>8 DEF TodoPlanned

\* The first state is typed.
LEMMA InitTyped == Init => TypeInv
<1> SUFFICES ASSUME Init PROVE TypeInv
  OBVIOUS
<1> USE DEF Init
<1>1. RecordsTyped
  BY BoundsAssumption, NoLayoutTyped DEF RecordsTyped, Roles, NoLayout
<1>2. ApplyTyped
  BY NoLayoutTyped, NoPlanTyped DEF ApplyTyped, Phases
<1>3. NodesTyped
  BY BoundsAssumption, ChoicesAssumption DEF NodesTyped, NoLayout
<1>4. NetTyped
  BY DEF NetTyped
<1>5. BusyHasAssign /\ TodoPlanned
  BY DEF BusyHasAssign, TodoPlanned
<1>6. inflight \in 0 .. MaxInflight /\ faults \in 0 .. MaxFaults
  BY BoundsAssumption
<1> QED
  BY <1>1, <1>2, <1>3, <1>4, <1>5, <1>6 DEF TypeInv, TypeOK

\* A stuttering step keeps the types.
LEMMA StutterTyped == TypeInv /\ UNCHANGED vars => TypeInv'
BY DEF TypeInv, TypeOK, RecordsTyped, ApplyTyped, NodesTyped, NetTyped,
       BusyHasAssign, TodoPlanned, Members, vars, recordVars, applyVars,
       nodeVars, netVars

-----------------------------------------------------------------------------
(***************************************************************************)
(* The node's steps.                                                       *)
(***************************************************************************)

\* A step of the node leaves the hub's records and the plan alone.
LEMMA HubUndisturbed ==
  ASSUME TypeInv, UNCHANGED <<recordVars, applyVars, inflight>>
  PROVE  /\ RecordsTyped' /\ ApplyTyped' /\ TodoPlanned'
         /\ inflight' \in 0 .. MaxInflight
BY DEF TypeInv, TypeOK, RecordsTyped, ApplyTyped, TodoPlanned, Members,
       recordVars, applyVars

\* A fault stays within the bound.
LEMMA FaultTyped == TypeOK /\ Fault => faults' \in 0 .. MaxFaults
BY BoundsAssumption DEF TypeOK, Fault

\* Connect keeps every variable typed.
LEMMA ConnectTyped ==
  ASSUME TypeInv, NEW n \in Nodes, Connect(n)
  PROVE  TypeInv'
<1> USE DEF TypeInv, TypeOK, Connect
<1>1. RecordsTyped' /\ ApplyTyped' /\ TodoPlanned' /\ inflight' \in 0 .. MaxInflight
  BY HubUndisturbed
<1>2. conn[n] + 1 \in Conns
  BY BoundsAssumption DEF NodesTyped, Conns
<1>3. NodesTyped'
  BY <1>2 DEF NodesTyped, Conns
<1>4. NetTyped'
  <2> DEFINE q == [toHub[n] EXCEPT ![conn[n] + 1] =
                     <<Frame("hello", NoRange, 0, files[n])>>]
  <2>1. <<Frame("hello", NoRange, 0, files[n])>> \in Seq(ToHubFrames)
    <3>1. Frame("hello", NoRange, 0, files[n]) \in ToHubFrames
      BY FrameTyped DEF NodesTyped, AnswerKinds
    <3> QED
      BY <3>1
  <2>2. q \in [Conns -> Seq(ToHubFrames)]
    BY <2>1 DEF NetTyped
  <2>3. toHub' = [toHub EXCEPT ![n] = q]
    OBVIOUS
  <2>4. toHub' \in [Nodes -> [Conns -> Seq(ToHubFrames)]]
    BY <2>2, <2>3 DEF NetTyped
  <2> QED
    BY <1>2, <2>4 DEF NetTyped
<1>5. BusyHasAssign'
  BY DEF BusyHasAssign
<1> QED
  BY <1>1, <1>3, <1>4, <1>5

\* Disconnect keeps every variable typed.
LEMMA DisconnectTyped ==
  ASSUME TypeInv, NEW n \in Nodes, NEW kept,
         conn[n] \in Conns => kept \in 0 .. Len(toHub[n][conn[n]]),
         Disconnect(n, kept), faults' \in 0 .. MaxFaults
  PROVE  TypeInv'
<1> USE DEF TypeInv, TypeOK, Disconnect
<1>1. RecordsTyped' /\ ApplyTyped' /\ TodoPlanned' /\ inflight' \in 0 .. MaxInflight
  BY HubUndisturbed
<1>2. files' \in [Nodes -> SUBSET LayerIds]
  <2>1. CASE busy[n]
    <3>1. FilesAfterLoad(n, Head(tasks[n]).range) \in SUBSET LayerIds
      BY <2>1, NextTask, FilesAfterLoadTyped DEF BusyHasAssign
    <3> QED
      BY <2>1, <3>1 DEF NodesTyped
  <2>2. CASE ~busy[n]
    BY <2>2 DEF NodesTyped
  <2> QED
    BY <2>1, <2>2
<1>3. NodesTyped'
  <2>1. shard' \in [Nodes -> Ranges \cup {NoRange}]
    BY DEF NodesTyped
  <2>2. tasks' \in [Nodes -> Seq(Tasks)]
    BY DEF NodesTyped
  <2> QED
    BY <1>2, <2>1, <2>2 DEF NodesTyped
<1>4. NetTyped'
  <2> DEFINE q == [toHub[n] EXCEPT ![conn[n]] =
                     SubSeq(toHub[n][conn[n]], 1, kept)]
  <2>1. \A s \in Seq(ToHubFrames) :
          \A k \in 0 .. Len(s) : SubSeq(s, 1, k) \in Seq(ToHubFrames)
    BY SubSeqProperties
  <2>2. q \in [Conns -> Seq(ToHubFrames)]
    BY <2>1 DEF NetTyped
  <2>3. toHub' = [toHub EXCEPT ![n] = q]
    OBVIOUS
  <2> QED
    BY <2>2, <2>3 DEF NetTyped
<1>5. BusyHasAssign'
  BY DEF BusyHasAssign, NodesTyped
<1> QED
  BY <1>1, <1>3, <1>4, <1>5

\* Drop keeps every variable typed.
LEMMA DropTyped ==
  ASSUME TypeInv, NEW n \in Nodes, Drop(n)
  PROVE  TypeInv'
BY DisconnectTyped, FaultTyped DEF TypeInv, Drop

\* SeesClose keeps every variable typed.
LEMMA SeesCloseTyped ==
  ASSUME TypeInv, NEW n \in Nodes, SeesClose(n)
  PROVE  TypeInv'
<1>1. conn[n] \in Conns => Len(toHub[n][conn[n]]) \in Nat
  BY DEF TypeInv, TypeOK, NetTyped
<1>2. conn[n] \in Conns =>
        Len(toHub[n][conn[n]]) \in 0 .. Len(toHub[n][conn[n]])
  BY <1>1
<1> QED
  BY <1>2, DisconnectTyped DEF TypeInv, TypeOK, SeesClose

\* Receive keeps every variable typed.
LEMMA ReceiveTyped ==
  ASSUME TypeInv, NEW n \in Nodes, Receive(n)
  PROVE  TypeInv'
<1> USE DEF TypeInv, TypeOK, Receive
<1> DEFINE f == Head(toNode[n])
<1>1. RecordsTyped' /\ ApplyTyped' /\ TodoPlanned' /\ inflight' \in 0 .. MaxInflight
  BY HubUndisturbed
<1>2. f \in Tasks
  <2>1. toNode[n] \in Seq(Tasks \cup OtherFrames) /\ toNode[n] # <<>>
    BY DEF NetTyped, ToNodeFrames
  <2>2. f \in Tasks \cup OtherFrames
    BY <2>1
  <2> QED
    BY <2>2, OtherFramesAssumption
<1>3. tasks[n] \in Seq(Tasks) /\ Append(tasks[n], f) \in Seq(Tasks)
  BY <1>2 DEF NodesTyped
<1>4. NodesTyped'
  BY <1>3 DEF NodesTyped
<1>5. NetTyped'
  BY DEF NetTyped
<1>6. BusyHasAssign'
  <2>1. busy[n] => /\ Append(tasks[n], f) # <<>>
                   /\ Head(Append(tasks[n], f)) = Head(tasks[n])
    BY <1>2, <1>3, AppendProperties, HeadTailAppend DEF BusyHasAssign
  <2> QED
    BY <2>1 DEF BusyHasAssign, NodesTyped
<1> QED
  BY <1>1, <1>4, <1>5, <1>6

\* The first task ends, busy or not.
LEMMA TaskEnds ==
  ASSUME TypeInv, NEW n \in Nodes, tasks[n] # <<>>,
         tasks' = [tasks EXCEPT ![n] = Tail(@)],
         \/ busy' = busy /\ ~busy[n]
         \/ busy' = [busy EXCEPT ![n] = FALSE]
  PROVE  /\ tasks' \in [Nodes -> Seq(Tasks)]
         /\ busy' \in [Nodes -> BOOLEAN]
         /\ BusyHasAssign'
<1> USE DEF TypeInv, TypeOK, NodesTyped
<1>1. tasks' \in [Nodes -> Seq(Tasks)]
  BY NextTask
<1>2. busy' \in [Nodes -> BOOLEAN]
  OBVIOUS
<1>3. ~busy'[n] /\ \A m \in Nodes \ {n} : busy'[m] = busy[m]
  OBVIOUS
<1> QED
  BY <1>1, <1>2, <1>3 DEF BusyHasAssign

\* SkipAssign keeps every variable typed.
LEMMA SkipAssignTyped ==
  ASSUME TypeInv, NEW n \in Nodes, SkipAssign(n)
  PROVE  TypeInv'
<1> USE DEF TypeInv, TypeOK, SkipAssign, HeadIs
<1>1. RecordsTyped' /\ ApplyTyped' /\ TodoPlanned' /\ inflight' \in 0 .. MaxInflight
  BY HubUndisturbed
<1>2. NodesTyped' /\ BusyHasAssign'
  BY TaskEnds DEF NodesTyped
<1>3. NetTyped'
  BY DEF NetTyped, netVars
<1> QED
  BY <1>1, <1>2, <1>3

\* KeepShard keeps every variable typed.
LEMMA KeepShardTyped ==
  ASSUME TypeInv, NEW n \in Nodes, KeepShard(n)
  PROVE  TypeInv'
<1> USE DEF TypeInv, TypeOK, KeepShard, HeadIs
<1> DEFINE a == Head(tasks[n])
<1>1. RecordsTyped' /\ ApplyTyped' /\ TodoPlanned' /\ inflight' \in 0 .. MaxInflight
  BY HubUndisturbed
<1>2. NodesTyped' /\ BusyHasAssign'
  BY TaskEnds DEF NodesTyped
<1>3. Frame("ready", a.range, a.gen, files[n]) \in ToHubFrames
  BY NextTask, FrameTyped DEF NodesTyped, Tasks, AnswerKinds
<1>4. NetTyped'
  BY <1>3, SaysTyped DEF NetTyped
<1> QED
  BY <1>1, <1>2, <1>4

\* StartLoad keeps every variable typed.
LEMMA StartLoadTyped ==
  ASSUME TypeInv, NEW n \in Nodes, StartLoad(n)
  PROVE  TypeInv'
<1> USE DEF TypeInv, TypeOK, StartLoad, HeadIs
<1>1. RecordsTyped' /\ ApplyTyped' /\ TodoPlanned' /\ inflight' \in 0 .. MaxInflight
  BY HubUndisturbed
<1>2. NodesTyped'
  BY DEF NodesTyped
<1>3. NetTyped'
  BY DEF NetTyped, netVars
<1>4. BusyHasAssign'
  BY DEF BusyHasAssign, NodesTyped
<1> QED
  BY <1>1, <1>2, <1>3, <1>4

\* FinishLoad keeps every variable typed.
LEMMA FinishLoadTyped ==
  ASSUME TypeInv, NEW n \in Nodes, FinishLoad(n)
  PROVE  TypeInv'
<1> USE DEF TypeInv, TypeOK, FinishLoad
<1> DEFINE a == Head(tasks[n])
<1>1. RecordsTyped' /\ ApplyTyped' /\ TodoPlanned' /\ inflight' \in 0 .. MaxInflight
  BY HubUndisturbed
<1>2. tasks[n] # <<>>
  BY DEF BusyHasAssign
<1>3. a \in Tasks /\ a.range \in Ranges /\ a.gen \in Nat
  BY <1>2, NextTask DEF Tasks
<1>4. FilesAfterLoad(n, a.range) \in SUBSET LayerIds
  BY <1>3, FilesAfterLoadTyped
<1>5. files' \in [Nodes -> SUBSET LayerIds]
  BY <1>4 DEF NodesTyped
<1>6. tasks' \in [Nodes -> Seq(Tasks)] /\ busy' \in [Nodes -> BOOLEAN] /\ BusyHasAssign'
  BY <1>2, TaskEnds
<1>7. NodesTyped'
  BY <1>3, <1>5, <1>6 DEF NodesTyped
<1>8. Frame("ready", a.range, a.gen, files'[n]) \in ToHubFrames
  BY <1>3, <1>5, FrameTyped DEF AnswerKinds
<1>9. NetTyped'
  BY <1>8, SaysTyped DEF NetTyped
<1> QED
  BY <1>1, <1>6, <1>7, <1>9

\* FailLoad keeps every variable typed.
LEMMA FailLoadTyped ==
  ASSUME TypeInv, NEW n \in Nodes, FailLoad(n)
  PROVE  TypeInv'
<1> USE DEF TypeInv, TypeOK, FailLoad
<1> DEFINE a == Head(tasks[n])
<1>1. RecordsTyped' /\ ApplyTyped' /\ TodoPlanned' /\ inflight' \in 0 .. MaxInflight
  BY HubUndisturbed
<1>2. tasks[n] # <<>>
  BY DEF BusyHasAssign
<1>3. NodesTyped' /\ BusyHasAssign'
  BY <1>2, TaskEnds DEF NodesTyped
<1>4. Frame("error", a.range, a.gen, {}) \in ToHubFrames
  BY <1>2, NextTask, FrameTyped DEF Tasks, AnswerKinds
<1>5. NetTyped'
  BY <1>4, SaysTyped DEF NetTyped
<1> QED
  BY <1>1, <1>3, <1>5, FaultTyped

\* Prefetch keeps every variable typed.
LEMMA PrefetchTyped ==
  ASSUME TypeInv, NEW n \in Nodes, Prefetch(n)
  PROVE  TypeInv'
<1> USE DEF TypeInv, TypeOK, Prefetch, HeadIs
<1> DEFINE a == Head(tasks[n])
<1>1. RecordsTyped' /\ ApplyTyped' /\ TodoPlanned' /\ inflight' \in 0 .. MaxInflight
  BY HubUndisturbed
<1>2. a.range \in Ranges /\ a.gen \in Nat
  BY NextTask DEF Tasks
<1>3. tasks' \in [Nodes -> Seq(Tasks)] /\ busy' \in [Nodes -> BOOLEAN] /\ BusyHasAssign'
  BY TaskEnds
<1>4. files' \in [Nodes -> SUBSET LayerIds]
  <2>1. Held(a.range) \subseteq LayerIds
    BY <1>2, HeldLayers
  <2>2. files \in [Nodes -> SUBSET LayerIds]
    BY DEF NodesTyped
  <2> QED
    BY <2>1, <2>2
<1>5. NodesTyped'
  BY <1>3, <1>4 DEF NodesTyped
<1>6. /\ Frame("prefetched", a.range, a.gen, {}) \in ToHubFrames
      /\ Frame("unfetched", a.range, a.gen, {}) \in ToHubFrames
  BY <1>2, FrameTyped DEF AnswerKinds
<1>7. NetTyped'
  BY <1>6, SaysTyped DEF NetTyped
<1> QED
  BY <1>1, <1>3, <1>5, <1>7, FaultTyped

-----------------------------------------------------------------------------
(***************************************************************************)
(* The hub's handlers.                                                     *)
(***************************************************************************)

\* A step of a handler leaves the plan and the nodes alone.
LEMMA RestUndisturbed ==
  ASSUME TypeInv, UNCHANGED <<gen, committed, phase, plan, todo, gate, queued,
                              inflight, nodeVars>>,
         wait' \in [Nodes -> {"none", "wait", "ok", "failed"}]
  PROVE  /\ ApplyTyped' /\ NodesTyped' /\ BusyHasAssign' /\ TodoPlanned'
         /\ inflight' \in 0 .. MaxInflight
BY DEF TypeInv, TypeOK, ApplyTyped, NodesTyped, BusyHasAssign, TodoPlanned,
       Members, nodeVars

\* HubHello keeps every variable typed.
LEMMA HubHelloTyped ==
  ASSUME TypeInv, NEW n \in Nodes, NEW c \in Conns, HubHello(n, c)
  PROVE  TypeInv'
<1> USE DEF TypeInv, TypeOK, HubHello
<1>1. wait' \in [Nodes -> {"none", "wait", "ok", "failed"}]
  BY DEF applyVars, ApplyTyped
<1>2. /\ ApplyTyped' /\ NodesTyped' /\ BusyHasAssign' /\ TodoPlanned'
      /\ inflight' \in 0 .. MaxInflight
  BY <1>1, RestUndisturbed DEF applyVars
<1>3. Head(toHub[n][c]).files \in SUBSET LayerIds
  BY HeardTyped DEF AnswerKinds, Answers
<1>4. RecordsTyped'
  <2>1. ws' \in [Nodes -> 0 .. MaxConn]
    BY BoundsAssumption DEF RecordsTyped, Conns
  <2>2. role' \in [Nodes -> Roles]
    BY DEF RecordsTyped, Roles
  <2>3. disk' \in [Nodes -> SUBSET LayerIds]
    BY <1>3 DEF RecordsTyped
  <2>4. pendingGen' \in [Nodes -> Nat]
    BY DEF RecordsTyped, ApplyTyped
  <2> QED
    BY <2>1, <2>2, <2>3, <2>4 DEF RecordsTyped
<1>5. toNode' \in [Nodes -> Seq(ToNodeFrames)]
  <2> DEFINE f == [t |-> "assign", range |-> committed[n], gen |-> gen]
  <2>1. CASE committed[n] # NoRange
    <3>1. f \in Tasks
      BY <2>1 DEF ApplyTyped, Layouts, Tasks, TaskKinds
    <3>2. Sent(n, c, f) \in [Nodes -> Seq(ToNodeFrames)]
      BY <3>1, SentTyped
    <3> QED
      BY <2>1, <3>2
  <2>2. CASE committed[n] = NoRange
    BY <2>2 DEF NetTyped
  <2> QED
    BY <2>1, <2>2
<1>6. toHub' \in [Nodes -> [Conns -> Seq(ToHubFrames)]]
  <2>1. Tail(toHub[n][c]) \in Seq(ToHubFrames)
    BY DEF NetTyped, Hears
  <2>2. [d \in Conns |-> IF d = c THEN Tail(toHub[n][c])
                         ELSE IF Linger THEN toHub[n][d] ELSE <<>>]
          \in [Conns -> Seq(ToHubFrames)]
    BY <2>1 DEF NetTyped
  <2> QED
    BY <2>2 DEF NetTyped, TakeAndClose
<1>7. NetTyped'
  BY <1>5, <1>6 DEF NetTyped
<1> QED
  BY <1>2, <1>4, <1>7

\* HubReady keeps every variable typed.
LEMMA HubReadyTyped ==
  ASSUME TypeInv, NEW n \in Nodes, NEW c \in Conns, HubReady(n, c)
  PROVE  TypeInv'
<1> USE DEF TypeInv, TypeOK, HubReady
<1> DEFINE f == Head(toHub[n][c])
<1>1. f.range \in Ranges \cup {NoRange} /\ f.files \in SUBSET LayerIds
  BY HeardTyped DEF AnswerKinds, Answers
<1>2. wait' \in [Nodes -> {"none", "wait", "ok", "failed"}]
  BY DEF ApplyTyped
<1>3. /\ ApplyTyped' /\ NodesTyped' /\ BusyHasAssign' /\ TodoPlanned'
      /\ inflight' \in 0 .. MaxInflight
  BY <1>2, RestUndisturbed
<1>4. RecordsTyped'
  <2>1. role' \in [Nodes -> Roles]
    BY DEF RecordsTyped, Roles
  <2>2. layers' \in [Nodes -> Ranges \cup {NoRange}]
    BY <1>1 DEF RecordsTyped
  <2>3. disk' \in [Nodes -> SUBSET LayerIds]
    BY <1>1 DEF RecordsTyped
  <2>4. ready' \in [Nodes -> BOOLEAN]
    BY DEF RecordsTyped
  <2> QED
    BY <2>1, <2>2, <2>3, <2>4 DEF RecordsTyped
<1>5. NetTyped'
  BY TakeTyped DEF NetTyped
<1> QED
  BY <1>3, <1>4, <1>5

\* HubError keeps every variable typed.
LEMMA HubErrorTyped ==
  ASSUME TypeInv, NEW n \in Nodes, NEW c \in Conns, HubError(n, c)
  PROVE  TypeInv'
<1> USE DEF TypeInv, TypeOK, HubError
<1>1. wait' \in [Nodes -> {"none", "wait", "ok", "failed"}]
  BY DEF ApplyTyped
<1>2. /\ ApplyTyped' /\ NodesTyped' /\ BusyHasAssign' /\ TodoPlanned'
      /\ inflight' \in 0 .. MaxInflight
  BY <1>1, RestUndisturbed
<1>3. RecordsTyped'
  BY DEF RecordsTyped
<1>4. NetTyped'
  BY TakeTyped DEF NetTyped
<1> QED
  BY <1>2, <1>3, <1>4

\* HubPrefetched keeps every variable typed.
LEMMA HubPrefetchedTyped ==
  ASSUME TypeInv, NEW n \in Nodes, NEW c \in Conns, HubPrefetched(n, c)
  PROVE  TypeInv'
<1> USE DEF TypeInv, TypeOK, HubPrefetched
<1>1. wait' \in [Nodes -> {"none", "wait", "ok", "failed"}]
  BY DEF ApplyTyped
<1>2. /\ ApplyTyped' /\ NodesTyped' /\ BusyHasAssign' /\ TodoPlanned'
      /\ inflight' \in 0 .. MaxInflight
  BY <1>1, RestUndisturbed
<1>3. RecordsTyped'
  BY DEF RecordsTyped, recordVars
<1>4. NetTyped'
  BY TakeTyped DEF NetTyped
<1> QED
  BY <1>2, <1>3, <1>4

\* HandlerEnds keeps every variable typed.
LEMMA HandlerEndsTyped ==
  ASSUME TypeInv, NEW n \in Nodes, NEW c \in Conns, HandlerEnds(n, c)
  PROVE  TypeInv'
<1> USE DEF TypeInv, TypeOK, HandlerEnds
<1>1. /\ wait' \in [Nodes -> {"none", "wait", "ok", "failed"}]
      /\ ws' \in [Nodes -> 0 .. MaxConn]
      /\ ready' \in [Nodes -> BOOLEAN]
      /\ role' \in [Nodes -> Roles]
  BY LeftTyped DEF RecordsTyped, ApplyTyped
<1>2. /\ ApplyTyped' /\ NodesTyped' /\ BusyHasAssign' /\ TodoPlanned'
      /\ inflight' \in 0 .. MaxInflight
  BY <1>1, RestUndisturbed
<1>3. RecordsTyped'
  BY <1>1 DEF RecordsTyped
<1>4. NetTyped'
  BY DEF NetTyped
<1> QED
  BY <1>2, <1>3, <1>4

\* StaleLeft keeps every variable typed.
LEMMA StaleLeftTyped ==
  ASSUME TypeInv, NEW n \in Nodes, StaleLeft(n)
  PROVE  TypeInv'
<1> USE DEF TypeInv, TypeOK, StaleLeft
<1>1. /\ wait' \in [Nodes -> {"none", "wait", "ok", "failed"}]
      /\ ws' \in [Nodes -> 0 .. MaxConn]
      /\ ready' \in [Nodes -> BOOLEAN]
      /\ role' \in [Nodes -> Roles]
  BY LeftTyped
<1>2. /\ ApplyTyped' /\ NodesTyped' /\ BusyHasAssign' /\ TodoPlanned'
      /\ inflight' \in 0 .. MaxInflight
  BY <1>1, RestUndisturbed
<1>3. RecordsTyped'
  BY <1>1 DEF RecordsTyped
<1>4. NetTyped'
  <2>1. [toHub[n] EXCEPT ![ws[n]] = <<>>] \in [Conns -> Seq(ToHubFrames)]
    <3>1. toHub[n] \in [Conns -> Seq(ToHubFrames)]
      BY DEF NetTyped
    <3>2. <<>> \in Seq(ToHubFrames)
      OBVIOUS
    <3> HIDE DEF StaleLeft, TypeInv, TypeOK
    <3> QED
      BY <3>1, <3>2
  <2>2. toHub' \in [Nodes -> [Conns -> Seq(ToHubFrames)]]
    BY <2>1 DEF NetTyped
  <2> QED
    BY <2>2 DEF NetTyped
<1> QED
  BY <1>2, <1>3, <1>4, FaultTyped

\* Heartbeats coming late or again keep the types.
LEMMA HeartbeatsTyped ==
  ASSUME TypeInv, NEW n \in Nodes, HeartbeatLate(n) \/ Heartbeat(n)
  PROVE  TypeInv'
<1> USE DEF TypeInv, TypeOK, HeartbeatLate, Heartbeat
<1>1. wait' \in [Nodes -> {"none", "wait", "ok", "failed"}]
  BY DEF applyVars, ApplyTyped
<1>2. /\ ApplyTyped' /\ NodesTyped' /\ BusyHasAssign' /\ TodoPlanned'
      /\ inflight' \in 0 .. MaxInflight
  BY <1>1, RestUndisturbed DEF applyVars
<1>3. RecordsTyped'
  BY DEF RecordsTyped
<1>4. NetTyped'
  BY DEF NetTyped, netVars
<1> QED
  BY <1>2, <1>3, <1>4, FaultTyped

-----------------------------------------------------------------------------
(***************************************************************************)
(* Requests and the steps of apply_plan.                                   *)
(***************************************************************************)

\* A step of the hub leaves the nodes alone.
LEMMA NodesUndisturbed ==
  ASSUME TypeInv, UNCHANGED nodeVars
  PROVE  NodesTyped' /\ BusyHasAssign'
BY DEF TypeInv, TypeOK, NodesTyped, BusyHasAssign, nodeVars

\* Counting a request in or out keeps inflight within its bounds.
LEMMA RequestsTyped ==
  ASSUME TypeInv, Begin \/ Finish
  PROVE  TypeInv'
<1> USE DEF TypeInv, TypeOK, Begin, Finish
<1>1. NodesTyped' /\ BusyHasAssign'
  BY NodesUndisturbed
<1>2. RecordsTyped'
  BY DEF RecordsTyped, recordVars
<1>3. ApplyTyped' /\ TodoPlanned'
  BY DEF ApplyTyped, TodoPlanned, Members, applyVars
<1>4. NetTyped'
  BY DEF NetTyped, netVars
<1>5. inflight' \in 0 .. MaxInflight
  BY BoundsAssumption
<1> QED
  BY <1>1, <1>2, <1>3, <1>4, <1>5

\* StartApply keeps every variable typed.
LEMMA StartApplyTyped ==
  ASSUME TypeInv, NEW p \in Plans, StartApply(p), queued' \in Plans
  PROVE  TypeInv'
<1> USE DEF TypeInv, TypeOK, StartApply
<1>1. NodesTyped' /\ BusyHasAssign'
  BY NodesUndisturbed
<1>2. RecordsTyped'
  BY DEF RecordsTyped
<1>3. /\ plan' \in Plans
      /\ todo' \in SUBSET Nodes
      /\ wait' \in [Nodes -> {"none", "wait", "ok", "failed"}]
      /\ toNode' \in [Nodes -> Seq(ToNodeFrames)]
      /\ TodoPlanned'
  BY PrefetchForTyped, ChangedAreMembers
<1>4. ApplyTyped'
  BY <1>3 DEF ApplyTyped, Phases, Prefetching
<1>5. NetTyped'
  BY <1>3 DEF NetTyped
<1> QED
  BY <1>1, <1>2, <1>3, <1>4, <1>5

\* ReplanApplies keeps every variable typed.
LEMMA ReplanAppliesTyped ==
  ASSUME TypeInv, ReplanApplies
  PROVE  TypeInv'
<1>1. PICK A \in ComputePlan({}) : StartApply([at |-> A, known |-> Known])
  BY DEF ReplanApplies
<1>2. [at |-> A, known |-> Known] \in Plans
  BY ComputePlanTiles, PlanTyped
<1>3. queued' \in Plans
  BY DEF ReplanApplies, TypeInv, TypeOK, ApplyTyped
<1> QED
  BY <1>1, <1>2, <1>3, StartApplyTyped

\* ManualApplies keeps every variable typed.
LEMMA ManualAppliesTyped ==
  ASSUME TypeInv, ManualApplies
  PROVE  TypeInv'
<1>1. queued \in Plans /\ queued' \in Plans
  BY NoPlanTyped DEF ManualApplies, TypeInv, TypeOK, ApplyTyped
<1> QED
  BY <1>1, StartApplyTyped DEF ManualApplies

\* ReplanParks keeps every variable typed.
LEMMA ReplanParksTyped ==
  ASSUME TypeInv, ReplanParks
  PROVE  TypeInv'
<1> USE DEF TypeInv, TypeOK, ReplanParks
<1>1. NodesTyped' /\ BusyHasAssign'
  BY NodesUndisturbed
<1>2. role' \in [Nodes -> Roles]
  BY ParkedTyped DEF RecordsTyped
<1>3. RecordsTyped'
  BY <1>2 DEF RecordsTyped
<1>4. ApplyTyped' /\ TodoPlanned'
  BY DEF ApplyTyped, TodoPlanned, Members, applyVars
<1>5. NetTyped'
  BY DEF NetTyped, netVars
<1> QED
  BY <1>1, <1>3, <1>4, <1>5

\* ManualReplan keeps every variable typed.
LEMMA ManualReplanTyped ==
  ASSUME TypeInv, ManualReplan
  PROVE  TypeInv'
<1> USE DEF TypeInv, TypeOK, ManualReplan
<1>1. NodesTyped' /\ BusyHasAssign'
  BY NodesUndisturbed
<1>2. PICK A \in ComputePlan({}) :
        /\ queued' = [at |-> A, known |-> Known]
        /\ role' = Parked(queued', committed, role)
  OBVIOUS
<1>3. role' \in [Nodes -> Roles]
  BY <1>2, ParkedTyped DEF RecordsTyped
<1>4. RecordsTyped'
  BY <1>3 DEF RecordsTyped
<1>5. queued' \in Plans
  BY <1>2, ComputePlanTiles, PlanTyped
<1>6. ApplyTyped' /\ TodoPlanned'
  BY <1>5 DEF ApplyTyped, TodoPlanned, Members
<1>7. NetTyped'
  BY DEF NetTyped, netVars
<1> QED
  BY <1>1, <1>4, <1>6, <1>7

\* Timeout keeps every variable typed.
LEMMA TimeoutTyped ==
  ASSUME TypeInv, NEW n \in Nodes, Timeout(n)
  PROVE  TypeInv'
<1> USE DEF TypeInv, TypeOK, Timeout
<1>1. wait' \in [Nodes -> {"none", "wait", "ok", "failed"}]
  BY DEF ApplyTyped
<1>2. /\ ApplyTyped' /\ NodesTyped' /\ BusyHasAssign' /\ TodoPlanned'
      /\ inflight' \in 0 .. MaxInflight
  BY <1>1, RestUndisturbed
<1>3. RecordsTyped'
  BY DEF RecordsTyped, recordVars
<1>4. NetTyped'
  BY DEF NetTyped, netVars
<1> QED
  BY <1>2, <1>3, <1>4, FaultTyped

\* Both ends of a round that does not plan again.
LEMMA RoundEndsTyped ==
  ASSUME TypeInv, StartDrain \/ Abandon,
         UNCHANGED <<gen, committed, queued>>
  PROVE  ApplyTyped' /\ TodoPlanned' /\ UNCHANGED toNode
<1>1. CASE StartDrain
  BY <1>1, NoWaitTyped DEF TypeInv, TypeOK, ApplyTyped, TodoPlanned, Members,
                           StartDrain, Phases
<1>2. CASE Abandon
  BY <1>2, NoWaitTyped, NoPlanTyped
     DEF TypeInv, TypeOK, ApplyTyped, TodoPlanned, Members, Abandon, Phases
<1> QED
  BY <1>1, <1>2

\* EndPrefetch keeps every variable typed.
LEMMA EndPrefetchTyped ==
  ASSUME TypeInv, EndPrefetch
  PROVE  TypeInv'
<1> USE DEF TypeInv, TypeOK
<1>1. NodesTyped' /\ BusyHasAssign'
  BY NodesUndisturbed DEF EndPrefetch
<1>2. RecordsTyped'
  BY FetchedTyped DEF RecordsTyped, EndPrefetch
<1>3. ApplyTyped' /\ TodoPlanned' /\ toNode' \in [Nodes -> Seq(ToNodeFrames)]
  <2>1. CASE StartDrain \/ Abandon
    BY <2>1, RoundEndsTyped DEF EndPrefetch, NetTyped
  <2>2. CASE ~(StartDrain \/ Abandon)
    <3> DEFINE lost == Failed \cup {n \in todo : ws[n] = 0}
    <3>1. PICK A \in ComputePlan(lost) :
            PrefetchFor([at |-> A, known |-> Known],
                        {n \in Changed(A) : ws[n] # 0})
      BY <2>2 DEF EndPrefetch
    <3>2. [at |-> A, known |-> Known] \in Plans
      BY ComputePlanTiles, PlanTyped
    <3>3. /\ plan' \in Plans
          /\ todo' \in SUBSET Nodes
          /\ wait' \in [Nodes -> {"none", "wait", "ok", "failed"}]
          /\ toNode' \in [Nodes -> Seq(ToNodeFrames)]
          /\ TodoPlanned'
      BY <3>1, <3>2, PrefetchForTyped, ChangedAreMembers
    <3>4. UNCHANGED <<gen, committed, queued, gate>> /\ phase' = "prefetch2"
      BY <2>2 DEF EndPrefetch
    <3> QED
      BY <3>3, <3>4 DEF ApplyTyped, Phases, Prefetching
  <2> QED
    BY <2>1, <2>2
<1>4. NetTyped'
  BY <1>3 DEF NetTyped, EndPrefetch
<1> QED
  BY <1>1, <1>2, <1>3, <1>4 DEF EndPrefetch

\* EndPrefetch2 keeps every variable typed.
LEMMA EndPrefetch2Typed ==
  ASSUME TypeInv, EndPrefetch2
  PROVE  TypeInv'
<1> USE DEF TypeInv, TypeOK, EndPrefetch2
<1>1. NodesTyped' /\ BusyHasAssign'
  BY NodesUndisturbed
<1>2. RecordsTyped'
  BY FetchedTyped DEF RecordsTyped
<1>3. ApplyTyped' /\ TodoPlanned' /\ UNCHANGED toNode
  BY RoundEndsTyped
<1>4. NetTyped'
  BY <1>3 DEF NetTyped
<1> QED
  BY <1>1, <1>2, <1>3, <1>4

\* Drained keeps every variable typed.
LEMMA DrainedTyped ==
  ASSUME TypeInv, Drained
  PROVE  TypeInv'
<1> USE DEF TypeInv, TypeOK, Drained
<1>1. NodesTyped' /\ BusyHasAssign'
  BY NodesUndisturbed
<1>2. RecordsTyped'
  BY DEF RecordsTyped, recordVars
<1>3. gen' \in Nat
  BY DEF ApplyTyped
<1>4. ApplyTyped' /\ TodoPlanned'
  BY <1>3 DEF ApplyTyped, TodoPlanned, Members, Phases, Switching
<1>5. NetTyped'
  BY DEF NetTyped, netVars
<1> QED
  BY <1>1, <1>2, <1>4, <1>5, FaultTyped

\* SwitchSend keeps every variable typed.
LEMMA SwitchSendTyped ==
  ASSUME TypeInv, NEW n \in Nodes, SwitchSend(n)
  PROVE  TypeInv'
<1> USE DEF TypeInv, TypeOK
<1> DEFINE f == [t |-> "assign", range |-> plan.at[n], gen |-> gen]
<1>1. NodesTyped' /\ BusyHasAssign'
  BY NodesUndisturbed DEF SwitchSend
<1>2. f \in Tasks
  <2>1. plan.at[n] \in Ranges
    BY DEF SwitchSend, TodoPlanned, Members, ApplyTyped, Plans, Layouts
  <2> QED
    BY <2>1 DEF ApplyTyped, Tasks, TaskKinds
<1>3. CASE ws[n] = 0
  <2>1. RecordsTyped'
    BY <1>3 DEF SwitchSend, RecordsTyped
  <2>2. ApplyTyped' /\ TodoPlanned'
    BY <1>3 DEF SwitchSend, ApplyTyped, TodoPlanned, Members
  <2>3. NetTyped'
    BY <1>3 DEF SwitchSend, NetTyped
  <2> QED
    BY <1>1, <2>1, <2>2, <2>3 DEF SwitchSend
<1>4. CASE ws[n] # 0
  <2>1. role' \in [Nodes -> Roles]
    BY <1>4 DEF SwitchSend, RecordsTyped, Roles
  <2>2. RecordsTyped'
    <3>1. ready' \in [Nodes -> BOOLEAN]
      BY <1>4 DEF SwitchSend, RecordsTyped
    <3>2. pendingGen' \in [Nodes -> Nat]
      BY <1>4 DEF SwitchSend, RecordsTyped, ApplyTyped
    <3> QED
      BY <2>1, <3>1, <3>2 DEF SwitchSend, RecordsTyped
  <2>3. wait' \in [Nodes -> {"none", "wait", "ok", "failed"}]
    BY <1>4 DEF SwitchSend, ApplyTyped
  <2>4. ApplyTyped' /\ TodoPlanned'
    BY <2>3 DEF SwitchSend, ApplyTyped, TodoPlanned, Members
  <2>5. Sent(n, ws[n], f) \in [Nodes -> Seq(ToNodeFrames)]
    BY <1>2, SentTyped
  <2>6. NetTyped'
    BY <1>4, <2>5 DEF SwitchSend, NetTyped
  <2> QED
    BY <1>1, <2>2, <2>4, <2>6 DEF SwitchSend
<1> QED
  BY <1>3, <1>4

\* Commit keeps every variable typed.
LEMMA CommitTyped ==
  ASSUME TypeInv, Commit(plan), UNCHANGED <<gen, queued>>
  PROVE  ApplyTyped' /\ TodoPlanned' /\ role' \in [Nodes -> Roles]
<1> USE DEF TypeInv, TypeOK
<1>1. role' \in [Nodes -> Roles]
  BY BenchedTyped, ParkedTyped DEF Commit, Roles
<1>2. committed' \in Layouts /\ plan' \in Plans /\ wait' = NoWait /\ todo' = {}
  BY NoPlanTyped DEF Commit, ApplyTyped, Plans
<1>3. ApplyTyped' /\ TodoPlanned'
  BY <1>2, NoWaitTyped DEF Commit, ApplyTyped, TodoPlanned, Phases
<1> QED
  BY <1>1, <1>3

\* EndSwitch keeps every variable typed.
LEMMA EndSwitchTyped ==
  ASSUME TypeInv, EndSwitch
  PROVE  TypeInv'
<1> USE DEF TypeInv, TypeOK
<1>1. NodesTyped' /\ BusyHasAssign'
  BY NodesUndisturbed DEF EndSwitch
<1>2. ApplyTyped' /\ TodoPlanned' /\ role' \in [Nodes -> Roles]
  <2>1. CASE Commit(plan)
    BY <2>1, CommitTyped DEF EndSwitch
  <2>2. CASE ~Commit(plan)
    <3>1. PICK A \in ComputePlan(Failed) :
            /\ plan' = [at |-> A, known |-> Known]
            /\ todo' = {n \in Members(A) : layers[n] # A[n]}
      BY <2>2 DEF EndSwitch
    <3>2. plan' \in Plans /\ todo' \subseteq Members(plan'.at)
      BY <3>1, ComputePlanTiles, PlanTyped
    <3>3. ApplyTyped'
      BY <2>2, <3>2, NoWaitTyped
         DEF EndSwitch, ApplyTyped, Phases, Switching, Members
    <3>4. TodoPlanned'
      BY <3>2 DEF TodoPlanned, Members
    <3>5. role' \in [Nodes -> Roles]
      BY <2>2, BenchedTyped DEF EndSwitch
    <3> QED
      BY <3>3, <3>4, <3>5
  <2> QED
    BY <2>1, <2>2
<1>3. RecordsTyped'
  BY <1>2 DEF EndSwitch, RecordsTyped
<1>4. NetTyped'
  BY DEF EndSwitch, NetTyped, netVars
<1> QED
  BY <1>1, <1>2, <1>3, <1>4 DEF EndSwitch

-----------------------------------------------------------------------------
\* Every step keeps the types, one action at a time.
LEMMA NextTyped == TypeInv /\ [Next]_vars => TypeInv'
<1> SUFFICES ASSUME TypeInv, [Next]_vars PROVE TypeInv'
  OBVIOUS
<1>1. CASE UNCHANGED vars
  BY <1>1, StutterTyped
<1>2. CASE \E n \in Nodes : NodeStep(n) \/ Drop(n) \/ FailLoad(n)
  BY <1>2, ConnectTyped, SeesCloseTyped, ReceiveTyped, SkipAssignTyped,
     KeepShardTyped, StartLoadTyped, FinishLoadTyped, PrefetchTyped, DropTyped,
     FailLoadTyped DEF NodeStep
<1>3. CASE \E n \in Nodes, c \in Conns : HubHears(n, c)
  BY <1>3, HubHelloTyped, HubReadyTyped, HubErrorTyped, HubPrefetchedTyped,
     HandlerEndsTyped DEF HubHears
<1>4. CASE \E n \in Nodes :
             StaleLeft(n) \/ HeartbeatLate(n) \/ Heartbeat(n) \/ Timeout(n)
  BY <1>4, StaleLeftTyped, HeartbeatsTyped, TimeoutTyped
<1>5. CASE Begin \/ Finish
  BY <1>5, RequestsTyped
<1>6. CASE ReplanApplies \/ ReplanParks \/ ManualReplan \/ ManualApplies
  BY <1>6, ReplanAppliesTyped, ReplanParksTyped, ManualReplanTyped,
     ManualAppliesTyped
<1>7. CASE ApplyStep
  BY <1>7, EndPrefetchTyped, EndPrefetch2Typed, DrainedTyped, EndSwitchTyped,
     SwitchSendTyped DEF ApplyStep
<1> QED
  BY <1>1, <1>2, <1>3, <1>4, <1>5, <1>6, <1>7 DEF Next, Rebalancing

\* The type invariant and what it rests on hold in every reachable state.
LEMMA TypeInvariant == Spec => []TypeInv
BY InitTyped, NextTyped, PTL DEF Spec

\* Every variable keeps its type, for every cluster: no request is counted out
\* twice, no assign is sent without a range, no frame comes out of a queue that
\* was not put in.
THEOREM TypeCorrect == Spec => []TypeOK
<1>1. TypeInv => TypeOK
  BY DEF TypeInv
<1> QED
  BY <1>1, TypeInvariant, PTL

-----------------------------------------------------------------------------
(***************************************************************************)
(* Only complete layouts are committed.                                    *)
(*                                                                         *)
(* CommittedTiles is not inductive: apply_plan commits what it was given    *)
(* several steps earlier, so the plan it works on, and the one a /rebalance *)
(* call waits with, have to tile the model all along.                      *)
(***************************************************************************)

LayoutInv ==
  /\ CommittedTiles
  /\ phase # "idle" => Tiles(plan.at)
  /\ queued # NoPlan => Tiles(queued.at)

\* Nothing is committed or planned at first.
LEMMA InitLayout == Init => LayoutInv
BY DEF Init, LayoutInv, CommittedTiles

\* Steps that neither plan nor commit.
LEMMA LayoutUndisturbed ==
  ASSUME LayoutInv, UNCHANGED <<committed, phase, plan, queued>>
  PROVE  LayoutInv'
BY DEF LayoutInv, CommittedTiles, Tiles

\* Starting apply_plan on a tiling keeps the layout invariant.
LEMMA StartApplyLayout ==
  ASSUME LayoutInv, NEW p, Tiles(p.at), StartApply(p),
         queued' # NoPlan => Tiles(queued'.at)
  PROVE  LayoutInv'
<1>1. UNCHANGED committed /\ plan' = p
  BY DEF StartApply, PrefetchFor
<1> QED
  BY <1>1 DEF LayoutInv, CommittedTiles, Tiles

\* replan and /rebalance only start or queue tilings.
LEMMA ReplanLayout ==
  ASSUME LayoutInv,
         ReplanApplies \/ ReplanParks \/ ManualReplan \/ ManualApplies
  PROVE  LayoutInv'
<1>1. CASE ReplanApplies
  <2>1. PICK A \in ComputePlan({}) : StartApply([at |-> A, known |-> Known])
    BY <1>1 DEF ReplanApplies
  <2>2. Tiles([at |-> A, known |-> Known].at)
    BY ComputePlanTiles
  <2>3. queued' # NoPlan => Tiles(queued'.at)
    BY <1>1 DEF ReplanApplies, LayoutInv, Tiles
  <2> QED
    BY <2>1, <2>2, <2>3, StartApplyLayout
<1>2. CASE ReplanParks
  BY <1>2, LayoutUndisturbed DEF ReplanParks, applyVars
<1>3. CASE ManualReplan
  <2>1. PICK A \in ComputePlan({}) : queued' = [at |-> A, known |-> Known]
    BY <1>3 DEF ManualReplan
  <2>2. Tiles(queued'.at)
    BY <2>1, ComputePlanTiles
  <2> QED
    BY <1>3, <2>2 DEF ManualReplan, LayoutInv, CommittedTiles, Tiles
<1>4. CASE ManualApplies
  BY <1>4, StartApplyLayout DEF ManualApplies, LayoutInv
<1> QED
  BY <1>1, <1>2, <1>3, <1>4

\* The re-plan after a failed prefetch is a tiling.
LEMMA EndPrefetchLayout ==
  ASSUME LayoutInv, EndPrefetch
  PROVE  LayoutInv'
<1>1. UNCHANGED <<committed, queued>>
  BY DEF EndPrefetch
<1>2. CASE StartDrain
  BY <1>1, <1>2 DEF EndPrefetch, StartDrain, LayoutInv, CommittedTiles, Tiles
<1>3. CASE Abandon
  BY <1>1, <1>3 DEF Abandon, LayoutInv, CommittedTiles, Tiles
<1>4. CASE ~(StartDrain \/ Abandon)
  <2> DEFINE lost == Failed \cup {n \in todo : ws[n] = 0}
  <2>1. PICK A \in ComputePlan(lost) :
          PrefetchFor([at |-> A, known |-> Known],
                      {n \in Changed(A) : ws[n] # 0})
    BY <1>4 DEF EndPrefetch
  <2>2. Tiles(plan'.at)
    BY <2>1, ComputePlanTiles DEF PrefetchFor
  <2> QED
    BY <1>1, <2>2 DEF LayoutInv, CommittedTiles, Tiles
<1> QED
  BY <1>2, <1>3, <1>4

\* The second round keeps or drops the plan it has.
LEMMA EndPrefetch2Layout ==
  ASSUME LayoutInv, EndPrefetch2
  PROVE  LayoutInv'
BY DEF EndPrefetch2, StartDrain, Abandon, LayoutInv, CommittedTiles, Tiles

\* The retry of phase 3 is a tiling, and a commit takes the plan.
LEMMA EndSwitchLayout ==
  ASSUME LayoutInv, EndSwitch
  PROVE  LayoutInv'
<1>1. phase # "idle" /\ UNCHANGED queued
  BY DEF EndSwitch, Switching
<1>2. CASE Commit(plan)
  BY <1>1, <1>2 DEF Commit, LayoutInv, CommittedTiles, Tiles
<1>3. CASE ~Commit(plan)
  <2>1. PICK A \in ComputePlan(Failed) : plan' = [at |-> A, known |-> Known]
    BY <1>3 DEF EndSwitch
  <2>2. Tiles(plan'.at) /\ UNCHANGED committed
    BY <1>3, <2>1, ComputePlanTiles DEF EndSwitch
  <2> QED
    BY <1>1, <2>2 DEF LayoutInv, CommittedTiles, Tiles
<1> QED
  BY <1>2, <1>3

\* Every step keeps the layout invariant: only StartApply, the re-plans and
\* Commit touch it.
LEMMA NextLayout == LayoutInv /\ [Next]_vars => LayoutInv'
<1> SUFFICES ASSUME LayoutInv, [Next]_vars PROVE LayoutInv'
  OBVIOUS
<1>1. CASE UNCHANGED vars
  BY <1>1, LayoutUndisturbed DEF vars, applyVars
<1>2. CASE \E n \in Nodes : NodeStep(n) \/ Drop(n) \/ FailLoad(n)
  <2>1. PICK n \in Nodes : NodeStep(n) \/ Drop(n) \/ FailLoad(n)
    BY <1>2
  <2>2. CASE Connect(n) \/ SeesClose(n) \/ Drop(n)
    BY <2>2, LayoutUndisturbed
       DEF Connect, SeesClose, Drop, Disconnect, applyVars
  <2>3. CASE Receive(n) \/ SkipAssign(n) \/ KeepShard(n) \/ StartLoad(n)
    BY <2>3, LayoutUndisturbed
       DEF Receive, SkipAssign, KeepShard, StartLoad, applyVars
  <2>4. CASE FinishLoad(n) \/ FailLoad(n) \/ Prefetch(n)
    BY <2>4, LayoutUndisturbed DEF FinishLoad, FailLoad, Prefetch, applyVars
  <2> QED
    BY <2>1, <2>2, <2>3, <2>4 DEF NodeStep
<1>3. CASE \E n \in Nodes, c \in Conns : HubHears(n, c)
  BY <1>3, LayoutUndisturbed
     DEF HubHears, HubHello, HubReady, HubError, HubPrefetched, HandlerEnds,
         applyVars
<1>4. CASE \E n \in Nodes :
             StaleLeft(n) \/ HeartbeatLate(n) \/ Heartbeat(n) \/ Timeout(n)
  BY <1>4, LayoutUndisturbed
     DEF StaleLeft, HeartbeatLate, Heartbeat, Timeout, applyVars
<1>5. CASE Begin \/ Finish
  BY <1>5, LayoutUndisturbed DEF Begin, Finish, applyVars
<1>6. CASE ReplanApplies \/ ReplanParks \/ ManualReplan \/ ManualApplies
  BY <1>6, ReplanLayout
<1>7. CASE \E n \in Nodes : SwitchSend(n)
  BY <1>7, LayoutUndisturbed DEF SwitchSend
<1>8. CASE Drained
  BY <1>8 DEF Drained, LayoutInv, CommittedTiles, Tiles
<1>9. CASE EndPrefetch \/ EndPrefetch2 \/ EndSwitch
  BY <1>9, EndPrefetchLayout, EndPrefetch2Layout, EndSwitchLayout
<1> QED
  BY <1>1, <1>2, <1>3, <1>4, <1>5, <1>6, <1>7, <1>8, <1>9
     DEF Next, Rebalancing, ApplyStep

\* Whatever fails while a plan is applied, and however often it is made again,
\* what apply_plan commits is a layout in which every layer has one owner.
THEOREM OnlyTilingsCommitted == Spec => []CommittedTiles
<1>1. LayoutInv => CommittedTiles
  BY DEF LayoutInv
<1> QED
  BY <1>1, InitLayout, NextLayout, PTL DEF Spec

-----------------------------------------------------------------------------
(***************************************************************************)
(* The protocol implements LayoutService: for every cluster, what a caller  *)
(* of the hub sees is a sequence of whole switches.                        *)
(*                                                                         *)
(* Stage says where apply_plan is, gate what a caller may do; the step that *)
(* closes the gate is only a Close of the service if the gate was open till *)
(* then, and the one that commits only a Switch if it was closed, so the    *)
(* two have to agree all along (GateInv).  That the layout taken over is a  *)
(* complete one is LayoutInv.                                              *)
(***************************************************************************)

\* The gate is closed exactly from the drain to the commit.
GateInv == gate = (Stage = "serving")

ServiceInv == TypeInv /\ LayoutInv /\ GateInv

\* A caller sees nothing of a step that leaves these alone.
LEMMA Unseen ==
  ASSUME GateInv, UNCHANGED <<committed, gen, gate, inflight, Stage>>
  PROVE  GateInv' /\ UNCHANGED Service!serviceVars
BY DEF GateInv, Service!serviceVars

\* A step that stays in its phase is one of these.
LEMMA SamePhase ==
  ASSUME GateInv, UNCHANGED <<committed, gen, gate, inflight, phase>>
  PROVE  GateInv' /\ UNCHANGED Service!serviceVars
BY Unseen DEF Stage

\* Requests come and go as the gate says.
LEMMA RequestsSeen ==
  ASSUME GateInv, Begin \/ Finish
  PROVE  GateInv' /\ Service!Next
<1>1. UNCHANGED <<committed, gen, gate, Stage>>
  BY DEF Begin, Finish, applyVars, Stage
<1>2. CASE Begin
  BY <1>1, <1>2 DEF Begin, Service!Next, Service!Admit, GateInv
<1>3. CASE Finish
  BY <1>1, <1>3 DEF Finish, Service!Next, Service!Release, GateInv
<1> QED
  BY <1>2, <1>3

\* A plan is computed, queued or begun unseen.
LEMMA ReplanUnseen ==
  ASSUME GateInv,
         ReplanApplies \/ ReplanParks \/ ManualReplan \/ ManualApplies
  PROVE  GateInv' /\ UNCHANGED Service!serviceVars
<1>1. ASSUME NEW p, StartApply(p)
      PROVE  UNCHANGED <<committed, gen, gate, inflight, Stage>>
  BY <1>1 DEF StartApply, Stage, Switching
<1>2. CASE ReplanApplies
  BY <1>1, <1>2, Unseen DEF ReplanApplies
<1>3. CASE ManualApplies
  BY <1>1, <1>3, Unseen DEF ManualApplies
<1>4. CASE ReplanParks
  BY <1>4, SamePhase DEF ReplanParks, applyVars
<1>5. CASE ManualReplan
  BY <1>5, SamePhase DEF ManualReplan
<1> QED
  BY <1>2, <1>3, <1>4, <1>5

\* The end of a round of phase 1 closes the gate, or is not seen.
LEMMA RoundEndSeen ==
  ASSUME GateInv, EndPrefetch \/ EndPrefetch2
  PROVE  GateInv' /\ [Service!Next]_Service!serviceVars
<1>1. /\ Stage = "serving" /\ gate
      /\ UNCHANGED <<committed, gen, inflight>>
  BY DEF EndPrefetch, EndPrefetch2, Stage, Switching, GateInv
<1>2. CASE StartDrain
  <2>1. Stage' = "draining" /\ gate' = FALSE
    BY <1>2 DEF StartDrain, Stage
  <2> QED
    BY <1>1, <2>1 DEF GateInv, Service!Next, Service!Close
<1>3. CASE ~StartDrain
  <2>1. gate' = gate /\ phase' \in {"idle", "prefetch2"}
    BY <1>3 DEF EndPrefetch, EndPrefetch2, Abandon
  <2>2. Stage' = "serving"
    BY <2>1 DEF Stage, Switching
  <2> QED
    BY <1>1, <2>1, <2>2, Unseen
<1> QED
  BY <1>2, <1>3

\* The end of the drain is the next generation.
LEMMA DrainedSeen ==
  ASSUME GateInv, Drained
  PROVE  GateInv' /\ Service!Next
<1>1. Stage = "draining" /\ Stage' = "switching"
  BY DEF Drained, Stage, Switching
<1> QED
  BY <1>1 DEF Drained, GateInv, Service!Next, Service!Advance

\* A commit is a switch to a complete layout; a retry before it is not seen.
LEMMA SwitchSeen ==
  ASSUME ServiceInv, EndSwitch
  PROVE  GateInv' /\ [Service!Next]_Service!serviceVars
<1> USE DEF ServiceInv
<1>1. /\ phase # "idle" /\ Stage = "switching"
      /\ UNCHANGED <<gen, inflight>>
  BY DEF EndSwitch, Switching, Stage
<1>2. CASE Commit(plan)
  <2>1. Stage' = "serving" /\ gate' = TRUE /\ committed' = plan.at
    BY <1>2 DEF Commit, Stage, Switching
  <2>2. Service!Layouts = Layouts /\ (Service!Tiles(plan.at) <=> Tiles(plan.at))
    BY DEF Service!Layouts, Layouts, Service!Ranges, Ranges, Service!NoRange,
           NoRange, Service!Tiles, Tiles, Service!LayerIds, LayerIds,
           Service!Held, Held
  <2>3. plan.at \in Layouts /\ Tiles(plan.at)
    BY <1>1 DEF TypeInv, TypeOK, ApplyTyped, Plans, LayoutInv
  <2>4. committed' \in Service!TiledLayouts
    BY <2>1, <2>2, <2>3 DEF Service!TiledLayouts
  <2> QED
    BY <1>1, <2>1, <2>4 DEF GateInv, Service!Next, Service!Switch
<1>3. CASE ~Commit(plan)
  <2>1. UNCHANGED <<committed, gate>> /\ phase' = "switch2"
    BY <1>3 DEF EndSwitch
  <2>2. Stage' = "switching"
    BY <2>1 DEF Stage, Switching
  <2> QED
    BY <1>1, <2>1, <2>2, Unseen
<1> QED
  BY <1>2, <1>3

\* Every step of the protocol is a step of the service, or is not seen.
LEMMA StepSeen ==
  ASSUME ServiceInv, [Next]_vars
  PROVE  GateInv' /\ [Service!Next]_Service!serviceVars
<1> USE DEF ServiceInv
<1>1. CASE UNCHANGED vars
  BY <1>1, SamePhase DEF vars, applyVars
<1>2. CASE \E n \in Nodes : NodeStep(n) \/ Drop(n) \/ FailLoad(n)
  BY <1>2, SamePhase
     DEF NodeStep, Connect, SeesClose, Drop, Disconnect, Receive, SkipAssign,
         KeepShard, StartLoad, FinishLoad, FailLoad, Prefetch, applyVars
<1>3. CASE \E n \in Nodes, c \in Conns : HubHears(n, c)
  BY <1>3, SamePhase
     DEF HubHears, HubHello, HubReady, HubError, HubPrefetched, HandlerEnds,
         applyVars
<1>4. CASE \E n \in Nodes :
             StaleLeft(n) \/ HeartbeatLate(n) \/ Heartbeat(n) \/ Timeout(n)
  BY <1>4, SamePhase DEF StaleLeft, HeartbeatLate, Heartbeat, Timeout, applyVars
<1>5. CASE \E n \in Nodes : SwitchSend(n)
  BY <1>5, SamePhase DEF SwitchSend
<1>6. CASE ReplanApplies \/ ReplanParks \/ ManualReplan \/ ManualApplies
  BY <1>6, ReplanUnseen
<1>7. CASE Begin \/ Finish
  BY <1>7, RequestsSeen
<1>8. CASE EndPrefetch \/ EndPrefetch2
  BY <1>8, RoundEndSeen
<1>9. CASE Drained
  BY <1>9, DrainedSeen
<1>10. CASE EndSwitch
  BY <1>10, SwitchSeen
<1> QED
  BY <1>1, <1>2, <1>3, <1>4, <1>5, <1>6, <1>7, <1>8, <1>9, <1>10
     DEF Next, Rebalancing, ApplyStep

\* At first nothing is committed and the gate is open, here and there.
LEMMA InitSeen == Init => GateInv /\ Service!Init
<1>1. Service!NoLayout = NoLayout
  BY DEF Service!NoLayout, NoLayout, Service!NoRange, NoRange
<1>2. Init => /\ committed \in {Service!NoLayout} \cup Service!TiledLayouts
              /\ gen \in Nat
  BY <1>1 DEF Init
<1>3. Init => gate = TRUE /\ Stage = "serving" /\ inflight = 0
  BY DEF Init, Stage, Switching
<1> QED
  BY <1>2, <1>3 DEF GateInv, Service!Init, Init

\* Whatever nodes join, fail, answer late or reconnect, and however often a plan
\* is made again, callers of the hub see the layout service: gate closed, next
\* generation, complete layout, gate open, and requests only in between.
THEOREM RebalanceImplementsService == Spec => ImplementsService
<1>1. Init => ServiceInv /\ Service!Init
  BY InitTyped, InitLayout, InitSeen DEF ServiceInv
<1>2. ServiceInv /\ [Next]_vars
        => ServiceInv' /\ [Service!Next]_Service!serviceVars
  BY NextTyped, NextLayout, StepSeen DEF ServiceInv
<1> QED
  BY <1>1, <1>2, PTL DEF Spec, ImplementsService, Service!Spec
=============================================================================

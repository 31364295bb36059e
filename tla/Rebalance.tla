----------------------------- MODULE Rebalance ------------------------------
(***************************************************************************)
(* The hub's rebalancing protocol and the nodes it moves.                  *)
(*                                                                         *)
(* The hub (dllm/hub.py) is one asyncio thread: an action is what it does  *)
(* between two awaits.  It keeps a record per node, the committed layout   *)
(* (plan_state) and at most one running apply_plan coroutine, whose steps  *)
(* are the values of phase.  A node (dllm/np_node.py, dllm/node.py) holds  *)
(* one shard; assigns and prefetches run beside its message loop under a   *)
(* FIFO lock.  They talk over one WebSocket per connection: FIFO in both   *)
(* directions, lost when the connection drops.                             *)
(*                                                                         *)
(* Abstracted: the planner chooses any layout placement.plan could return  *)
(* (its costs are not modelled here); requests are a count (inflight);     *)
(* heartbeats are the flag fresh; the debounce of schedule_replan is left  *)
(* out, so a plan may come at any moment.  Every node announces reassign,  *)
(* as each node program of the repository does.                            *)
(***************************************************************************)
EXTENDS Layers, Sequences

CONSTANTS
  MaxConn,      \* bound: connections a node opens
  MaxGen,       \* bound: generation up to which a working layout is replaced
  MaxInflight,  \* bound: requests in flight at once
  MaxFaults,    \* bound: drops, failed loads and fetches, early timeouts
  StartFiles,   \* layer sets a node may find on its disk when it first starts
  KeepsFiles,   \* nodes that keep foreign shards (node.py); others drop them
  Linger,       \* TRUE: frames in flight on a replaced socket still arrive
  RejoinMidSwitch,  \* TRUE: a node may reconnect while phase 3 runs
  LateAnswers,  \* TRUE: a member may answer after the first switch gave it up
  OtherFrames   \* frames of other components that share the sockets

ASSUME BoundsAssumption ==
  /\ MaxConn \in Nat \ {0} /\ MaxGen \in Nat
  /\ MaxInflight \in Nat /\ MaxFaults \in Nat
ASSUME ChoicesAssumption ==
  /\ StartFiles \subseteq SUBSET LayerIds
  /\ KeepsFiles \subseteq Nodes
  /\ Linger \in BOOLEAN /\ RejoinMidSwitch \in BOOLEAN
  /\ LateAnswers \in BOOLEAN

\* The kinds of frame this module sends: tasks to a node, answers to the hub.
TaskKinds   == {"assign", "prefetch"}
AnswerKinds == {"hello", "ready", "error", "prefetched", "unfetched"}
ASSUME OtherFramesAssumption ==
  \A f \in OtherFrames : f.t \notin TaskKinds \cup AnswerKinds

VARIABLES
  \* The hub's node records.
  ws,          \* ws[n]: the connection the record is bound to, 0 for none
  ready,       \* ready[n]: the node said it serves layers[n]
  layers,      \* layers[n]: the range the hub believes n holds
  role,        \* role[n], "none" before the first hello
  pendingGen,  \* pendingGen[n]: generation of the last assign sent to n
  disk,        \* disk[n]: layer files the hub believes n has
  fresh,       \* fresh[n]: a heartbeat came in the last HB_TIMEOUT seconds
  \* plan_state and the apply_plan coroutine.
  gen, committed,
  phase,       \* where apply_plan is; "idle" when plan_lock is free
  plan,        \* the plan being applied: its layout and the records it saw
  todo,        \* members still to prefetch for, or to send an assign to
  wait,        \* wait[n]: state of the waiter on n's answer
  gate,        \* gen_gate
  queued,      \* the plan of a /rebalance call waiting for plan_lock
  inflight,
  \* The nodes.
  conn,        \* conn[n]: connections opened so far, the last one current
  up,          \* up[n]: the node's end of connection conn[n] is open
  shard,       \* shard[n]: the range loaded in memory
  files,       \* files[n]: layer files on disk
  tasks,       \* tasks[n]: spawned on_assign and on_prefetch, in lock order
  busy,        \* busy[n]: the first task runs load_range in its thread
  \* The network.
  toNode,      \* toNode[n]: frames to the node on its current connection
  toHub,       \* toHub[n][c]: frames from the node on connection c
  open,        \* open[n]: connections whose ws_node handler still runs
  faults       \* faults so far, bounded by MaxFaults

recordVars == <<ws, ready, layers, role, pendingGen, disk, fresh>>
applyVars  == <<gen, committed, phase, plan, todo, wait, gate, queued>>
nodeVars   == <<conn, up, shard, files, tasks, busy>>
netVars    == <<toNode, toHub, open>>
vars       == <<recordVars, applyVars, inflight, nodeVars, netVars, faults>>

Conns == 1 .. MaxConn
Roles == {"none", "joining", "active", "reassigning", "standby", "absent"}
Prefetching == {"prefetch", "prefetch2"}
Switching   == {"switch", "switch2"}
Phases      == {"idle", "drain"} \cup Prefetching \cup Switching
Plans       == [at : Layouts, known : SUBSET Nodes]
NoPlan      == [at |-> NoLayout, known |-> {}]

Tasks   == [t : TaskKinds, range : Ranges, gen : Nat]
Answers == [t : AnswerKinds, range : Ranges \cup {NoRange}, gen : Nat,
            files : SUBSET LayerIds]
ToNodeFrames == Tasks \cup OtherFrames
ToHubFrames  == Answers \cup OtherFrames

RecordsTyped ==
  /\ ws \in [Nodes -> 0 .. MaxConn]
  /\ ready \in [Nodes -> BOOLEAN]
  /\ layers \in [Nodes -> Ranges \cup {NoRange}]
  /\ role \in [Nodes -> Roles]
  /\ pendingGen \in [Nodes -> Nat]
  /\ disk \in [Nodes -> SUBSET LayerIds]
  /\ fresh \in [Nodes -> BOOLEAN]
ApplyTyped ==
  /\ gen \in Nat
  /\ committed \in Layouts
  /\ phase \in Phases
  /\ plan \in Plans
  /\ todo \in SUBSET Nodes
  /\ wait \in [Nodes -> {"none", "wait", "ok", "failed"}]
  /\ gate \in BOOLEAN
  /\ queued \in Plans
NodesTyped ==
  /\ conn \in [Nodes -> 0 .. MaxConn]
  /\ up \in [Nodes -> BOOLEAN]
  /\ shard \in [Nodes -> Ranges \cup {NoRange}]
  /\ files \in [Nodes -> SUBSET LayerIds]
  /\ tasks \in [Nodes -> Seq(Tasks)]
  /\ busy \in [Nodes -> BOOLEAN]
NetTyped ==
  /\ toNode \in [Nodes -> Seq(ToNodeFrames)]
  /\ toHub \in [Nodes -> [Conns -> Seq(ToHubFrames)]]
  /\ open \in [Nodes -> SUBSET Conns]

\* Every variable has its type: in particular requests are counted out as often
\* as in, and no assign is ever sent without a range.
TypeOK ==
  /\ RecordsTyped /\ ApplyTyped /\ NodesTyped /\ NetTyped
  /\ inflight \in 0 .. MaxInflight
  /\ faults \in 0 .. MaxFaults

\* The hub starts with no records and no plan, the nodes not yet connected.
Init ==
  /\ ws = [n \in Nodes |-> 0]
  /\ ready = [n \in Nodes |-> FALSE]
  /\ layers = NoLayout
  /\ role = [n \in Nodes |-> "none"]
  /\ pendingGen = [n \in Nodes |-> 0]
  /\ disk = [n \in Nodes |-> {}]
  /\ fresh = [n \in Nodes |-> FALSE]
  /\ gen = 0
  /\ committed = NoLayout
  /\ phase = "idle"
  /\ plan = NoPlan
  /\ todo = {}
  /\ wait = [n \in Nodes |-> "none"]
  /\ gate = TRUE
  /\ queued = NoPlan
  /\ inflight = 0
  /\ conn = [n \in Nodes |-> 0]
  /\ up = [n \in Nodes |-> FALSE]
  /\ shard = NoLayout
  /\ files \in [Nodes -> StartFiles]
  /\ tasks = [n \in Nodes |-> <<>>]
  /\ busy = [n \in Nodes |-> FALSE]
  /\ toNode = [n \in Nodes |-> <<>>]
  /\ toHub = [n \in Nodes |-> [c \in Conns |-> <<>>]]
  /\ open = [n \in Nodes |-> {}]
  /\ faults = 0

-----------------------------------------------------------------------------
(***************************************************************************)
(* What the hub and the planner read.                                      *)
(***************************************************************************)

Live(n) == ws[n] # 0 /\ ready[n] /\ fresh[n]

\* _assigned_live and pipeline: the committed members that are live and hold
\* exactly what the plan says; a request is served when they tile the model.
Serves(n) == committed[n] # NoRange /\ Live(n) /\ layers[n] = committed[n]
Serving   == [n \in Nodes |-> IF Serves(n) THEN committed[n] ELSE NoRange]
PipelineComplete == Tiles(Serving)

Present == {n \in Nodes : ws[n] # 0}
Known   == {n \in Nodes : role[n] # "none"}

\* compute_plan(exclude): excluded nodes are marked ineligible, and the planner
\* takes ineligible nodes back as a last resort when nothing else fits.
ComputePlan(exclude) ==
  LET without == Tilings(Present \ exclude)
  IN  IF without # {} THEN without ELSE Tilings(Present)

\* Mutant of Holds: a member that is connected counts as holding its range.
HoldsPresent(n) == ws[n] # 0

\* The planner's complete_now: every committed member still holds its range.
Holds(n) == /\ ws[n] # 0
            /\ layers[n] = committed[n]
            /\ Live(n) \/ role[n] = "active"
CompleteNow == Tiles(committed) /\ \A n \in Members(committed) : Holds(n)

\* Members a layout would have to be sent to.
Changed(A) == {n \in Members(A) : committed[n] # A[n] \/ layers[n] # A[n]}

Waiting == {n \in Nodes : wait[n] = "wait"}
Failed  == {n \in Nodes : wait[n] = "failed"}
NoWait  == [n \in Nodes |-> "none"]

\* A frame the hub sends reaches the node only on the node's open connection.
Reaches(n, c) == up[n] /\ conn[n] = c
Sent(n, c, f) ==
  IF Reaches(n, c) THEN [toNode EXCEPT ![n] = Append(@, f)] ELSE toNode

Fault == /\ faults < MaxFaults
         /\ faults' = faults + 1

-----------------------------------------------------------------------------
(***************************************************************************)
(* The node: connecting, dropping, and the tasks its message loop spawns.  *)
(***************************************************************************)

Frame(t, r, g, fs) == [t |-> t, range |-> r, gen |-> g, files |-> fs]

\* Frames n sends on its current connection.
Says(n, f) == toHub' = [toHub EXCEPT ![n][conn[n]] = Append(@, f)]

\* forever -> run: connect and say hello with the layers found on disk.
Connect(n) ==
  /\ ~up[n] /\ conn[n] < MaxConn
  /\ up' = [up EXCEPT ![n] = TRUE]
  /\ conn' = [conn EXCEPT ![n] = @ + 1]
  /\ toHub' = [toHub EXCEPT ![n][conn[n] + 1] =
                 <<Frame("hello", NoRange, 0, files[n])>>]
  /\ open' = [open EXCEPT ![n] = @ \cup {conn[n] + 1}]
  /\ UNCHANGED <<recordVars, applyVars, inflight, shard, files, tasks, busy,
                 toNode, faults>>

\* What a load of range r leaves on disk.
FilesAfterLoad(n, r) ==
  IF n \in KeepsFiles THEN files[n] \cup Held(r) ELSE Held(r)

\* The node's end closes: its shard and tasks go with run(), the frames it had
\* sent survive up to some point, a load may or may not have changed the disk.
Disconnect(n, kept) ==
  /\ up[n]
  /\ up' = [up EXCEPT ![n] = FALSE]
  /\ shard' = [shard EXCEPT ![n] = NoRange]
  /\ tasks' = [tasks EXCEPT ![n] = <<>>]
  /\ busy' = [busy EXCEPT ![n] = FALSE]
  /\ toNode' = [toNode EXCEPT ![n] = <<>>]
  /\ toHub' = [toHub EXCEPT ![n][conn[n]] = SubSeq(@, 1, kept)]
  /\ files' \in IF busy[n]
                THEN {files, [files EXCEPT ![n] =
                                FilesAfterLoad(n, Head(tasks[n]).range)]}
                ELSE {files}
  /\ UNCHANGED <<recordVars, applyVars, inflight, conn, open>>

\* The network or the process fails.
Drop(n) == /\ up[n] /\ Fault
           /\ \E kept \in 0 .. Len(toHub[n][conn[n]]) : Disconnect(n, kept)

\* The hub has said hello to connection c, so frames of another kind follow.
Greeted(n, c) == \A i \in DOMAIN toHub[n][c] : toHub[n][c][i].t # "hello"

\* The hub closed connection c: replaced, or silent for too long.
GivenUp(n, c) == c \in open[n] /\ Greeted(n, c) /\ ws[n] # c

\* The hub's close reaches a node that is still there.
SeesClose(n) ==
  /\ up[n] /\ (conn[n] \notin open[n] \/ GivenUp(n, conn[n]))
  /\ Disconnect(n, Len(toHub[n][conn[n]]))
  /\ UNCHANGED faults

\* The message loop spawns the task a frame asks for.
Receive(n) ==
  /\ toNode[n] # <<>> /\ Head(toNode[n]).t \in TaskKinds
  /\ tasks' = [tasks EXCEPT ![n] = Append(@, Head(toNode[n]))]
  /\ toNode' = [toNode EXCEPT ![n] = Tail(@)]
  /\ UNCHANGED <<recordVars, applyVars, inflight, conn, up, shard, files, busy,
                 toHub, open, faults>>

Superseded(n) ==
  \E i \in 2 .. Len(tasks[n]) : tasks[n][i].t = "assign"

HeadIs(n, t) == tasks[n] # <<>> /\ ~busy[n] /\ Head(tasks[n]).t = t

\* on_assign gets the lock but a newer assign has come: skipped in silence.
SkipAssign(n) ==
  /\ HeadIs(n, "assign") /\ Superseded(n)
  /\ tasks' = [tasks EXCEPT ![n] = Tail(@)]
  /\ UNCHANGED <<recordVars, applyVars, inflight, conn, up, shard, files, busy,
                 netVars, faults>>

\* The range is already loaded: answer at once with the files now on disk.
KeepShard(n) ==
  /\ HeadIs(n, "assign") /\ ~Superseded(n)
  /\ LET a == Head(tasks[n]) IN
       /\ shard[n] = a.range
       /\ Says(n, Frame("ready", a.range, a.gen, files[n]))
  /\ tasks' = [tasks EXCEPT ![n] = Tail(@)]
  /\ UNCHANGED <<recordVars, applyVars, inflight, conn, up, shard, files, busy,
                 toNode, open, faults>>

\* Give the old shard up and start load_range in a thread.
StartLoad(n) ==
  /\ HeadIs(n, "assign") /\ ~Superseded(n)
  /\ shard[n] # Head(tasks[n]).range
  /\ shard' = [shard EXCEPT ![n] = NoRange]
  /\ busy' = [busy EXCEPT ![n] = TRUE]
  /\ UNCHANGED <<recordVars, applyVars, inflight, conn, up, files, tasks,
                 netVars, faults>>

\* load_range returns and the node says ready.
FinishLoad(n) ==
  /\ busy[n]
  /\ LET a == Head(tasks[n]) IN
       /\ shard' = [shard EXCEPT ![n] = a.range]
       /\ files' = [files EXCEPT ![n] = FilesAfterLoad(n, a.range)]
       /\ Says(n, Frame("ready", a.range, a.gen, files'[n]))
  /\ tasks' = [tasks EXCEPT ![n] = Tail(@)]
  /\ busy' = [busy EXCEPT ![n] = FALSE]
  /\ UNCHANGED <<recordVars, applyVars, inflight, conn, up, toNode, open, faults>>

\* load_range raises: the node says so and holds nothing.
FailLoad(n) ==
  /\ busy[n] /\ Fault
  /\ LET a == Head(tasks[n]) IN Says(n, Frame("error", a.range, a.gen, {}))
  /\ tasks' = [tasks EXCEPT ![n] = Tail(@)]
  /\ busy' = [busy EXCEPT ![n] = FALSE]
  /\ UNCHANGED <<recordVars, applyVars, inflight, conn, up, shard, files,
                 toNode, open>>

\* on_prefetch fetches the range, or reports that it could not.
Prefetch(n) ==
  /\ HeadIs(n, "prefetch")
  /\ LET a == Head(tasks[n]) IN
       \/ /\ files' = [files EXCEPT ![n] = @ \cup Held(a.range)]
          /\ Says(n, Frame("prefetched", a.range, a.gen, {}))
          /\ UNCHANGED faults
       \/ /\ Fault
          /\ Says(n, Frame("unfetched", a.range, a.gen, {}))
          /\ UNCHANGED files
  /\ tasks' = [tasks EXCEPT ![n] = Tail(@)]
  /\ UNCHANGED <<recordVars, applyVars, inflight, conn, up, shard, busy, toNode,
                 open>>

-----------------------------------------------------------------------------
(***************************************************************************)
(* The hub's socket handlers (ws_node and what it calls).                  *)
(***************************************************************************)

\* The next frame of connection c, of kind t.
Hears(n, c, t) ==
  /\ c \in open[n] /\ toHub[n][c] # <<>>
  /\ Head(toHub[n][c]).t = t

Take(n, c) == toHub' = [toHub EXCEPT ![n][c] = Tail(@)]

\* Frames of the sockets the hub gives up, unless they linger.
TakeAndClose(n, c) ==
  toHub' = [toHub EXCEPT ![n] = [d \in Conns |->
              IF d = c THEN Tail(toHub[n][c])
              ELSE IF Linger \/ d > c THEN toHub[n][d] ELSE <<>>]]

\* Mutant of HubHello: the record keeps what the old socket said, so a member
\* is not told its range again.
HubHelloKeeps(n, c) ==
  /\ Hears(n, c, "hello")
  /\ phase \in Switching => RejoinMidSwitch
  /\ \A d \in open[n] : d < c => Greeted(n, d)
  /\ ws' = [ws EXCEPT ![n] = c]
  /\ disk' = [disk EXCEPT ![n] = Head(toHub[n][c]).files]
  /\ fresh' = [fresh EXCEPT ![n] = TRUE]
  /\ role' = [role EXCEPT ![n] = "active"]
  /\ TakeAndClose(n, c)
  /\ UNCHANGED <<ready, layers, pendingGen, toNode, applyVars, inflight,
                 nodeVars, open, faults>>

\* _hello: bind the record to the new socket, forget what the old one said, and
\* hand a committed member its range back at once.
HubHello(n, c) ==
  /\ Hears(n, c, "hello")
  /\ phase \in Switching => RejoinMidSwitch
  /\ \A d \in open[n] : d < c => Greeted(n, d)
  /\ ws' = [ws EXCEPT ![n] = c]
  /\ ready' = [ready EXCEPT ![n] = FALSE]
  /\ layers' = [layers EXCEPT ![n] = NoRange]
  /\ disk' = [disk EXCEPT ![n] = Head(toHub[n][c]).files]
  /\ fresh' = [fresh EXCEPT ![n] = TRUE]
  /\ IF committed[n] # NoRange
     THEN /\ role' = [role EXCEPT ![n] = "active"]
          /\ pendingGen' = [pendingGen EXCEPT ![n] = gen]
          /\ toNode' = Sent(n, c, [t |-> "assign", range |-> committed[n],
                                   gen |-> gen])
     ELSE /\ role' = [role EXCEPT ![n] = "joining"]
          /\ UNCHANGED <<pendingGen, toNode>>
  /\ TakeAndClose(n, c)
  /\ UNCHANGED <<applyVars, inflight, nodeVars, open, faults>>

\* The waiter of generation g that apply_plan has on n's answer, if any.
AwaitsReady(n, g)    == phase \in Switching /\ wait[n] = "wait" /\ g = gen
AwaitsPrefetch(n, g) == phase \in Prefetching /\ wait[n] = "wait" /\ g = gen + 1

\* Mutant of Current: the generation of an answer is not looked at.
AnyAnswer(n, g) == g \in Nat

\* The answer is to the last assign sent to n, or of the current generation.
Current(n, g) == g \in {pendingGen[n], gen}

\* _on_ready: an answer to a superseded assign is ignored; any other becomes
\* what the hub believes, and wakes the waiter of its generation.
HubReady(n, c) ==
  /\ Hears(n, c, "ready")
  /\ LET f == Head(toHub[n][c]) IN
       IF Current(n, f.gen)
       THEN /\ layers' = [layers EXCEPT ![n] = f.range]
            /\ ready' = [ready EXCEPT ![n] = TRUE]
            /\ disk' = [disk EXCEPT ![n] = f.files]
            /\ role' = IF committed[n] = f.range
                       THEN [role EXCEPT ![n] = "active"] ELSE role
            /\ wait' = IF AwaitsReady(n, f.gen)
                       THEN [wait EXCEPT ![n] = "ok"] ELSE wait
       ELSE UNCHANGED <<layers, ready, disk, role, wait>>
  /\ Take(n, c)
  /\ UNCHANGED <<ws, pendingGen, fresh, gen, committed, phase, plan, todo, gate,
                 queued, inflight, nodeVars, toNode, open, faults>>

\* _on_ready with an error: the node holds nothing, its waiter fails at once.
HubError(n, c) ==
  /\ Hears(n, c, "error")
  /\ layers' = [layers EXCEPT ![n] = NoRange]
  /\ ready' = [ready EXCEPT ![n] = FALSE]
  /\ wait' = IF AwaitsReady(n, Head(toHub[n][c]).gen)
             THEN [wait EXCEPT ![n] = "failed"] ELSE wait
  /\ Take(n, c)
  /\ UNCHANGED <<ws, role, pendingGen, disk, fresh, gen, committed, phase, plan,
                 todo, gate, queued, inflight, nodeVars, toNode, open, faults>>

\* A prefetched frame, with or without an error, wakes its waiter.
HubPrefetched(n, c) ==
  /\ Hears(n, c, "prefetched") \/ Hears(n, c, "unfetched")
  /\ LET f == Head(toHub[n][c]) IN
       wait' = IF AwaitsPrefetch(n, f.gen)
               THEN [wait EXCEPT ![n] = IF f.t = "prefetched" THEN "ok"
                                        ELSE "failed"]
               ELSE wait
  /\ Take(n, c)
  /\ UNCHANGED <<recordVars, gen, committed, phase, plan, todo, gate, queued,
                 inflight, nodeVars, toNode, open, faults>>

\* _left: the record loses its socket but keeps its layers; waiters on it fail.
Left(n) ==
  /\ ws' = [ws EXCEPT ![n] = 0]
  /\ ready' = [ready EXCEPT ![n] = FALSE]
  /\ role' = [role EXCEPT ![n] = "absent"]
  /\ wait' = IF wait[n] = "wait" THEN [wait EXCEPT ![n] = "failed"] ELSE wait

\* The finally of ws_node: the handler of c ends once its peer is gone and its
\* frames are read, or once the hub has closed it.  A replaced socket changes
\* nothing (_left is idempotent by socket identity).
HandlerEnds(n, c) ==
  /\ c \in open[n]
  /\ \/ ~Reaches(n, c) /\ toHub[n][c] = <<>>
     \/ GivenUp(n, c)
  /\ open' = [open EXCEPT ![n] = @ \ {c}]
  /\ toHub' = [toHub EXCEPT ![n][c] = <<>>]
  /\ IF ws[n] = c
     THEN Left(n)
     ELSE UNCHANGED <<ws, ready, role, wait>>
  /\ UNCHANGED <<layers, pendingGen, disk, fresh, gen, committed, phase, plan,
                 todo, gate, queued, inflight, nodeVars, toNode, faults>>

\* stale_watch: no heartbeat for STALE_S, so the socket counts as gone.
StaleLeft(n) ==
  /\ ws[n] # 0 /\ Fault
  /\ Left(n)
  /\ toHub' = IF Linger THEN toHub ELSE [toHub EXCEPT ![n][ws[n]] = <<>>]
  /\ UNCHANGED <<layers, pendingGen, disk, fresh, gen, committed, phase, plan,
                 todo, gate, queued, inflight, nodeVars, toNode, open>>

\* Heartbeats stop for HB_TIMEOUT seconds, and come again.
HeartbeatLate(n) ==
  /\ ws[n] # 0 /\ fresh[n] /\ Fault
  /\ fresh' = [fresh EXCEPT ![n] = FALSE]
  /\ UNCHANGED <<ws, ready, layers, role, pendingGen, disk, applyVars, inflight,
                 nodeVars, netVars>>

Heartbeat(n) ==
  /\ ~fresh[n] /\ ws[n] # 0 /\ Reaches(n, ws[n])
  /\ fresh' = [fresh EXCEPT ![n] = TRUE]
  /\ UNCHANGED <<ws, ready, layers, role, pendingGen, disk, applyVars, inflight,
                 nodeVars, netVars, faults>>

-----------------------------------------------------------------------------
(***************************************************************************)
(* Requests, as far as a rebalance sees them.                              *)
(***************************************************************************)

\* generate passes gen_gate and counts itself.
Begin ==
  /\ gate /\ inflight < MaxInflight
  /\ inflight' = inflight + 1
  /\ UNCHANGED <<recordVars, applyVars, nodeVars, netVars, faults>>

\* Mutant of Finish: a request is counted out twice.
FinishTwice ==
  /\ inflight' = inflight - 1
  /\ UNCHANGED <<recordVars, applyVars, nodeVars, netVars, faults>>

\* The finally of generate.
Finish ==
  /\ inflight > 0
  /\ inflight' = inflight - 1
  /\ UNCHANGED <<recordVars, applyVars, nodeVars, netVars, faults>>

-----------------------------------------------------------------------------
(***************************************************************************)
(* replan, apply_plan and _switch.                                         *)
(***************************************************************************)

\* Mutant of Parked: only nodes that were members are parked.
ParkedMembers(p, A, r) ==
  [n \in Nodes |-> IF /\ committed[n] # NoRange /\ ws[n] # 0
                      /\ A[n] = NoRange /\ p.at[n] = NoRange
                      /\ r[n] # "reassigning"
                   THEN "standby" ELSE r[n]]

\* _park: connected nodes the hub knew of that are neither committed nor in the
\* plan go on standby; one whose role is still "reassigning" is passed over.
Parked(p, A, r) ==
  [n \in Nodes |-> IF /\ n \in p.known /\ ws[n] # 0
                      /\ A[n] = NoRange /\ p.at[n] = NoRange
                      /\ r[n] # "reassigning"
                   THEN "standby" ELSE r[n]]

Unfetched(S, A) == {n \in S : ws[n] # 0 /\ ~(Held(A[n]) \subseteq disk'[n])}

\* Phase 1 of p for its changed members S: ask those that miss files to prefetch.
PrefetchFor(p, S) ==
  LET ask == Unfetched(S, p.at) IN
    /\ plan' = p
    /\ todo' = S
    /\ wait' = [n \in Nodes |-> IF n \in ask THEN "wait" ELSE "none"]
    /\ toNode' = [n \in Nodes |->
         IF n \in ask /\ Reaches(n, ws[n])
         THEN Append(toNode[n], [t |-> "prefetch", range |-> p.at[n],
                                 gen |-> gen + 1])
         ELSE toNode[n]]

\* apply_plan takes plan_lock.
StartApply(p) ==
  /\ phase = "idle"
  /\ phase' = "prefetch"
  /\ UNCHANGED disk
  /\ PrefetchFor(p, Changed(p.at))
  /\ UNCHANGED <<ws, ready, layers, role, pendingGen, fresh, gen, committed, gate,
                 inflight, nodeVars, toHub, open, faults>>

\* replan: a layout that changes something is applied at once when the current
\* one is broken, and when it pays (here: up to MaxGen) when it is not.  MaxGen
\* also stops the hub from planning for ever with a socket it has yet to find dead.
ReplanApplies ==
  /\ \/ ~CompleteNow /\ \A n \in Present : Reaches(n, ws[n])
     \/ gen < MaxGen
  /\ \E A \in ComputePlan({}) :
       /\ Changed(A) # {}
       /\ StartApply([at |-> A, known |-> Known])
  /\ UNCHANGED queued

\* replan: the layout found is not worth applying, or there is none.
ReplanParks ==
  /\ phase = "idle"
  /\ \E A \in ComputePlan({}) \cup {NoLayout} :
       /\ A = NoLayout => ComputePlan({}) = {}
       /\ A # NoLayout => CompleteNow \/ Changed(A) = {}
       /\ role' = Parked([at |-> A, known |-> Known], committed, role)
  /\ UNCHANGED <<ws, ready, layers, pendingGen, disk, fresh, applyVars, inflight,
                 nodeVars, netVars, faults>>

\* POST /rebalance computes its plan while the lock is free, and parks ...
ManualReplan ==
  /\ phase = "idle" /\ queued = NoPlan
  /\ gen < MaxGen
  /\ \E A \in ComputePlan({}) :
       /\ Changed(A) # {}
       /\ queued' = [at |-> A, known |-> Known]
       /\ role' = Parked(queued', committed, role)
  /\ UNCHANGED <<ws, ready, layers, pendingGen, disk, fresh, gen, committed,
                 phase, plan, todo, wait, gate, inflight, nodeVars, netVars,
                 faults>>

\* ... and applies that same plan once it has the lock.
ManualApplies ==
  /\ queued # NoPlan
  /\ StartApply(queued)
  /\ queued' = NoPlan

\* Mutant of Timeout: the waiters of phase 3 have no deadline.
TimeoutOfPrefetch(n) ==
  /\ wait[n] = "wait" /\ phase \in Prefetching
  /\ wait' = [wait EXCEPT ![n] = "failed"]
  /\ IF up[n] THEN Fault ELSE UNCHANGED faults
  /\ UNCHANGED <<recordVars, gen, committed, phase, plan, todo, gate, queued,
                 inflight, nodeVars, netVars>>

\* A deadline runs out.  It always can when nothing from the node is under way;
\* before that it is a fault, so a run can bound how often it happens.
UnderWay(n) ==
  \/ \E c \in open[n] : toHub[n][c] # <<>>
  \/ up[n] /\ (toNode[n] # <<>> \/ tasks[n] # <<>>)
Timeout(n) ==
  /\ wait[n] = "wait"
  /\ phase \in Switching => todo = {}
  /\ phase = "switch" /\ UnderWay(n) => LateAnswers
  /\ wait' = [wait EXCEPT ![n] = "failed"]
  /\ IF UnderWay(n) THEN Fault ELSE UNCHANGED faults
  /\ UNCHANGED <<recordVars, gen, committed, phase, plan, todo, gate, queued,
                 inflight, nodeVars, netVars>>

\* The answers of phase 1 are in: note what was fetched.
Fetched == [n \in Nodes |-> IF wait[n] = "ok" THEN disk[n] \cup Held(plan.at[n])
                            ELSE disk[n]]

StartDrain ==
  /\ phase' = "drain" /\ gate' = FALSE
  /\ wait' = NoWait
  /\ UNCHANGED <<plan, todo, toNode>>

Abandon ==
  /\ phase' = "idle" /\ plan' = NoPlan /\ todo' = {} /\ wait' = NoWait
  /\ UNCHANGED <<gate, toNode>>

\* First round: members that could not fetch, or left, are planned around.
EndPrefetch ==
  /\ phase = "prefetch" /\ Waiting = {}
  /\ disk' = Fetched
  /\ LET lost  == Failed \cup {n \in todo : ws[n] = 0}
         again == {A \in ComputePlan(lost) : Changed(A) # {}}
     IN \/ lost = {} /\ StartDrain
        \/ /\ lost # {}
           /\ \E A \in again :
                PrefetchFor([at |-> A, known |-> Known],
                            {n \in Changed(A) : ws[n] # 0})
           /\ phase' = "prefetch2"
           /\ UNCHANGED gate
        \/ /\ lost # {}
           /\ again = {} \/ again # ComputePlan(lost)
           /\ Abandon
  /\ UNCHANGED <<ws, ready, layers, role, pendingGen, fresh, gen, committed,
                 queued, inflight, nodeVars, toHub, open, faults>>

\* Second round: any failure abandons the plan.
EndPrefetch2 ==
  /\ phase = "prefetch2" /\ Waiting = {}
  /\ disk' = Fetched
  /\ IF Failed = {} THEN StartDrain ELSE Abandon
  /\ UNCHANGED <<ws, ready, layers, role, pendingGen, fresh, gen, committed,
                 queued, inflight, nodeVars, toHub, open, faults>>

\* Mutant of Drained: the switch goes by the old generation.
DrainedKeepsGen ==
  /\ phase = "drain"
  /\ IF inflight = 0 THEN UNCHANGED faults ELSE Fault
  /\ phase' = "switch"
  /\ UNCHANGED <<recordVars, gen, committed, plan, todo, wait, gate, queued,
                 inflight, nodeVars, netVars>>

\* Phase 2 ends when no request is in flight, or after DRAIN_TIMEOUT_S.
Drained ==
  /\ phase = "drain"
  /\ IF inflight = 0 THEN UNCHANGED faults ELSE Fault
  /\ gen' = gen + 1
  /\ phase' = "switch"
  /\ UNCHANGED <<recordVars, committed, plan, todo, wait, gate, queued, inflight,
                 nodeVars, netVars>>

\* Phase 3, one member at a time: send the new range, or note it is gone.
SwitchSend(n) ==
  /\ phase \in Switching /\ n \in todo
  /\ todo' = todo \ {n}
  /\ IF ws[n] = 0
     THEN /\ wait' = [wait EXCEPT ![n] = "failed"]
          /\ UNCHANGED <<ready, role, pendingGen, toNode>>
     ELSE /\ ready' = [ready EXCEPT ![n] = FALSE]
          /\ role' = [role EXCEPT ![n] = "reassigning"]
          /\ pendingGen' = [pendingGen EXCEPT ![n] = gen]
          /\ toNode' = Sent(n, ws[n], [t |-> "assign", range |-> plan.at[n],
                                       gen |-> gen])
          /\ \/ wait' = [wait EXCEPT ![n] = "wait"]
             \/ /\ ~Reaches(n, ws[n])
                /\ wait' = [wait EXCEPT ![n] = "failed"]
  /\ UNCHANGED <<ws, layers, disk, fresh, gen, committed, phase, plan, gate,
                 queued, inflight, nodeVars, toHub, open, faults>>

Benched == [n \in Nodes |-> IF n \in Failed THEN "standby" ELSE role[n]]

\* Mutant of Commit: members that failed are left out of what is committed.
CommitAnswered(p) ==
  /\ committed' = [n \in Nodes |-> IF n \in Failed THEN NoRange ELSE p.at[n]]
  /\ role' = Parked(p, committed', Benched)
  /\ gate' = TRUE
  /\ phase' = "idle" /\ plan' = NoPlan /\ todo' = {} /\ wait' = NoWait

\* Phase 4: commit p, reopen the gate, park who is left out.
Commit(p) ==
  LET active == [n \in Nodes |->
        IF p.at[n] # NoRange /\ ws[n] # 0 /\ layers[n] = p.at[n]
        THEN "active" ELSE Benched[n]]
  IN /\ committed' = p.at
     /\ role' = Parked(p, p.at, active)
     /\ gate' = TRUE
     /\ phase' = "idle" /\ plan' = NoPlan /\ todo' = {} /\ wait' = NoWait

\* All answers of phase 3 are in.  Failures get one plan around them, sent with
\* the same generation; whatever comes of that one is committed.
EndSwitch ==
  /\ phase \in Switching /\ todo = {} /\ Waiting = {}
  /\ \/ /\ phase = "switch2" \/ Failed = {} \/ ComputePlan(Failed) = {}
        /\ Commit(plan)
     \/ /\ phase = "switch" /\ Failed # {}
        /\ \E A \in ComputePlan(Failed) :
             /\ plan' = [at |-> A, known |-> Known]
             /\ todo' = {n \in Members(A) : layers[n] # A[n]}
        /\ phase' = "switch2"
        /\ wait' = NoWait
        /\ role' = Benched
        /\ UNCHANGED <<committed, gate>>
  /\ UNCHANGED <<ws, ready, layers, pendingGen, disk, fresh, gen, queued,
                 inflight, nodeVars, netVars, faults>>

-----------------------------------------------------------------------------
NodeStep(n) ==
  \/ Connect(n) \/ SeesClose(n) \/ Receive(n)
  \/ SkipAssign(n) \/ KeepShard(n) \/ StartLoad(n) \/ FinishLoad(n)
  \/ Prefetch(n)

HubHears(n, c) ==
  \/ HubHello(n, c) \/ HubReady(n, c) \/ HubError(n, c) \/ HubPrefetched(n, c)
  \/ HandlerEnds(n, c)

ApplyStep ==
  \/ EndPrefetch \/ EndPrefetch2 \/ Drained \/ EndSwitch
  \/ \E n \in Nodes : SwitchSend(n)

\* Everything but the requests.
Rebalancing ==
  \/ \E n \in Nodes :
       \/ NodeStep(n) \/ Drop(n) \/ FailLoad(n)
       \/ \E c \in Conns : HubHears(n, c)
       \/ StaleLeft(n) \/ HeartbeatLate(n) \/ Heartbeat(n) \/ Timeout(n)
  \/ ReplanApplies \/ ReplanParks \/ ManualReplan \/ ManualApplies
  \/ ApplyStep

Next == Rebalancing \/ Begin \/ Finish

Spec == Init /\ [][Next]_vars

\* Every timer runs out, every coroutine runs on and the network delivers or
\* drops; failures, planned changes and new requests need not happen.
Fairness ==
  /\ \A n \in Nodes :
       /\ WF_vars(NodeStep(n)) /\ WF_vars(Heartbeat(n)) /\ WF_vars(Timeout(n))
       /\ WF_vars(\E c \in Conns : HubHears(n, c))
  /\ WF_vars(Finish) /\ WF_vars(ApplyStep)
  /\ WF_vars(ReplanApplies \/ ReplanParks) /\ WF_vars(ManualApplies)

-----------------------------------------------------------------------------
(***************************************************************************)
(* Properties.                                                             *)
(***************************************************************************)

\* pipeline() routes on the hub's belief alone: forwards carry no range.  So at any
\* moment, the gate open or closed over requests that drain, a node the hub would
\* route to and whose frames reach it has loaded exactly the committed range,
\* whatever assigns, answers and reconnects crossed.  It holds without Linger (a
\* ready of a replaced socket), without RejoinMidSwitch (two ranges under one
\* generation) and without LateAnswers: a ready that comes after the first round of
\* a switch has given its sender up resolves the waiter of the second (hub.py:404
\* has no round in its key).
RoutedHoldsRange ==
  \A n \in Nodes : Serves(n) /\ Reaches(n, ws[n]) => shard[n] = committed[n]

\* The least of it: when requests are let in, none is routed to the wrong range.
\* _assigned_live: "Nodes of the committed plan that are live and hold exactly what
\* the plan says".
RoutedWhileOpen == gate => RoutedHoldsRange

\* The same with nodes that may also reconnect while phase 3 runs: where the hub
\* routes on a wrong belief, the frames that will correct it are already on their
\* way.  _hello: "A new socket means the node holds nothing we can vouch for until
\* its ready says so".  Late answers do it no harm; only Linger would.
WrongBeliefIsTransient ==
  \A n \in Nodes : Serves(n) /\ Reaches(n, ws[n]) /\ shard[n] # committed[n]
                 => UnderWay(n)

\* Whatever path apply_plan takes (retry, fallback, failed retry), what it
\* commits is nothing or a layout in which every layer has exactly one owner.
CommittedTiles == committed = NoLayout \/ Tiles(committed)

\* apply_plan always lets go of plan_lock and reopens the gate: no answer that
\* never comes, no node that left, can hold requests back for ever.
ApplyEnds == phase # "idle" ~> phase = "idle" /\ gate

\* Once failures stop, the cluster serves again (or no layout fits the nodes
\* still connected), with no operator involved.
Heals == <>[](PipelineComplete \/ Tilings(Present) = {})

\* Where apply_plan stands, as a caller of the hub can tell.
Stage == IF phase = "drain" THEN "draining"
         ELSE IF phase \in Switching THEN "switching" ELSE "serving"

Service == INSTANCE LayoutService
           WITH layout <- committed, epoch <- gen, stage <- Stage,
                open <- gate, running <- inflight

\* Prefetches, retries, lost nodes, a /rebalance that waited: whatever happens
\* inside apply_plan, callers see only whole switches.  The layout changes after
\* a drain, under a new generation and behind a closed gate, to one that is
\* complete; a plan that is given up changes nothing they can see.
ImplementsService == Service!Spec

\* A node that joins is placed or parked: it does not stay "joining".
JoinersSettle ==
  \A n \in Nodes : role[n] = "joining" ~> role[n] # "joining"
=============================================================================

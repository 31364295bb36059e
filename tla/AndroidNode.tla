---------------------------- MODULE AndroidNode ----------------------------
(***************************************************************************)
(* The Android node (android/.../Node.kt with Engine.kt and NpuEngine.kt). *)
(*                                                                         *)
(* It speaks the protocol of np_node.py with threads in place of           *)
(* coroutines.  The frames of a socket are run in order on an executor of  *)
(* one thread; when the socket is gone, shutdownNow drops the frames that  *)
(* wait and interrupts the one that runs, which may go on to its end while *)
(* the next socket and its executor are up.  Range, ready header, engine   *)
(* and KV caches belong to the node, not to the socket: they outlive it.   *)
(* One phone is modelled; the hub is its environment, reduced to the       *)
(* frames hub.py sends and to what it makes of the answers.                *)
(***************************************************************************)
EXTENDS Naturals, Sequences, FiniteSets

CONSTANTS
  NLayers,   \* layers of the model
  Engines,   \* runtimes the app may have been started with
  Reqs,      \* requests of the hub
  MaxConn,   \* bound: sockets opened by one start of the app
  MaxGen,    \* bound: assigns of a new range
  MaxPass,   \* bound: passes of a request
  MaxFaults  \* bound: drops, broken transfers and loads, restarts

ASSUME NLayersAssumption == NLayers \in Nat \ {0}
ASSUME EnginesAssumption == Engines \subseteq {"cpu", "npu"}
ASSUME BoundsAssumption  == {MaxConn, MaxGen, MaxPass, MaxFaults} \subseteq Nat

VARIABLES
  \* the node
  engine,    \* "cpu" or "npu"
  layers,    \* the range last accepted
  cfg,       \* forwards are run: a load of the range has ended
  lastReady, \* the header replayed on a no-op assign, or NoReady
  disk,      \* layers whose shard is in shardDir
  work,      \* per socket: what the thread of its executor is at, Idle, an assign
             \* at "fetch", "load" or "hash", or a "fwd"; cut once interrupted
  queue,     \* frames waiting for the thread of the last socket
  io,        \* prefetches, one after the other, for whichever socket asked
  conn,      \* number of the last socket
  link,      \* "open"; "dead" until run() has seen it; "down" between sockets
  hb,        \* the socket the heartbeat thread beats on, 0 for none
  \* the engine
  chain,     \* layers a forward goes through, in order
  cache,     \* per request: the chain that made its KV cache, and its passes
  \* the hub's record of this node, and its requests
  gen, told, \* the last assign
  believed,  \* the range the hub routes on, once ready
  hubDisk,   \* layers the hub thinks need no prefetch
  req,
  faults, overlap  \* history: failures, and whether a thread outlived its socket

nodeVars   == <<engine, layers, cfg, lastReady, disk, work, queue, io>>
socketVars == <<conn, link, hb>>
engineVars == <<chain, cache>>
hubVars    == <<gen, told, believed, hubDisk, req>>
history    == <<faults, overlap>>
vars == <<nodeVars, socketVars, engineVars, hubVars, history>>

-----------------------------------------------------------------------------
LayerIds == 0 .. (NLayers - 1)
Ranges   == {r \in (0 .. NLayers) \X (0 .. NLayers) : r[1] < r[2]}
NoRange  == <<0, 0>>
Held(r)  == r[1] .. (r[2] - 1)
Chain(r) == [i \in 1 .. (r[2] - r[1]) |-> r[1] + i - 1]

Conns   == 1 .. MaxConn
Idle    == [op |-> "idle"]
NoReady == [range |-> NoRange, files |-> {}]
NoCache == [by |-> <<>>, n |-> 0]
NewReq  == [st |-> "new", gen |-> 0, n |-> 0, right |-> TRUE, lost |-> FALSE]

Init ==
  /\ engine \in Engines
  /\ layers = NoRange /\ cfg = FALSE /\ lastReady = NoReady
  /\ disk = {} /\ queue = <<>> /\ io = <<>>
  /\ work = [c \in Conns |-> Idle]
  /\ conn = 0 /\ link = "down" /\ hb = 0
  /\ chain = <<>> /\ cache = [r \in Reqs |-> NoCache]
  /\ gen = 0 /\ told = NoRange /\ believed = NoRange /\ hubDisk = {}
  /\ req = [r \in Reqs |-> NewReq]
  /\ faults = 0 /\ overlap = FALSE

-----------------------------------------------------------------------------
(***************************************************************************)
(* The socket.                                                             *)
(***************************************************************************)
Fault == faults < MaxFaults /\ faults' = faults + 1

\* What is sent on socket c arrives.
Heard(c) == c = conn /\ link = "open"

Frame(f) == queue' = Append(queue, f)

\* The socket is gone.  The hub's _left forgets the ready and fails what waits
\* for an answer; a request between two passes does not notice.
Lost ==
  /\ link' = "dead"
  /\ believed' = NoRange
  /\ req' = [r \in Reqs |-> IF req[r].st = "asked"
                            THEN [req[r] EXCEPT !.st = "broken"] ELSE req[r]]

Drop ==
  /\ link = "open" /\ Fault
  /\ Lost
  /\ UNCHANGED <<nodeVars, conn, hb, engineVars, gen, told, hubDisk, overlap>>

\* The hub closes the socket of a node it hears no heartbeat of.
StaleWatch ==
  /\ link = "open" /\ hb # conn
  /\ Lost
  /\ UNCHANGED <<nodeVars, conn, hb, engineVars, gen, told, hubDisk, history>>

\* Mutant of Teardown: the executor is kept for the next socket.
TeardownKeeps ==
  /\ link = "dead" /\ link' = "down"
  /\ hb' = 0
  /\ UNCHANGED <<nodeVars, conn, engineVars, hubVars, history>>

\* run() wakes: heartbeats stop, waiting frames are dropped, the thread that
\* runs one is interrupted.
Teardown ==
  /\ link = "dead" /\ link' = "down"
  /\ hb' = 0
  /\ queue' = <<>>
  /\ work' = [work EXCEPT ![conn] = IF @ = Idle THEN Idle
                                    ELSE [@ EXCEPT !.cut = TRUE]]
  /\ UNCHANGED <<engine, layers, cfg, lastReady, disk, io, conn, engineVars,
                 hubVars, history>>

\* A new socket: hello lists the files, heartbeats start, and the hub answers a
\* member with its range at once.
Hello(beat) ==
  /\ link = "down" /\ conn < MaxConn
  /\ link' = "open" /\ conn' = conn + 1
  /\ hb' = beat
  /\ believed' = NoRange /\ hubDisk' = disk
  /\ IF told = NoRange THEN UNCHANGED queue
     ELSE Frame([t |-> "assign", c |-> conn', range |-> told, gen |-> gen])
  /\ overlap' = (overlap \/ \E c \in Conns : work[c] # Idle)
  /\ UNCHANGED <<engine, layers, cfg, lastReady, disk, work, io, engineVars,
                 gen, told, req, faults>>

\* Mutant of Connect: no heartbeat before the first ready.
ConnectSilent == Hello(0)
Connect == Hello(conn + 1)

\* The app is stopped and started again: only the files are left.
Restart ==
  /\ Fault /\ conn > 0
  /\ layers' = NoRange /\ cfg' = FALSE /\ lastReady' = NoReady
  /\ work' = [c \in Conns |-> Idle] /\ queue' = <<>> /\ io' = <<>>
  /\ chain' = <<>> /\ cache' = [r \in Reqs |-> NoCache]
  /\ conn' = 0 /\ link' = "down" /\ hb' = 0
  /\ believed' = NoRange
  /\ req' = [r \in Reqs |->
       IF req[r].st = "new" THEN req[r]
       ELSE [req[r] EXCEPT !.lost = TRUE,
                           !.st = IF @ = "asked" THEN "broken" ELSE @]]
  /\ overlap' = FALSE
  /\ UNCHANGED <<engine, disk, gen, told, hubDisk>>

-----------------------------------------------------------------------------
(***************************************************************************)
(* The hub.                                                                *)
(***************************************************************************)
\* The planner moves the node, or makes it a member.
HubMoves ==
  /\ link = "open" /\ gen < MaxGen
  /\ gen' = gen + 1
  /\ \E r \in Ranges \ {told} :
       /\ told' = r
       /\ Frame([t |-> "assign", c |-> conn, range |-> r, gen |-> gen'])
  /\ believed' = NoRange
  /\ UNCHANGED <<engine, layers, cfg, lastReady, disk, work, io, socketVars,
                 engineVars, hubDisk, req, history>>

HubPrefetches ==
  /\ link = "open"
  /\ io = <<>> /\ \A i \in DOMAIN queue : queue[i].t # "prefetch"
  /\ \E r \in Ranges :
       /\ ~(Held(r) \subseteq hubDisk)
       /\ Frame([t |-> "prefetch", c |-> conn, range |-> r, gen |-> gen])
  /\ UNCHANGED <<engine, layers, cfg, lastReady, disk, work, io, socketVars,
                 engineVars, hubVars, history>>

\* The next pass of a request, on the generation it was admitted in.
\* for is the range the hub routes on, which a forward does not carry.
HubAsks(r) ==
  /\ link = "open" /\ believed # NoRange
  /\ req[r].n < MaxPass
  /\ req[r].st = "new" \/ (req[r].st = "between" /\ req[r].gen = gen)
  /\ req' = [req EXCEPT ![r].st = "asked", ![r].gen = gen]
  /\ Frame([t |-> "fwd", c |-> conn, r |-> r, for |-> believed])
  /\ UNCHANGED <<engine, layers, cfg, lastReady, disk, work, io, socketVars,
                 engineVars, gen, told, believed, hubDisk, history>>

\* A request ends, with an answer outstanding when it is cancelled; the reset is
\* sent on the socket the record has then, if it has one.
HubEnds(r) ==
  /\ req[r].st \in {"between", "asked", "broken"}
  /\ req' = [req EXCEPT ![r].st = "over"]
  /\ IF link = "open" THEN Frame([t |-> "reset", c |-> conn, r |-> r])
     ELSE UNCHANGED queue
  /\ UNCHANGED <<engine, layers, cfg, lastReady, disk, work, io, socketVars,
                 engineVars, gen, told, believed, hubDisk, history>>

\* A ready counts if it is for the last assign; its file list replaces the old.
HubReady(c, g, head) ==
  IF Heard(c) /\ g = gen
  THEN believed' = head.range /\ hubDisk' = head.files
  ELSE UNCHANGED <<believed, hubDisk>>

HubAnswer(c, r, next) ==
  req' = IF Heard(c) /\ req[r].st = "asked" THEN [req EXCEPT ![r] = next] ELSE req

-----------------------------------------------------------------------------
(***************************************************************************)
(* The executor of the last socket takes its next frame.                   *)
(***************************************************************************)
Takes(t) ==
  /\ link # "down" /\ work[conn] = Idle
  /\ queue # <<>> /\ Head(queue).t = t
  /\ queue' = Tail(queue)

\* Exceptions end in close(1011): on the socket the frame came on.
Broken(c) == IF Heard(c) THEN Lost ELSE UNCHANGED <<link, believed, req>>

\* Mutant of Raise: the exception is logged and nothing else.
RaiseLogged(c) ==
  /\ work' = [work EXCEPT ![c] = Idle]
  /\ UNCHANGED <<link, believed, req>>
Raise(c) ==
  /\ work' = [work EXCEPT ![c] = Idle]
  /\ Broken(c)

SameRange(r) == cfg /\ lastReady # NoReady /\ layers = r

\* The range is loaded already: the old header again, under the new generation.
Reclaim ==
  /\ Takes("assign") /\ SameRange(Head(queue).range)
  /\ HubReady(conn, Head(queue).gen, lastReady)
  /\ UNCHANGED <<engine, layers, cfg, lastReady, disk, work, io, socketVars,
                 engineVars, gen, told, req, history>>

\* Mutant of StartAssign: the old range counts as loaded until the new one is.
StartAssignKeeps ==
  /\ Takes("assign") /\ ~SameRange(Head(queue).range)
  /\ layers' = Head(queue).range
  /\ work' = [work EXCEPT ![conn] = [op |-> "fetch", range |-> Head(queue).range,
                                     gen |-> Head(queue).gen, cut |-> FALSE]]
  /\ UNCHANGED <<engine, cfg, lastReady, disk, io, socketVars, engineVars,
                 hubVars, history>>

\* Another range, or one whose load has not ended: until it has, forwards are
\* refused and nothing is replayed.
StartAssign ==
  /\ Takes("assign") /\ ~SameRange(Head(queue).range)
  /\ cfg' = FALSE /\ lastReady' = NoReady
  /\ layers' = Head(queue).range
  /\ work' = [work EXCEPT ![conn] = [op |-> "fetch", range |-> Head(queue).range,
                                     gen |-> Head(queue).gen, cut |-> FALSE]]
  /\ UNCHANGED <<engine, disk, io, socketVars, engineVars, hubVars, history>>

TakePrefetch ==
  /\ Takes("prefetch")
  /\ io' = Append(io, [c |-> conn, range |-> Head(queue).range])
  /\ UNCHANGED <<engine, layers, cfg, lastReady, disk, work, socketVars,
                 engineVars, hubVars, history>>

\* kv: the cache of a request is made for the layers there are at its first pass.
Opened(r) == IF cache[r] = NoCache THEN [by |-> chain, n |-> 0] ELSE cache[r]

\* What an answer is right of: the layers routed on, after all earlier passes.
Right(f) == /\ chain = Chain(f.for)
            /\ Opened(f.r).by = chain /\ Opened(f.r).n = req[f.r].n

\* A forward without a loaded range is answered "not loaded".
StartForward ==
  /\ Takes("fwd")
  /\ LET f == Head(queue)
     IN IF cfg
        THEN /\ Len(chain) <= Len(Opened(f.r).by)
             /\ cache' = [cache EXCEPT ![f.r] = Opened(f.r)]
             /\ work' = [work EXCEPT ![conn] =
                  [op |-> "fwd", r |-> f.r, right |-> Right(f), cut |-> FALSE]]
             /\ UNCHANGED req
        ELSE /\ HubAnswer(conn, f.r, [req[f.r] EXCEPT !.st = "broken"])
             /\ UNCHANGED <<work, cache>>
  /\ UNCHANGED <<engine, layers, cfg, lastReady, disk, io, socketVars, chain,
                 gen, told, believed, hubDisk, history>>

\* The NPU's chain has grown beyond the tensors of the cache.
OverrunsCache ==
  /\ Takes("fwd") /\ cfg
  /\ Len(chain) > Len(Opened(Head(queue).r).by)
  /\ Raise(conn)
  /\ UNCHANGED <<engine, layers, cfg, lastReady, disk, io, conn, hb, engineVars,
                 gen, told, hubDisk, history>>

Reset ==
  /\ Takes("reset")
  /\ cache' = [cache EXCEPT ![Head(queue).r] = NoCache]
  /\ UNCHANGED <<engine, layers, cfg, lastReady, disk, work, io, socketVars,
                 chain, hubVars, history>>

-----------------------------------------------------------------------------
(***************************************************************************)
(* What is under way on the executor of socket c, the last or an old one.  *)
(***************************************************************************)
At(c, op) == work[c] # Idle /\ work[c].op = op
To(c, op) == work' = [work EXCEPT ![c].op = op]

\* Interrupted where the code can be, or failed.
Cut(c) == IF work[c].cut THEN UNCHANGED faults ELSE Fault

Fetch(c) ==
  /\ At(c, "fetch") /\ To(c, "load")
  /\ disk' = disk \cup Held(work[c].range)
  /\ UNCHANGED <<engine, layers, cfg, lastReady, queue, io, socketVars,
                 engineVars, hubVars, history>>

FailFetch(c) ==
  /\ At(c, "fetch") /\ Cut(c)
  /\ \E got \in SUBSET Held(work[c].range) : disk' = disk \cup got
  /\ Raise(c)
  /\ UNCHANGED <<engine, layers, cfg, lastReady, queue, io, conn, hb,
                 engineVars, gen, told, hubDisk, overlap>>

\* CpuEngine drops caches and layers before it maps the new ones, and the two
\* bench forwards end an interrupted load at the latest.
LoadCpu(c) ==
  /\ engine = "cpu" /\ At(c, "load") /\ ~work[c].cut /\ To(c, "hash")
  /\ cache' = [r \in Reqs |-> NoCache]
  /\ chain' = Chain(work[c].range)
  /\ UNCHANGED <<engine, layers, cfg, lastReady, disk, queue, io, socketVars,
                 hubVars, history>>

FailLoadCpu(c) ==
  /\ engine = "cpu" /\ At(c, "load") /\ Cut(c)
  /\ cache' = [r \in Reqs |-> NoCache]
  /\ chain' \in IF work[c].cut THEN {<<>>, Chain(work[c].range)} ELSE {<<>>}
  /\ Raise(c)
  /\ UNCHANGED <<engine, layers, cfg, lastReady, disk, queue, io, conn, hb, gen,
                 told, hubDisk, overlap>>

\* NpuEngine adds the graphs of the new range to those it has, and keeps every
\* cache; native code is not interrupted.
LoadNpu(c) ==
  /\ engine = "npu" /\ At(c, "load") /\ To(c, "hash")
  /\ chain' = chain \o Chain(work[c].range)
  /\ UNCHANGED <<engine, layers, cfg, lastReady, disk, queue, io, socketVars,
                 cache, hubVars, history>>

FailLoadNpu(c) ==
  /\ engine = "npu" /\ At(c, "load") /\ Fault
  /\ \E k \in 0 .. Cardinality(Held(work[c].range)) - 1 :
       chain' = chain \o SubSeq(Chain(work[c].range), 1, k)
  /\ Raise(c)
  /\ UNCHANGED <<engine, layers, cfg, lastReady, disk, queue, io, conn, hb,
                 cache, gen, told, hubDisk, overlap>>

\* startHeartbeat ends the thread of any other socket; on a dead one the new
\* thread ends with its first send.
Beating(c) == IF Heard(c) THEN c ELSE 0

\* The shard is hashed, which nothing interrupts, and the range is up.
Commit(c) ==
  /\ At(c, "hash")
  /\ work' = [work EXCEPT ![c] = Idle]
  /\ cfg' = TRUE
  /\ lastReady' = [range |-> work[c].range, files |-> disk]
  /\ hb' = Beating(c)
  /\ HubReady(c, work[c].gen, lastReady')
  /\ UNCHANGED <<engine, layers, disk, queue, io, conn, link, engineVars, gen,
                 told, req, history>>

\* The pass has gone through the chain and the answer is sent.
Answer(c) ==
  /\ At(c, "fwd")
  /\ engine = "cpu" => ~work[c].cut
  /\ LET r == work[c].r
     IN /\ cache' = IF cache[r] = NoCache THEN cache
                   ELSE [cache EXCEPT ![r].n = @ + 1]
        /\ HubAnswer(c, r, [req[r] EXCEPT !.st = "between", !.n = @ + 1,
                                          !.right = @ /\ work[c].right])
  /\ work' = [work EXCEPT ![c] = Idle]
  /\ UNCHANGED <<engine, layers, cfg, lastReady, disk, queue, io, socketVars,
                 chain, gen, told, believed, hubDisk, history>>

\* A matrix product of CpuEngine is interrupted.
CutForward(c) ==
  /\ At(c, "fwd") /\ engine = "cpu" /\ work[c].cut
  /\ Raise(c)
  /\ UNCHANGED <<engine, layers, cfg, lastReady, disk, queue, io, conn, hb,
                 engineVars, gen, told, hubDisk, history>>

WorkStep(c) ==
  \/ Fetch(c) \/ FailFetch(c)
  \/ LoadCpu(c) \/ FailLoadCpu(c) \/ LoadNpu(c) \/ FailLoadNpu(c)
  \/ Commit(c) \/ Answer(c) \/ CutForward(c)

-----------------------------------------------------------------------------
(***************************************************************************)
(* Prefetches run on an executor of their own, which outlives the socket.  *)
(***************************************************************************)
\* Mutant of Prefetched: the answer names the range, whatever has come of it.
PrefetchedAnyway ==
  /\ io # <<>> /\ io' = Tail(io)
  /\ \E got \in SUBSET Held(Head(io).range) : disk' = disk \cup got
  /\ hubDisk' = IF Heard(Head(io).c) THEN hubDisk \cup Held(Head(io).range)
                ELSE hubDisk
  /\ UNCHANGED <<engine, layers, cfg, lastReady, work, queue, socketVars,
                 engineVars, gen, told, believed, req, history>>

Prefetched ==
  /\ io # <<>> /\ io' = Tail(io)
  /\ disk' = disk \cup Held(Head(io).range)
  /\ hubDisk' = IF Heard(Head(io).c) THEN hubDisk \cup Held(Head(io).range)
                ELSE hubDisk
  /\ UNCHANGED <<engine, layers, cfg, lastReady, work, queue, socketVars,
                 engineVars, gen, told, believed, req, history>>

FailPrefetch ==
  /\ io # <<>> /\ io' = Tail(io)
  /\ Fault
  /\ \E got \in SUBSET Held(Head(io).range) : disk' = disk \cup got
  /\ UNCHANGED <<engine, layers, cfg, lastReady, work, queue, socketVars,
                 engineVars, hubVars, overlap>>

-----------------------------------------------------------------------------
TakeFrame ==
  \/ Reclaim \/ StartAssign \/ TakePrefetch
  \/ StartForward \/ OverrunsCache \/ Reset

Hub ==
  \/ HubMoves \/ HubPrefetches
  \/ \E r \in Reqs : HubAsks(r) \/ HubEnds(r)

Next ==
  \/ Drop \/ StaleWatch \/ Teardown \/ Connect \/ Restart
  \/ Hub \/ TakeFrame
  \/ \E c \in Conns : WorkStep(c)
  \/ Prefetched \/ FailPrefetch

Spec == Init /\ [][Next]_vars

\* Threads run on, the retry pause and the hub's watch end.  Nothing need fail,
\* and the hub need not ask for anything.
Fairness ==
  /\ WF_vars(TakeFrame) /\ \A c \in Conns : WF_vars(WorkStep(c))
  /\ WF_vars(Teardown) /\ WF_vars(Connect) /\ WF_vars(StaleWatch)

FairSpec == Spec /\ Fairness

-----------------------------------------------------------------------------
(***************************************************************************)
(* Properties.                                                             *)
(***************************************************************************)
\* NpuEngine: "A node holding layers [a, b) loads b-a of them and chains them".
\* Whatever moves, drops and failed loads came before, an answer the hub takes
\* went through the layers it was asked for, with the caches of all its earlier
\* passes, unless the app was restarted under the request or a thread of an
\* earlier socket was still at work.
AnswersRight == ~overlap => \A r \in Reqs : req[r].right \/ req[r].lost

\* CpuEngine keeps that: a request even finds its cache again after a reconnect.
CpuAnswersRight == engine = "cpu" => AnswersRight

\* run: "A queued forward from the dead socket must not run against the new one."
OnlyLiveFrames == link = "open" => \A i \in DOMAIN queue : queue[i].c = conn

\* What the hub believes to be on the phone is there: it sends no prefetch for
\* these layers, and the old listing of a replayed ready takes nothing away that
\* would make it wrong.
DiskBelieved == hubDisk \subseteq disk

\* A socket has its heartbeat from the first moment, while the node loads or
\* waits, unless a thread of an earlier socket was still at work.
HeartbeatKept == link = "open" /\ ~overlap => hb = conn

\* An assign is answered by a ready for its range, or by the end of the socket:
\* no exception, interrupt or dropped frame leaves the hub waiting.
AssignAnswered ==
  link = "open" /\ told # NoRange ~> believed = told \/ link # "open"
=============================================================================

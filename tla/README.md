# Verification of the decentralized LLM cluster (`dllm`)

TLA+ models of a hub (`src/dllm/hub.py`) that spreads the layers of one language model
over nodes which come and go, moves them while requests run, and serves those requests;
of the planner and the scheduler that decide when to move what; of the node programs
(`src/dllm/np_node.py`, `src/dllm/node.py`, the Android app); and of the observability proxy
(`src/observability/src/llmobs`). TLC checks the models on small instances; TLAPS proves
theorems about six of them for every instance. `PROJECT.json` maps each definition to
the lines it models.

## 1. The system

### Components, state, operations

| Component | State | Operations |
|---|---|---|
| Hub: membership (`hub.py` `_hello`, `_on_ready`, `_on_hb`, `_left`, `stale_watch`) | a record per node: socket, `ready`, `layers`, `role`, `pending_gen`, `disk`, last heartbeat | hello, ready, load error, heartbeat, leave, stale socket, purge of old records |
| Hub: rebalancing (`replan`, `apply_plan`, `_switch`, `_park`, `/rebalance`) | `plan_state` (generation, committed layout), `waiters`, `gen_gate`, `plan_lock` | plan, prefetch (two rounds), drain, switch (two rounds), commit, park |
| Hub: scheduling (`schedule_replan`) | the one pending replan and when it is due | debounce, retry while the lock is held, grace for nodes that just left |
| Planner (`placement.py`) | none (pure) | candidates, costs, search, allocation, layout, decision to apply |
| Hub: serving (`chat`, `generate`, `forward_all`, `_batched_hop`, `_batch_runner`) | `inflight`, `pending` futures, a queue and a runner task per node | call, refuse, admit, pass, hop (direct or batched), timeout, reset |
| Node (`np_node.py`, `node.py`) | shard with a KV cache per request, files on disk, tasks under `io_lock` | connect, assign, prefetch, load, forward, reset, reconnect |
| Android node (`Node.kt`, `Engine.kt`, `NpuEngine.kt`) | range, last ready header, engine with its KV caches, files; an executor for frames and one for prefetches; the heartbeat thread | the same |
| Observability proxy (`observability/src/llmobs`) | derived counters, rolling stats, the sampled memory reading, attempts under way | accept, decode, enrich, count, forward, mirror the answer |
| Hub telemetry (`observe.py`) | a root span per request, a span per hop, metrics | open, hop, finish, error |
| Numerics and tools (`model.py`, `quant.py`, `wire.py`, `slicer.py`, `mlx_backend.py`, `npu/`, scripts) | tensors and files | run layers, convert, export, measure |

### Interactions

The hub is one asyncio thread: handlers interleave at `await`s only. It talks to
each node over one WebSocket per connection, FIFO in both directions; a node that
reconnects opens a new one, and the handler of the old one may run on for a while.
`apply_plan` blocks on answers that the socket handlers deliver through `waiters`;
`_left` fails those waiters and every pending forward. Requests and a rebalance meet
in `gen_gate`, `inflight` and the generation. At the node, assigns and prefetches run
beside the message loop under a FIFO lock, the load itself in a thread.

### What is hard

 * answers that cross a newer assign, a second round of the same switch, or a reconnect;
 * a belief (`layers`, `ready`, `disk`) read after an await during which it changed;
 * members that fail, leave or return at each of the four phases of `apply_plan`;
 * deadlines that run out before the late answer comes (prefetch, switch, drain, hop);
 * a request under way while its nodes are switched, or while one of them reboots;
 * the batch runner's hand-over of its queue, and requests cancelled while queued;
 * the gate and the lock, held while waiting for someone who may be gone;
 * bookkeeping in halves: `inflight` and the root span, begun in one coroutine and ended in another;
 * triggers that replace, absorb and postpone each other around a single timer;
 * threads that outlive the connection that started them, on one shard directory;
 * exporters that retry what was already counted and delivered.

### What makes each component correct

 * *Rebalancing*: the hub routes to a node only what that node has loaded; what is
   committed tiles the model; every plan ends with the gate open; the cluster heals.
 * *Serving*: a pass goes once through every layer, on caches that hold all its
   earlier passes; every request ends, is counted out once and leaves no cache behind.
 * *Planner*: a plan tiles the layers within the memory of its nodes, keeps what
   works, and names the layers it has no home for.
 * *Scheduler*: no trigger is lost; a node that has just dropped gets its grace.
 * *Node*: a file under its own name is whole; the newest assign wins; what `ready` says
   is loaded and on disk; nothing of a dead socket runs against the next one.
 * *Proxy*: success means delivery; the proxy is never the reason telemetry is lost; the
   counters stay between what was delivered and what was sent.

## 2. Modules

| Module | What it is |
|---|---|
| `Layers` | layer ranges, layouts, tilings, and the tilings a set of nodes can hold (`Tilings`, what `placement.plan` may return) |
| `LayoutService` | the abstract specification: a layout, its generation and a gate, as a caller of the hub sees them |
| `Rebalance` | hub membership, `apply_plan` and the node side of assigns and prefetches; `Service` maps it onto `LayoutService` |
| `Serving` | extends `Rebalance` with chat requests and their root spans, batching, KV caches; each step of `Rebalance` is conjoined with what it does to them (`Disturb`) |
| `Placement` | extends `Layers`: `placement.plan` and `would_apply` as operators, in a loop with joins, leaves, drifting costs, shrinking memory and overheating |
| `Scheduler` | `schedule_replan` and the triggers that call it, in ticks of a clock |
| `NodeIO` | the shard directory of a Python node, the tasks under `io_lock` and the threads that work for them |
| `AndroidNode` | the Android app with either engine, against the frames the hub sends |
| `Proxy` | llmobs between retrying exporters and a Collector that fails |
| `MCRebalance`, `MCServing`, `MCPlacement`, `MCProxy` | the settled initial state, capacities, disks, costs, memory and batches the configurations use |
| `RebalanceProofs`, `RoutingProofs`, `ServingProofs`, `PassProofs`, `SchedulerProofs`, `NodeIOProofs`, `AndroidProofs`, `ProxyProofs` | the theorems |

### How state and actions correspond

**Hub records.** `ws`, `ready`, `layers`, `role`, `pendingGen`, `disk` are the fields
of `nodes[name]`; a socket is the number of the connection. `fresh` stands for
`now - last_hb < HB_TIMEOUT`. `role = "none"` is a node without a record.

**`apply_plan`.** `phase` is the coroutine's program counter and `plan`, `todo`,
`wait` its locals: `StartApply` (phase 1 sends), `EndPrefetch` (re-plans around nodes
that failed or left, or gives up), `EndPrefetch2`, `Drained`, `SwitchSend` (one member
per step, since `_switch` awaits each send), `EndSwitch` (commit, or one retry with the
same generation). `phase = "idle"` is a free `plan_lock`. A `/rebalance` call is
`ManualReplan`, which computes the plan and parks, then `ManualApplies`, which may come
after another plan was applied. `wait[n]` is the future in `waiters` of the round under
way.

**Node.** `conn`, `up` its connection; `tasks` its spawned `on_assign` and
`on_prefetch` in lock order, `busy` a load that runs in its thread; `Superseded` is
`mine != newest[0]`. `KeepsFiles` says which nodes keep foreign shards (`node.py`) and
which drop them after a load (`np_node.py`'s `drop_foreign_shards`).

**Network.** `toNode[n]` is what reaches the node on its current connection,
`toHub[n][c]` what it sent on connection `c`, `open[n]` the connections whose `ws_node`
handler still runs. A frame the hub sends to a socket whose other end is gone is lost.

**Requests.** `Chat`, `ChatTimeout` and `Leave` are the `chat` handler up to the start of `generate`:
wait for the gate, refuse or open the root span, and the client that goes away before its
request is counted in. From `Admit` on `req[r]` is the `generate` coroutine: its state, the
generation it noted, the nodes of the pass, and the activation. `span[r]` is the root span, ended
by whatever ends the request; a hop's span reads the layers of the node's record when the answer
is in (`Traced`), and where a hello or an error has cleared them it raises, which fails the
request. An activation records how far up the model
layers have been applied in this pass (`upto`, or `Astray`) and whether each cache it
met held exactly the earlier passes (`whole`). The prompt is one first pass: its chunks
differ from decode passes only in that they are always sent directly. `queue`, `armed`
and `sent` are `_batch_pending`, `_batch_task` and the runners past their window.
A direct answer is keyed by request and hop; a request's passes all run on the layout of
its generation, so the first layer of a range names the hop (`Keyed`).

**Planner.** `Plan` is `placement.plan`, `WouldApply` is `should_apply`/`would_apply`; each
helper has the operator of its name or idea (`LargestRemainder`, `Round` one round of
`allocate_balanced`, `Cheapest`, `Layout`, `Cycle`, `DeadBand`, `Prune`, `PickBest`,
`Search`, `Migration`, `Partial` for `partial_fill`). The variables are the inputs of the code: `cost` and `ram` what the
hub last computed for a node, `status` whether it is present and eligible, `loaded` the
record's `layers`, `disk` its files, `committed` the plan in force. `Replan` applies a plan
in one step; how that really goes is `Rebalance`. The two meet in `Tilings`: `Rebalance` lets
the planner choose any member of it, `PlansAreTilings` checks that `Plan` is one. Costs and
RAM bounds are inputs (how they are averaged from readings is not modelled), wire time and
batch slope are the same for every node, and a node's disk holds the last range it loaded.
Scores are compared as cycles, cross-multiplied, so nothing is rounded that the code does
not round. `Plan` and `WouldApply` were compared with the real `placement.plan` on every
state of the run `placement`: no difference.

**Scheduler.** `task` is `_replan` with the ticks until it is due, `lock` is `plan_lock`
with its holder, `absentFor` the age of `absent_since`. `Fire` is the coroutine after its
sleep: `RetryWhenFree`, `AwaitGrace` or `Replan`, in the order of its checks. `owed` and
`news` are history: what was promised, and whether something was not planned for yet.

**Node directory.** A file is an inode (`by` who truncated it last, `whole` whether all its
bytes are there); `part` and `file` are the names `<f>.part` and `<f>`, `fd` the open
descriptors, so a rename or a second opener does what the operating system does. Each
connection has one lock, hence one thread: `pc[c]` is that thread, `job[c]` its task. A drop
cancels the tasks and leaves the thread; a crash of the process ends it. `keeps` tells the two
programs apart: `node.py` keeps foreign shards and fetches in parallel, `np_node.py` fetches
in order and removes the layers outside its range.

**Android node.** `work[c]` is the thread of the executor of socket `c`, `queue` the frames
it still has to take, `io` the prefetch executor. `Teardown` is what `run` does after
`done.await()`: interrupt, drop the queue. An assign is `StartAssign`, `Fetch`, `Load...`,
`Commit`, each of which may come after the next socket is up; where an interrupt can end
the step, `Cut` allows it to. `chain` is what a forward goes through (`layers` of the CPU engine,
`handles` of the NPU engine), `cache[r]` remembers the chain that made it and its passes. The
hub is reduced to its frames and to what it makes of the answers, with `hub.py`'s lines in the map.

**Proxy.** An attempt `<<b, i>>` is the `i`-th request an exporter makes with batch `b`, `stage` the
program counter of its coroutine. Between the arrival of the body and the upstream call the event
loop runs nothing else (`LoopFree`), but the metric reader's thread samples (`Gauge`). The
exporter and the Collector are outside this repository and modelled from how the proxy
answers and calls them: retry after 5xx or a timeout, drop after 4xx, refuse what it cannot read.

### Assumptions about the environment

 * **Planner.** Any tiling that fits the capacities may be chosen (`Tilings`). Costs,
   `min_layers`, `min_nodes` and the ineligible band only narrow that choice; nodes the
   code excludes come back as its last resort (`ComputePlan`).
 * **Timers.** In `Rebalance`, `replan` may run at any moment `plan_lock` is free; the debounce
   and the leave grace (`Scheduler`) only restrict this further.
 * **Deadlines** (`Timeout`, `Drained`, `HopTimeout`, `BatchTimeout`) may run out freely when nothing from the
   node is under way; while something is, running out counts against `MaxFaults`.
 * **`Linger`**: whether frames in flight on a replaced or stale socket still arrive.
   The hub only schedules the close of such a socket, so the code allows it; the runs
   take `FALSE` (see "Known limits" below). The theorems of `RoutingProofs` assume it is
   `FALSE`, all others hold for both.
 * **`RejoinMidSwitch`**: whether a node's hello may be handled while phase 3 runs. The
   code allows it; `rebalance_live` takes `TRUE`, the other passing runs `FALSE`, because
   `rejoin_mid_switch` shows that not even `RoutedWhileOpen` holds otherwise, and a request
   routed on a wrong belief goes wrong with it.
 * **`LateAnswers`**: whether an answer may come after the first round of a switch has given its
   sender up. The code allows it; `rebalance_live` and `serving_ends` take `TRUE`,
   `rebalance_routed`, `serving` and `serving_batch` take `FALSE` for the same reason
   ("Known limits"). Late answers of a prefetch, of the drain and of hops are in every run.
 * **Hellos of one node arrive in order**: `HubHello` takes the first frame of the latest
   connection.
 * **A load** ends with the connection it was started on: its files have changed then or
   never will (`Disconnect`). Threads that outlive their connection are in `NodeIO`.
 * **Bounds.** `MaxConn`, `MaxGen`, `MaxInflight`, `MaxFaults` bound connections, how
   often a *working* layout is replaced (a broken one always may be), requests and failures.

### Not modelled

 * *Hub*: nodes of old builds without `reassign`; the purge of records absent for
   `ABSENT_TTL_S` (in `Scheduler`, not in `Rebalance`); `/preview`; sampling, the
   lengths of pacing; the HTTP pages, which only read; attributes, metrics and gauges of
   `observe.py` and the SDK behind them.
 * *Planner*: how its inputs are averaged from readings, the standby order
   and the wording of reasons, the nested plan at full utilization.
 * *Nodes*: the numerical forward, the MLX node, the status page; on Android batched frames
   (a forward for each row), files in parts, the sweep of the other runtime's shards, the UI.
 * *Proxy*: attribute names, pricing tables, GPU readers, the set-up of the SDK in a process.
 * *Numerics and tools* (`model.py`, `quant.py`, `wire.py`, `slicer.py`, `mlx_backend.py`, `npu/`,
   scripts): arithmetic on tensors, file conversion and measurements, without a protocol of
   their own.

## 3. Properties and runs

`Rebalance` and `Serving` run on two layers and two nodes: two layers are the fewest for
which a node can hold the wrong part of the model, two nodes with room for one layer each
(`SmallCap`) can swap ranges, and with room for the whole model at one (`UnevenCap`, in
`rebalance_routed` and `rebalance_live`) a layout can also shrink to one node and grow again,
and a node may be left over and parked. These runs start from a cluster that serves, gen 1:
the empty hub (`Init`) is where the theorems start, and `rebalance_live` comes to a hub with
no node connected when its one serving node drops. One or two connections per node give a reconnect; a generation
beyond the first gives a move of a working layout. `Placement` has three nodes and six layers: a
fast node whose bench and memory vary, a phone that overheats, a small slow node; one
node can house the model alone only at its best, two just barely or with room to spare,
and at its worst the fast node has less memory than it may be running;
rounding and both pins occur, the balanced allocation gives up on sets that could house the
model, and the dead band hides better splits. `Scheduler` has two nodes, every delay scaled to a
few ticks in the order of the code's constants (retry and debounce below the grace, the grace below the
purge, the period longest), with and without `--replan-delay 0`. `NodeIO` has two layers, two
connections, three tasks and two faults: enough for a thread of each connection on one
directory, a superseded assign, and a failure before the one that is looked at. `AndroidNode` has two layers,
one request of two passes, two sockets per start of the app, two assigns of a new range and one
fault. `Proxy` has one batch of four kinds, three attempts (all may be under way
at once, as its exporter's timeouts are not counted), a failure of the Collector and a restart.

The runs other than `placement` and `scheduler` say `CHECK_DEADLOCK FALSE`: those bounded
systems stop when connections, generations, tasks, attempts and faults are used up.

| Run | Instance | Shows |
|---|---|---|
| `rebalance_routed` | a settled cluster of uneven nodes (the large one on its last connection) that is moved under a request, two faults, no rejoin in phase 3, no late answer in a switch | `TypeOK`; `RoutedHoldsRange`: at no moment would the hub route to a node that holds another range; `CommittedTiles`; `ImplementsService`: callers see the layout service |
| `rebalance_live` | one node serves the whole model and a second joins, which drops files and has room for half of it; fairness, rejoin at any moment, one fault | `WrongBeliefIsTransient`: where the hub routes on a wrong belief, correcting frames are on their way; `ApplyEnds`: the lock is freed and the gate reopened; `Heals`: once failures stop the cluster serves or nothing fits; `JoinersSettle` |
| `rejoin_mid_switch` | two nodes of one layer each, rejoin in phase 3, late answers | violation of `RoutedWhileOpen`: `RoutedHoldsRange` while the gate is open (finding) |
| `serving` | settled cluster, one request with direct hops that may be cancelled, two generations, a reconnect outside phase 3, no late answer in a switch | `SameGenerationSameLayout`: the generation a request noted vouches for the layout its passes ran on; `CachesReleased`; `AnswersThisPass` |
| `serving_batch` | two batched requests that may be cancelled or leave, one generation, one fault | `InflightCounts` (requests counted, root spans open); `SameGenerationWholeCaches` (one request never costs another its cache) |
| `serving_ends` | fairness, two batched requests, frames of one row | `ServingTypeOK` (no frame over `MAX_BATCH`), `RowsHaveRunner` (no lost wakeup), `RequestsEnd` |
| `placement` | three nodes, six layers, records that change at any moment | `PlansAreTilings` (without a plan, what `partial_fill` offers has no layer twice); `FeasibleIsPlanned`: a plan exists whenever some set can house the model; `NearlyBalanced` against every split there is; `BrokenIsReplaced`; `ComesToRest`: unchanged records lead to at most two moves |
| `scheduler` | two nodes, fairness | `PromiseKept`: a replan is pending until the news is planned for, and no later than promised; `GraceKept`: a pending replan never plans within the grace of a drop; `NewsIsPlanned` |
| `node_io` | both programs, fairness | `FilesWhole`, `FailuresHaveCause`, `NewestWins`, `ServedStaysOnDisk`, `TasksEnd` |
| `proxy` | one batch, fairness | `SuccessIsDelivery`, `NeverTheReason`, `CountedPerAttempt` (counters and stats against what was sent and delivered), `ReadingsFresh`, `Arrives` |
| `android` | one phone, either engine, fairness | `CpuAnswersRight`: an answer the hub takes went through the layers it asked for, on caches with all earlier passes; `OnlyLiveFrames`; `DiskBelieved`; `HeartbeatKept`; `AssignAnswered` |
| `npu_chain` | the NPU engine | violation of `AnswersRight` (finding) |

Each property of a passing run has a mutant of the code that breaks it, defined
beside what it mutates (`... Mutant of ...`). The longest runs take about two minutes.

### Findings: where code and comments disagree

| Run | Behaviour |
|---|---|
| `rejoin_mid_switch` | a member that returns during phase 3 is promised its old range under the new generation, so the hub can route to it for a range it no longer holds (`hub.py:223`, `hub.py:544`) |
| `npu_chain` | `NpuEngine.load` adds the graphs of a new range to those of the old one and clears nothing; after a move the phone answers with the old layers followed by the new ones (`NpuEngine.kt:12`, `NpuEngine.kt:59`) |

`WrongBeliefIsTransient` bounds the damage of the first. The second is the NPU engine's alone:
`CpuAnswersRight` holds in the same model.

### Known limits: what the properties leave out because it does not hold

 * A drain that runs out of time switches nodes under a pass; `SameGenerationSameLayout` says
   what is left.
 * A member that drops and returns within a generation serves running requests with an empty
   cache; `SameGenerationWholeCaches` says what is left.
 * With `Linger = TRUE` a ready of a replaced socket can make the hub believe the new one for good.
 * With `LateAnswers = TRUE` `RoutedHoldsRange` does not hold. The waiter key (`hub.py:404`) is the
   same in both rounds of a switch. Where the last resort takes a member that was late in round
   one into round two, its late ready resolves the waiter of round two while it starts to load
   what round two told it: a layout is committed that its record contradicts. The next plan may
   leave it out, fail with another member and, in its own retry, give it the range the record
   names; it is sent nothing (`hub.py:816`), and the hub, the gate open, routes to a node with another
   range until the answer under way arrives (`WrongBeliefIsTransient` holds). That takes a third
   node; with two TLC finds the wrong belief only behind the closed gate. The invariant behind
   `RoutedNodesHoldTheirRange` led to this, and TLC confirmed it on three nodes.
 * A request fails if the record of a node it has just gone through is cleared before its answer
   is handled (`observe.py:228`); a streaming client that goes away after `chat` has opened its root
   span and before its stream begins leaves the span open (`hub.py:1103`), see `InflightCounts`.
 * `partial_fill` takes layers from a live member that runs more than its memory bound now
   allows, contrary to its docstring; `PlansAreTilings` asks of it only that no layer comes twice.
 * The dead band keeps a layer that a node's shrunk memory bound no longer allows;
   `PlansAreTilings` bounds it by what the node could hold at best.
 * `CachesReleased` is checked with direct hops. With `Batched = TRUE` it does not hold: a row
   of a cancelled request that waits in the queue is forwarded after the reset.
 * `FeasibleIsPlanned` is for no more candidates than `MAX_CANDIDATES`; beyond it `Prune` may
   cut away the only set that houses the model.
 * `GraceKept` is about the pending replan: the retries inside `apply_plan` and `/rebalance` plan
   without waiting for a grace.
 * Two connections of one Python node whose threads meet can leave a truncated file, fail
   a load without a cause of its own, or remove a layer that is served. `FilesWhole`,
   `FailuresHaveCause` and `ServedStaysOnDisk` hold until then (`past`).
 * The same on Android: `CpuAnswersRight` and `HeartbeatKept` are for sockets that were opened
   with no thread left at work (`overlap`).
 * The proxy drops `Content-Encoding`: compressed metrics, compressed logs, and compressed traces
   that cannot be enriched are not readable for the Collector. The batches of `MCProxy` contain
   none of these; the theorem states the condition.
 * `NodeService` releases the wake and WiFi locks it has just acquired; a comment beside them says what for.

### What the passing runs do not reach

 * In `rebalance_live` the drain is empty; that it ends with requests under way
   rests on `RequestsEnd` and `InflightCounts`, each checked on one generation.
 * The last resort that plans an excluded node in again, `_park` passing over a
   "reassigning" node and the union of prefetch answers into `disk` are steps of the model
   that no property is about.
 * Two moves in a row do happen in `placement` with records that do not change: the dead
   band hides a better split of the current members until another set has been committed.
 * In `android` the answer "not loaded" is never needed: the hub asks only on a ready that counts.

### Fairness

`Fairness` (Rebalance) and `ServingFairness` take weak fairness for: a node's own steps (its event
loop, its loads, its reconnect loop `forever`), heartbeats, the hub's handlers (frames of
an open TCP connection arrive or it breaks), `apply_plan`, `/rebalance` and requests as coroutines
that run on, deadlines (`asyncio.wait_for`), and replans (triggered by every join, leave, ready
and every `PERIODIC_S`, see `NewsIsPlanned`). No fairness for failures, for a change of a working
layout, for new requests or cancellations. The deadlines that come while an answer is under way are
faults, so liveness never rests on more than `MaxFaults` of them.

`FairSchedSpec`: time passes, a coroutine whose time has come runs, and `apply_plan` ends
(`ApplyEnds`). `NewsIsPlanned` is conditional on graces coming to an end: a node that drops
again before its grace is over may put off every plan. `FairIOSpec`: a task whose turn it is goes on, a thread goes on;
a transfer ends or breaks, which `urlretrieve`, having no timeout, does not enforce. `FairProxySpec`:
the event loop runs what is ready, an upstream call returns at the latest after its timeout, an
exporter sends what it has queued; nothing for `ExportTimeout`, restarts and the reader's thread.
`FairSpec` of `AndroidNode`: threads run on, the retry pause ends, the hub's stale watch comes.

## 4. What is proved

For every value of the constants, from the assumptions named in the modules (bounds are
naturals, delays are positive, `LeaveGrace <= AbsentTtl`, and the like):

| Theorem | Statement | Strengthening and argument |
|---|---|---|
| `TypeCorrect` | `Spec => []TypeOK` (Rebalance) | `TypeInv` adds *`BusyHasAssign`* (a node that loads has an assign at the head of its tasks) and *`TodoPlanned`* (whoever is still to be sent something has a range in the plan), because `StartLoad` takes the head of `tasks` and an assign carries `plan.at[n]` |
| `OnlyTilingsCommitted` | `Spec => []CommittedTiles` | `LayoutInv`: the committed layout, the plan being applied and the queued plan of `/rebalance` are each nothing or a tiling; plans enter from `Tilings`, `Commit` copies |
| `RebalanceImplementsService` | `Spec => ImplementsService` | `GateInv` (`gate = (Stage = "serving")`) makes the closing step a `Close` and the committing step a `Switch`; `LayoutInv` makes the new layout complete; every other step leaves the five mapped values alone |
| `RoutedNodesHoldTheirRange`, `WrongBeliefsPass` | `[]RoutedHoldsRange` where `~Linger`, `~RejoinMidSwitch`, `~LateAnswers`; `[]WrongBeliefIsTransient` where `~Linger` | `RouteInv`: per node the sockets are in order (`Socket`), and what the hub sent, the node's tasks and its answers are one FIFO chain whose newest assign carries `pendingGen` and whose answer names what the node then holds (`Chain`). For the first theorem also *`GenInv`* (no assign is newer than the switch that runs, and who is still to be sent one has an older one) and *`LinkInv`* (all of a chain but its newest frame is of older generations; a record is ready only when its chain is empty; so is the chain of a node that has answered the switch, or that its second round is about to send to) |
| `ServingTypesHold`, `BooksBalance`, `NoRowForgotten`, `AnswersAreOfThisPass` | `ServingSpec => []ServingTypeOK`, `[]InflightCounts`, `[]RowsHaveRunner`, `AnswersThisPass` | one invariant, `ServingInv`. Its core is *`Copies`*: of a request whose hop is awaited at most one copy is anywhere, in a queue, with a runner or in a frame of either direction, and of one that is not awaited and has not failed there is none; so no old answer is left that could be taken for a new pass. *`BooksKept`* ties `inflight` and the spans to the states of requests, *`BatchingSound`* has a runner armed exactly where rows are queued |
| `PassesKeepOneLayout` | `[]SameGenerationSameLayout` where `~Linger`, `~RejoinMidSwitch`, `~LateAnswers` | a request *fits* while its generation is the cluster's. *`EpochInv`*: what fits runs on the committed layout, and no generation is being switched; *`SteadyInv`*: a node such a request is routed to keeps the committed range, because no assign is on its way to it; *`PlaceInv`*: its one copy is with the node it waits for, or on the socket to or from it; *`PassInv`*: it went through the layers before its hop, and an answer on the way through those of the hop too |
| `PassesFindTheirCaches` | `[]SameGenerationWholeCaches` where also `MaxConn = 1` | *`FixedInv`*: a member that fits keeps shard and connection, so nothing empties its cache but resets; *`ResetsOver`*: a reset is under way only when its request is over; *`Unmet`*: a request not yet admitted is in no cache; *`CacheOf`*: a member behind the hop has one pass more than one ahead of it, and the member at the hop has the pass from the moment its answer is on the way |
| `CachesGoWithRequests` | `[]CachesReleased` where `~Linger`, `~Batched` | *`ReleaseInv`*: of a request that is over, a node with something in its cache has a reset on its way to it, behind every frame of the request, unless its socket is gone; a node that loads starts empty |
| `SchedTypeCorrect`, `NoRequestLost`, `GraceAlwaysKept` | `[]SchedTypeOK`, `[]PromiseKept`, `GraceKept` | `PromiseKept` is inductive with the types; `GraceKept` by the guards of `Replan` and because every other step that touches the pending replan leaves one pending (`ScheduleKeeps`) |
| `NewestAssignWins` | `[]NewestWins` | *`NewestInv`*: in the order of the lock an assign that waits is the newest or has the newest behind it, and the last answer speaks of what is loaded |
| `FailsForCause`, `ServedIsOnDisk` | `[]FailuresHaveCause`, `[]ServedStaysOnDisk` | *`CauseInv`*: what a thread that is alone on the directory finds there at each of its steps, from the first file it lists to the last it drops; the next layer to fetch exists because the sets of layers are finite |
| `IOTypeCorrect`, `NoTruncatedShard` | `[]IOTypeOK`, `[]FilesWhole` | *`WritersOwn`*: until two threads open one `.part` file, every open download writes to a `.part` it was the last to truncate, so the rename moves a whole file; *`OpenHasInode`*, *`TasksOfConn`*, *`ThreadHasTask`* |
| `CountersAreHonest` | `[]CountedPerAttempt` | *`Books`*: `meter.tokens` is the number of calls in the attempts that were derived, and `stats` that of the attempts that ended; a sum over attempts is the size of a set with one pair for each call, so one attempt more is a disjoint union. `Requests` and `Observed` differ by the one span that raises, the first that does, which exists because prefixes are well-founded |
| `NothingSwallowed`, `ReadingsStayFresh`, `RefusedForItsFault` | `[]SuccessIsDelivery`, `[]ReadingsFresh`, and `[]NeverTheReason` where compressed batches are enriched | what the exporter hears was decided steps earlier: *`AnswerTrue`* ties `code` to `taken` in between; the snapshot's stamp is never later than its reading |
| `NoDeadFrames`, `HubKnowsTheDisk`, `HeartbeatNotLost` | `[]OnlyLiveFrames`, `[]DiskBelieved`, `[]HeartbeatKept` (AndroidNode) | *`LiveQueue`*: frames of the last socket may wait while it is dead and are gone before the next; *`DiskListed`*: the replayed listing was on the disk, which only grows; *`OneWorker`*: only the last executor is at work unless one outlived its socket |
| `CpuAnswersAreRight` | `[]CpuAnswersRight` (AndroidNode) | *`AnswersInv`*: the chain is that of the range in force or being loaded (*`EngineInv`*), the last assign carries what the hub told last (*`AssignInv`*), the hub routes only on the range in force (*`BeliefInv`*), a waiting forward finds its range (*`ForwardInv`*), a request's forward is at one place while it is asked and nowhere in between (*`PlaceInv`*), and the cache of a request that is alive fits chain and passes (*`CacheInv`*). The step all rests on: no load begins while a request is alive |

The theorems of `RoutingProofs` state their hypotheses, and each is needed: `rejoin_mid_switch`
violates the conclusion without the second, "Known limits" tells what happens without the
others. `rebalance_routed` and `rebalance_live` run under exactly these hypotheses. The first
theorem does not need the gate, so the property does not ask for it.

Only model-checked, and why:

 * all liveness (`ApplyEnds`, `Heals`, `JoinersSettle`, `RequestsEnd`, `NewsIsPlanned`, `TasksEnd`, `Arrives`,
   `AssignAnswered`): fairness and ENABLED are beyond the prover;
 * the five invariants of `Placement`: its allocations, its order and its layouts are folds,
   sorts and recursive functions over the nodes. What they return for every input needs
   induction over data; the induction theorems cannot be instantiated, and arguing from a
   least counterexample, as `ProxyProofs` does for one prefix, would have to be repeated for
   every fold, its existence included. None of it is attempted.

## 5. Plan

In this order, most important first.

 1. Lemmas on `Placement` that need no induction: `DeadBand`, `Layout` of counts that sum up,
    the decision to apply.
 2. The purge of absent records in `Rebalance`; the planner's inputs and the standby order.
 3. Batched frames on Android; the MLX node's fallback.

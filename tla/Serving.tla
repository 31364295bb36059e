------------------------------ MODULE Serving -------------------------------
(***************************************************************************)
(* Requests on the cluster that Rebalance moves.                           *)
(*                                                                         *)
(* A request (chat, then generate in dllm/hub.py) opens its root span and  *)
(* runs passes: the prompt first, then one token at a time.  A pass        *)
(* (forward_all) goes through the nodes of the pipeline in layer order;    *)
(* each node adds the pass to the request's KV cache, which lives and dies *)
(* with the node's shard.  The first pass is sent to a node directly;      *)
(* later ones wait, when Batched, in a queue per node that a runner task   *)
(* turns into one frame for several requests.                              *)
(*                                                                         *)
(* An activation is abstracted to what can be wrong with it: how far up    *)
(* the model the layers have really been applied in this pass, and whether *)
(* every cache it met held all the earlier passes of its request.          *)
(***************************************************************************)
EXTENDS Rebalance

CONSTANTS
  Reqs,      \* the requests
  MaxPass,   \* bound: passes of a request
  MaxBatch,  \* MAX_BATCH: rows of one frame
  Batched,   \* TRUE: every node of the pipeline batches decode passes
  Cancels    \* TRUE: replies are streamed, so a client may go away earlier

ASSUME ServingAssumption ==
  /\ IsFiniteSet(Reqs) /\ Cardinality(Reqs) <= MaxInflight
  /\ MaxPass \in Nat \ {0} /\ MaxBatch \in Nat \ {0}
  /\ Batched \in BOOLEAN /\ Cancels \in BOOLEAN

VARIABLES
  req,    \* req[r]: the generate coroutine of r
  span,   \* span[r]: the root span of r (observe.py), "none" if r was refused
  fut,    \* fut[r]: the future r awaits on its current hop
  queue,  \* queue[n]: rows waiting for n (_batch_pending)
  armed,  \* armed[n]: a runner sleeps out its window for n (_batch_task)
  sent,   \* sent[n]: runners past their window, with the rows they took
  cache   \* cache[n][r]: passes of r in the KV cache of n's shard

servingVars == <<req, span, fut, queue, armed, sent, cache>>
allVars     == <<vars, servingVars>>

\* upto is a layer no range starts at once a pass has gone wrong.
Astray == NLayers + 1
Acts   == [pass : 0 .. MaxPass, at : 0 .. NLayers, upto : 0 .. Astray,
           whole : BOOLEAN]
States == {"new", "called", "between", "pacing", "waiting", "queued", "over", "left"}

\* Frames this module adds to the sockets.
Batches(T) == UNION {[t : T, x : [S -> Acts], ok : BOOLEAN] : S \in SUBSET Reqs}
Traffic    == Batches({"fwd", "fwd_batch", "fwd_out", "fwd_batch_out"})
                \cup [t : {"reset"}, req : Reqs]
ASSUME TrafficAssumption == Traffic \subseteq OtherFrames

\* The types of both modules: in particular no frame carries more rows than
\* MAX_BATCH or none at all, and no request is counted out twice.
ServingTypeOK ==
  /\ TypeOK
  /\ req \in [Reqs -> [st : States, gen : Nat, pipe : Layouts,
                       home : SUBSET Nodes, x : Acts]]
  /\ span \in [Reqs -> {"none", "open", "finished", "failed"}]
  /\ fut \in [Reqs -> {"none", "open", "ok", "failed"}]
  /\ queue \in [Nodes -> Seq(Reqs)]
  /\ armed \in [Nodes -> BOOLEAN]
  /\ \A n \in Nodes : \A b \in sent[n] :
       /\ Cardinality(b.rows) \in 1 .. MaxBatch
       /\ b \in [rows : SUBSET Reqs, st : {"pacing", "waiting"}, dead : BOOLEAN]
  /\ cache \in [Nodes -> [Reqs -> Nat]]

EmptyCache == [r \in Reqs |-> 0]
FirstAct   == [pass |-> 0, at |-> 0, upto |-> 0, whole |-> TRUE]

ServingInit ==
  /\ req = [r \in Reqs |-> [st |-> "new", gen |-> 0, pipe |-> NoLayout,
                            home |-> {}, x |-> FirstAct]]
  /\ span = [r \in Reqs |-> "none"]
  /\ fut = [r \in Reqs |-> "none"]
  /\ queue = [n \in Nodes |-> <<>>]
  /\ armed = [n \in Nodes |-> FALSE]
  /\ sent = [n \in Nodes |-> {}]
  /\ cache = [n \in Nodes |-> EmptyCache]

\* Requests that are counted in.
Running == {r \in Reqs : req[r].st \notin {"new", "called", "over", "left"}}

\* The node that has the layers q is to go through next.
Owner(q) == CHOOSE n \in Nodes : q.pipe[n] # NoRange /\ q.pipe[n][1] = q.x.at

\* A frame to the socket n's record is bound to; without one, sending raises.
Bound(n)   == ws[n] # 0
SendTo(n, f) == toNode' = Sent(n, ws[n], f)

Fwd(t, S) == [t |-> t, x |-> [r \in S |-> req[r].x], ok |-> TRUE]

-----------------------------------------------------------------------------
(***************************************************************************)
(* The trace of a request (observe.py): its root span is opened once, and  *)
(* ended by whoever sees the request end.                                  *)
(***************************************************************************)

SpanOpens(r)     == span' = [span EXCEPT ![r] = "open"]
SpanEnds(r, how) == span' = [span EXCEPT ![r] = how]

\* A hop's span unpacks the layers of the node's record as it is when the answer is
\* in; a hello or an error may have cleared them meanwhile, and then it raises.
Traced(n) == layers[n] # NoRange

-----------------------------------------------------------------------------
(***************************************************************************)
(* chat, generate and forward_all.                                         *)
(***************************************************************************)

\* Mutant of Resets: only the node that comes first is told.
ResetsFirst(r) ==
  [n \in Nodes |->
     IF n \in req[r].home /\ req[r].pipe[n][1] = 0 /\ Bound(n) /\ Reaches(n, ws[n])
     THEN Append(toNode[n], [t |-> "reset", req |-> r]) ELSE toNode[n]]

\* What the finally of generate sends: the nodes the request began on are told
\* to drop its cache.
Resets(r) ==
  [n \in Nodes |->
     IF n \in req[r].home /\ Bound(n) /\ Reaches(n, ws[n])
     THEN Append(toNode[n], [t |-> "reset", req |-> r]) ELSE toNode[n]]

\* Mutant of End: a request that fails is not counted out.
EndUncounted(r, how) ==
  /\ req' = [req EXCEPT ![r].st = "over"]
  /\ SpanEnds(r, how)
  /\ fut' = [fut EXCEPT ![r] = "none"]
  /\ toNode' = Resets(r)
  /\ UNCHANGED <<recordVars, applyVars, inflight, nodeVars, toHub, open, queue,
                 armed, sent, cache>>

\* The finally of generate counts r out and resets it; chat then ends the span,
\* finished or, after an exception, failed.
End(r, how) ==
  /\ inflight' = inflight - 1
  /\ req' = [req EXCEPT ![r].st = "over"]
  /\ SpanEnds(r, how)
  /\ fut' = [fut EXCEPT ![r] = "none"]
  /\ toNode' = Resets(r)
  /\ UNCHANGED <<recordVars, applyVars, nodeVars, toHub, open, queue, armed,
                 sent, cache>>

\* Hand q to the next node: a decode pass joins its queue, or waits out its
\* pace; the first pass is sent at once.
Hop(r, q) ==
  LET n == Owner(q) IN
    /\ fut' = [fut EXCEPT ![r] = "open"]
    /\ IF q.x.pass = 0
       THEN /\ req' = [req EXCEPT ![r] = [q EXCEPT !.st = "waiting"]]
            /\ toNode' = Sent(n, ws[n], [t |-> "fwd", x |-> [s \in {r} |-> q.x],
                                         ok |-> TRUE])
            /\ UNCHANGED <<queue, armed>>
       ELSE IF Batched
       THEN /\ req' = [req EXCEPT ![r] = [q EXCEPT !.st = "queued"]]
            /\ queue' = [queue EXCEPT ![n] = Append(@, r)]
            /\ armed' = [armed EXCEPT ![n] = TRUE]
            /\ UNCHANGED toNode
       ELSE /\ req' = [req EXCEPT ![r] = [q EXCEPT !.st = "pacing"]]
            /\ UNCHANGED <<queue, armed, toNode>>

\* A 503 that says which layers nobody holds, or have no home.
Refuse(r) == /\ req' = [req EXCEPT ![r].st = "over"]
             /\ UNCHANGED span

\* chat waits for the gate: an incomplete pipeline is a 503, otherwise the root
\* span is opened and generate is called.
Chat(r) ==
  /\ req[r].st = "new" /\ gate
  /\ IF PipelineComplete
     THEN /\ req' = [req EXCEPT ![r].st = "called"]
          /\ SpanOpens(r)
     ELSE Refuse(r)
  /\ UNCHANGED <<vars, fut, queue, armed, sent, cache>>

\* 120 s at the closed gate: a 503, "rebalancing".
ChatTimeout(r) ==
  /\ req[r].st = "new" /\ ~gate
  /\ req' = [req EXCEPT ![r].st = "over"]
  /\ UNCHANGED <<vars, span, fut, queue, armed, sent, cache>>

\* A streaming client goes away before its request is counted in: at the gate the
\* exception ends the span, but a stream that has not begun has nobody to end it.
Leave(r) ==
  /\ Cancels /\ req[r].st = "called"
  /\ \/ /\ ~gate
        /\ req' = [req EXCEPT ![r].st = "over"]
        /\ SpanEnds(r, "failed")
     \/ /\ req' = [req EXCEPT ![r].st = "left"]
        /\ UNCHANGED span
  /\ UNCHANGED <<vars, fut, queue, armed, sent, cache>>

\* generate passes the gate in its turn, notes the generation and starts on the
\* prompt; a pipeline that broke since chat looked fails it at once.
Admit(r) ==
  /\ req[r].st = "called" /\ gate
  /\ IF PipelineComplete
     THEN /\ inflight' = inflight + 1
          /\ Hop(r, [st |-> "between", gen |-> gen, pipe |-> Serving,
                     home |-> Members(Serving), x |-> FirstAct])
          /\ UNCHANGED span
     ELSE /\ req' = [req EXCEPT ![r].st = "over"]
          /\ SpanEnds(r, "failed")
          /\ UNCHANGED <<inflight, fut, queue, armed, toNode>>
  /\ UNCHANGED <<recordVars, applyVars, nodeVars, toHub, open, faults, sent,
                 cache>>

\* forward_all of a later pass: refused when the generation has moved on or the
\* pipeline is incomplete.
StartPass(r) ==
  /\ req[r].st = "between" /\ req[r].x.pass < MaxPass
  /\ IF req[r].gen = gen /\ PipelineComplete
     THEN /\ Hop(r, [req[r] EXCEPT !.pipe = Serving, !.x.at = 0, !.x.upto = 0])
          /\ UNCHANGED <<recordVars, applyVars, inflight, nodeVars, toHub, open,
                         span, sent, cache>>
     ELSE End(r, "failed")
  /\ UNCHANGED faults

\* The pace of a direct decode hop is over: send to the node's present socket.
SendHop(r) ==
  /\ req[r].st = "pacing"
  /\ LET n == Owner(req[r]) IN
       IF Bound(n)
       THEN /\ SendTo(n, Fwd("fwd", {r}))
            /\ req' = [req EXCEPT ![r].st = "waiting"]
            /\ UNCHANGED <<recordVars, applyVars, inflight, nodeVars, toHub,
                           open, span, fut, queue, armed, sent, cache>>
       ELSE End(r, "failed")
  /\ UNCHANGED faults

\* The answer of a hop is in: go on to the next node, or end the pass.
HopDone(r) ==
  /\ req[r].st \in {"waiting", "queued"} /\ fut[r] = "ok"
  /\ LET n   == Owner(req[r])
         end == req[r].pipe[n][2]
         q   == [req[r] EXCEPT !.x.at = end]
     IN IF ~Traced(n) \/ (end < NLayers /\ q.x.pass = 0 /\ ~Bound(Owner(q)))
        THEN End(r, "failed")
        ELSE IF end < NLayers
        THEN /\ Hop(r, q)
             /\ UNCHANGED <<recordVars, applyVars, inflight, nodeVars, toHub,
                            open, span, sent, cache>>
        ELSE /\ req' = [req EXCEPT ![r] = [q EXCEPT !.st = "between",
                                                    !.x.pass = @ + 1]]
             /\ fut' = [fut EXCEPT ![r] = "none"]
             /\ UNCHANGED <<vars, span, queue, armed, sent, cache>>
  /\ UNCHANGED faults

\* The hop failed: the request does too.
HopFails(r) ==
  /\ req[r].st \in {"waiting", "queued"} /\ fut[r] = "failed"
  /\ End(r, "failed") /\ UNCHANGED faults

\* An end-of-text token, or max_tokens.
Done(r) ==
  /\ req[r].st = "between" /\ End(r, "finished") /\ UNCHANGED faults

\* The client goes away: generate is cancelled where it waits.
Cancel(r) ==
  /\ Cancels /\ r \in Running
  /\ End(r, "failed") /\ UNCHANGED faults

\* Mutant of HopTimeout: the hop is tried again.
HopTimeoutRetries(r) ==
  /\ req[r].st = "waiting" /\ fut[r] = "open"
  /\ Bound(Owner(req[r]))
  /\ SendTo(Owner(req[r]), Fwd("fwd", {r}))
  /\ IF UnderWay(Owner(req[r])) THEN Fault ELSE UNCHANGED faults
  /\ UNCHANGED <<recordVars, applyVars, inflight, nodeVars, toHub, open,
                 servingVars>>

\* 120 s without an answer to a direct hop.  As in Rebalance, only a fault while
\* something from the node is under way.
HopTimeout(r) ==
  /\ req[r].st = "waiting" /\ fut[r] = "open"
  /\ End(r, "failed")
  /\ IF UnderWay(Owner(req[r])) THEN Fault ELSE UNCHANGED faults

-----------------------------------------------------------------------------
(***************************************************************************)
(* _batch_runner.                                                          *)
(***************************************************************************)

\* The rows of S get value v, those of them that are still awaited.
Settle(S, v) == [r \in Reqs |-> IF r \in S /\ fut[r] = "open" THEN v ELSE fut[r]]

RowSet(s) == {s[i] : i \in DOMAIN s}

\* Mutant of TakenOf: the queue is not cut at MAX_BATCH.
TakenAll(n) == Len(queue[n])

\* How many rows the next frame to n takes.
TakenOf(n) == IF Len(queue[n]) < MaxBatch THEN Len(queue[n]) ELSE MaxBatch

\* Mutant of RunWindow: rows beyond a full frame are left without a runner.
RunWindowOnce(n) ==
  /\ armed[n] /\ Live(n)
  /\ LET k == TakenOf(n)
     IN /\ queue' = [queue EXCEPT ![n] = SubSeq(@, k + 1, Len(@))]
        /\ sent' = [sent EXCEPT ![n] = @ \cup
              {[rows |-> RowSet(SubSeq(queue[n], 1, k)), st |-> "pacing",
                dead |-> FALSE]}]
  /\ armed' = [armed EXCEPT ![n] = FALSE]
  /\ UNCHANGED <<vars, req, span, fut, cache>>

\* The window is over: take the first rows, leave the others to a new runner.
RunWindow(n) ==
  /\ armed[n]
  /\ LET k    == TakenOf(n)
         took == RowSet(SubSeq(queue[n], 1, k))
     IN /\ queue' = [queue EXCEPT ![n] = SubSeq(@, k + 1, Len(@))]
        /\ armed' = [armed EXCEPT ![n] = queue'[n] # <<>>]
        /\ IF Live(n)
           THEN /\ sent' = [sent EXCEPT ![n] = @ \cup
                      {[rows |-> took, st |-> "pacing", dead |-> FALSE]}]
                /\ UNCHANGED fut
           ELSE /\ fut' = Settle(took, "failed")
                /\ UNCHANGED sent
  /\ UNCHANGED <<vars, req, span, cache>>

\* The pace is over: send the frame, unless the socket is gone.  A runner whose
\* future failed meanwhile sends it all the same.
SendBatch(n) ==
  \E b \in sent[n] :
    /\ b.st = "pacing"
    /\ IF Bound(n) THEN SendTo(n, Fwd("fwd_batch", b.rows)) ELSE UNCHANGED toNode
    /\ IF Bound(n) /\ ~b.dead
       THEN /\ sent' = [sent EXCEPT ![n] = (@ \ {b}) \cup
                          {[b EXCEPT !.st = "waiting"]}]
            /\ UNCHANGED fut
       ELSE /\ sent' = [sent EXCEPT ![n] = @ \ {b}]
            /\ fut' = Settle(b.rows, "failed")
    /\ UNCHANGED <<recordVars, applyVars, inflight, nodeVars, toHub, open,
                   faults, req, span, queue, armed, cache>>

\* 120 s without an answer to a frame: all its rows fail.
BatchTimeout(n) ==
  \E b \in sent[n] :
    /\ b.st = "waiting"
    /\ sent' = [sent EXCEPT ![n] = @ \ {b}]
    /\ fut' = Settle(b.rows, "failed")
    /\ IF UnderWay(n) THEN Fault ELSE UNCHANGED faults
    /\ UNCHANGED <<recordVars, applyVars, inflight, nodeVars, netVars, req, span,
                   queue, armed, cache>>

-----------------------------------------------------------------------------
(***************************************************************************)
(* Forwards at the node and answers at the hub.                            *)
(***************************************************************************)

NodeHears(n, T) == toNode[n] # <<>> /\ Head(toNode[n]).t \in T

\* What n's shard makes of the activation x of r.
Applied(n, r, x) ==
  [x EXCEPT !.upto  = IF shard[n][1] = @ THEN shard[n][2] ELSE Astray,
            !.whole = @ /\ cache[n][r] = x.pass]

\* The message loop runs a forward on its shard, or answers "not loaded".
Forward(n) ==
  /\ NodeHears(n, {"fwd", "fwd_batch"})
  /\ LET f    == Head(toNode[n])
         S    == DOMAIN f.x
         kind == IF f.t = "fwd" THEN "fwd_out" ELSE "fwd_batch_out"
     IN IF shard[n] = NoRange
        THEN /\ Says(n, [t |-> kind, x |-> f.x, ok |-> FALSE])
             /\ UNCHANGED cache
        ELSE /\ Says(n, [t |-> kind, x |-> [r \in S |-> Applied(n, r, f.x[r])],
                         ok |-> TRUE])
             /\ cache' = [cache EXCEPT ![n] =
                            [r \in Reqs |-> IF r \in S THEN @[r] + 1 ELSE @[r]]]
  /\ toNode' = [toNode EXCEPT ![n] = Tail(@)]
  /\ UNCHANGED <<recordVars, applyVars, inflight, nodeVars, open, faults, req,
                 span, fut, queue, armed, sent>>

\* Mutant of Reset: the caches of every request go.
ResetAll(n) ==
  /\ NodeHears(n, {"reset"})
  /\ cache' = [cache EXCEPT ![n] = EmptyCache]
  /\ toNode' = [toNode EXCEPT ![n] = Tail(@)]
  /\ UNCHANGED <<recordVars, applyVars, inflight, nodeVars, toHub, open, faults,
                 req, span, fut, queue, armed, sent>>

\* The request is over: its cache goes, if there is a shard to have one.
Reset(n) ==
  /\ NodeHears(n, {"reset"})
  /\ cache' = [cache EXCEPT ![n][Head(toNode[n]).req] = 0]
  /\ toNode' = [toNode EXCEPT ![n] = Tail(@)]
  /\ UNCHANGED <<recordVars, applyVars, inflight, nodeVars, toHub, open, faults,
                 req, span, fut, queue, armed, sent>>

\* Futures a direct answer f may resolve.  Its key is the request and the hop; a
\* request's passes all run on the layout of its generation, so the first layer
\* says which hop it is.
Keyed(r, f) == req[r].st \in {"pacing", "waiting"} /\ req[r].x.at = f.x[r].at

\* An answer resolves the future of its key, if it is still awaited.
HubForwarded(n, c) ==
  /\ Hears(n, c, "fwd_out") \/ Hears(n, c, "fwd_batch_out")
  /\ LET f == Head(toHub[n][c])
         B == {b \in sent[n] : b.st = "waiting" /\ b.rows = DOMAIN f.x}
         S == IF f.t = "fwd_out" THEN {r \in DOMAIN f.x : Keyed(r, f)}
              ELSE UNION {b.rows : b \in B}
         open_ == {r \in S : fut[r] = "open"}
     IN /\ fut' = Settle(S, IF f.ok THEN "ok" ELSE "failed")
        /\ req' = [r \in Reqs |-> IF f.ok /\ r \in open_
                                  THEN [req[r] EXCEPT !.x = f.x[r]] ELSE req[r]]
        /\ sent' = IF f.t = "fwd_out" THEN sent ELSE [sent EXCEPT ![n] = @ \ B]
  /\ Take(n, c)
  /\ UNCHANGED <<recordVars, applyVars, inflight, nodeVars, toNode, open, faults,
                 span, queue, armed, cache>>

-----------------------------------------------------------------------------
(***************************************************************************)
(* Composition: what a step of the rebalance does to requests.             *)
(***************************************************************************)

MemberLeft == \E n \in Nodes : ws[n] # 0 /\ ws'[n] = 0 /\ committed[n] # NoRange

\* Futures in pending: those of direct hops, and those of runners.
Pending == {r \in Reqs : req[r].st \in {"pacing", "waiting"}}
InFrame(n) == UNION {b.rows : b \in {d \in sent[n] : d.st = "waiting"}}

\* _left of a member fails everything pending; a shard that goes takes its
\* caches with it.
Disturb ==
  /\ cache' = [n \in Nodes |-> IF shard'[n] = shard[n] THEN cache[n]
                               ELSE EmptyCache]
  /\ IF MemberLeft
     THEN /\ fut' = Settle(Pending \cup UNION {InFrame(n) : n \in Nodes}, "failed")
          /\ sent' = [n \in Nodes |-> {[b EXCEPT !.dead = TRUE] :
                                        b \in {d \in sent[n] : d.st = "pacing"}}]
     ELSE UNCHANGED <<fut, sent>>
  /\ UNCHANGED <<req, span, queue, armed>>

RequestStep(r) ==
  \/ StartPass(r) \/ SendHop(r) \/ HopDone(r) \/ HopFails(r) \/ HopTimeout(r)

BatchStep(n) == RunWindow(n) \/ SendBatch(n) \/ BatchTimeout(n)

ServingStep ==
  \/ \E r \in Reqs :
       \/ Chat(r) \/ ChatTimeout(r) \/ Leave(r) \/ Admit(r)
       \/ RequestStep(r) \/ Done(r) \/ Cancel(r)
  \/ \E n \in Nodes :
       \/ BatchStep(n) \/ Forward(n) \/ Reset(n)
       \/ \E c \in Conns : HubForwarded(n, c)

ServingNext == (Rebalancing /\ Disturb) \/ ServingStep

ServingSpec == Init /\ ServingInit /\ [][ServingNext]_allVars

\* As in Rebalance, and a request goes on until it ends; that it ends before
\* MaxPass is not assumed, nor that one is made or cancelled.
ServingFairness ==
  /\ \A n \in Nodes :
       /\ WF_allVars(NodeStep(n) /\ Disturb)
       /\ WF_allVars(Heartbeat(n) /\ Disturb)
       /\ WF_allVars(Timeout(n) /\ Disturb)
       /\ \A c \in Conns : WF_allVars(HubHears(n, c) /\ Disturb)
       /\ \A c \in Conns : WF_allVars(HubForwarded(n, c))
       /\ WF_allVars(Forward(n) \/ Reset(n))
       /\ WF_allVars(RunWindow(n)) /\ WF_allVars(SendBatch(n))
       /\ WF_allVars(BatchTimeout(n))
  /\ \A r \in Reqs : WF_allVars(Admit(r)) /\ WF_allVars(RequestStep(r) \/ Done(r))
  /\ WF_allVars(ApplyStep /\ Disturb)
  /\ WF_allVars(ReplanApplies /\ Disturb) /\ WF_allVars(ReplanParks /\ Disturb)
  /\ WF_allVars(ManualApplies /\ Disturb)

-----------------------------------------------------------------------------
(***************************************************************************)
(* Properties.                                                             *)
(***************************************************************************)

\* inflight, which the drain waits on, is the number of requests running, and
\* the root spans that are open are those of requests that run or have been
\* called: whatever fails, cancels or refuses a request does both halves of its
\* bookkeeping.  Only a client that leaves before its stream begins leaves its
\* span open (chat in hub.py).
Called == {r \in Reqs : req[r].st = "called"}
InflightCounts ==
  /\ inflight = Cardinality(Running)
  /\ {r \in Reqs : span[r] = "open"}
       = Running \cup Called \cup {r \in Reqs : req[r].st = "left"}

\* The results a request has: those of its finished passes.
Finished(r) == req[r].st \in {"between", "over"} /\ req[r].x.at = NLayers

\* hub.py: "gen_gate closes while the cluster drains, so a request never
\* straddles two layer layouts".  Every pass went once through every layer, in
\* order, while the request's generation is the cluster's: it straddles layouts
\* only if the drain ran out of time.  Where RoutedHoldsRange does not hold (late
\* answers in a switch, a rejoin during it) the hub routes passes wrongly as well.
SameGenerationSameLayout ==
  \A r \in Running : Finished(r) /\ req[r].gen = gen => req[r].x.upto = NLayers

\* Every pass found all earlier passes of its request in the caches, while no
\* node can reconnect and the request's generation is still the cluster's:
\* cancelled and timed out requests, moved neighbours and members that leave never
\* cost a request a pass of its own cache.  Like the property above it is for
\* switches whose answers come in time.
SameGenerationWholeCaches ==
  \A r \in Running : Finished(r) /\ req[r].gen = gen => req[r].x.whole

\* No lost wakeup: whatever was queued while a runner took its rows has a runner.
RowsHaveRunner == \A n \in Nodes : queue[n] # <<>> => armed[n]

\* An answer resolves the hop it was asked for, though its key (request, hop)
\* does not say of which pass.
AnswersThisPass ==
  [][\A r \in Reqs : fut[r] = "open" /\ fut'[r] = "ok"
       => req'[r].x.pass = req[r].x.pass /\ req'[r].x.at = req[r].x.at]_allVars

\* Once nothing runs and nothing is under way, no node keeps a KV cache.
Quiet ==
  /\ inflight = 0
  /\ \A n \in Nodes : toNode[n] = <<>> /\ queue[n] = <<>> /\ sent[n] = {}
CachesReleased ==
  Quiet => \A n \in Nodes : Bound(n) /\ Reaches(n, ws[n]) => cache[n] = EmptyCache

\* Every request that got past chat's gate ends, whatever its nodes do.
RequestsEnd ==
  \A r \in Reqs : r \in Running \cup Called ~> r \notin Running \cup Called
=============================================================================

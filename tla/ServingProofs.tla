--------------------------- MODULE ServingProofs ----------------------------
(***************************************************************************)
(* What holds of Serving for every cluster, every set of requests, every   *)
(* number of passes and every batch size: its types and bookkeeping, that  *)
(* no row is left without a runner, and that an answer resolves only the   *)
(* hop it was asked for.                                                   *)
(*                                                                         *)
(* The keys of the hub's futures do not say of which pass an answer is, so *)
(* what keeps an old answer from a new pass is that there is none: of a    *)
(* request whose hop is awaited at most one copy is anywhere (in a queue,  *)
(* with a runner, or in a frame in either direction), and of any other     *)
(* that has not failed there is none.  ServingInv says so.                 *)
(***************************************************************************)
EXTENDS Serving, RebalanceProofs, FiniteSetTheorems

-----------------------------------------------------------------------------
(***************************************************************************)
(* Where the activation of a request can be.                               *)
(***************************************************************************)

FwdKinds     == {"fwd", "fwd_batch", "fwd_out", "fwd_batch_out"}
ServingKinds == FwdKinds \cup {"reset"}

\* The frame f carries an activation of r.
Carries(f, r) == f.t \in FwdKinds /\ r \in DOMAIN f.x

Has(q, r)    == \E i \in DOMAIN q : Carries(q[i], r)
Single(q, r) == \A i, j \in DOMAIN q : Carries(q[i], r) /\ Carries(q[j], r) => i = j

HasRow(q, r) == \E i \in DOMAIN q : q[i] = r
OneRow(q, r) == \A i, j \in DOMAIN q : q[i] = r /\ q[j] = r => i = j

\* Runners that have taken r and not sent it yet.
Holders(B, r) == {b \in B : b.st = "pacing" /\ r \in b.rows}
OneHolder(B, r) == \A b, d \in Holders(B, r) : b = d

\* The places with a copy of r: frames to a node, rows queued for it, rows its
\* runners hold, frames from it on each connection.
Places == {"node", "queue", "run", "hub"} \X Nodes \X Conns
Sites(r) ==
  {s \in Places :
     \/ s[1] = "node"  /\ s[3] = 1 /\ Has(toNode[s[2]], r)
     \/ s[1] = "queue" /\ s[3] = 1 /\ HasRow(queue[s[2]], r)
     \/ s[1] = "run"   /\ s[3] = 1 /\ Holders(sent[s[2]], r) # {}
     \/ s[1] = "hub"   /\ Has(toHub[s[2]][s[3]], r)}

\* There is at most one copy of r.
Unique(r) ==
  /\ \A s, t \in Sites(r) : s = t
  /\ \A n \in Nodes : /\ Single(toNode[n], r) /\ OneRow(queue[n], r)
                      /\ OneHolder(sent[n], r)
                      /\ \A c \in Conns : Single(toHub[n][c], r)

\* Copies of r are of the pass and the hop it is in.
Match(r) ==
  \A n \in Nodes :
    /\ \A i \in DOMAIN toNode[n] :
         Carries(toNode[n][i], r) => toNode[n][i].x[r] = req[r].x
    /\ \A c \in Conns : \A i \in DOMAIN toHub[n][c] :
         LET f == toHub[n][c][i] IN
           Carries(f, r) => f.x[r].pass = req[r].x.pass /\ f.x[r].at = req[r].x.at

Hopping == {"pacing", "waiting", "queued"}

\* r awaits an answer; r may still send and awaits none.
Pends(q, v) == q.st \in {"waiting", "queued"} /\ v = "open"
Idles(q, v) ==
  \/ q.st \in {"new", "called", "between"}
  \/ q.st = "pacing" /\ v # "failed"
  \/ q.st \in {"waiting", "queued"} /\ v = "ok"

Copies(r) ==
  /\ Idles(req[r], fut[r]) => Sites(r) = {}
  /\ Pends(req[r], fut[r]) => Unique(r) /\ Match(r)

-----------------------------------------------------------------------------
(***************************************************************************)
(* The invariant.                                                          *)
(***************************************************************************)

Waits    == {"new", "called", "over", "left"}
Requests == [st : States, gen : Nat, pipe : Layouts, home : SUBSET Nodes, x : Acts]
Futures  == {"none", "open", "ok", "failed"}

\* A request that runs has a pipeline that tiles the model; one that is on a hop
\* has a node for it, passes left and a future, and no answer before it has sent.
Sound(q, v) ==
  /\ q.st \notin Waits => Tiles(q.pipe)
  /\ q.st \in Hopping =>
       /\ q.x.pass < MaxPass
       /\ \E n \in Nodes : q.pipe[n] # NoRange /\ q.pipe[n][1] = q.x.at
  /\ v # "none" <=> q.st \in Hopping
  /\ q.st = "pacing" => v # "ok"

RequestsSound ==
  /\ req \in [Reqs -> Requests] /\ fut \in [Reqs -> Futures]
  /\ \A r \in Reqs : Sound(req[r], fut[r])

Runs == {b \in [rows : SUBSET Reqs, st : {"pacing", "waiting"}, dead : BOOLEAN] :
           Cardinality(b.rows) \in 1 .. MaxBatch}

\* The batching of each node: a runner whenever there are rows, and no frame of
\* no rows or too many.
BatchingSound ==
  /\ queue \in [Nodes -> Seq(Reqs)]
  /\ armed \in [Nodes -> BOOLEAN]
  /\ sent \in [Nodes -> SUBSET Runs]
  /\ \A n \in Nodes : armed[n] <=> queue[n] # <<>>

\* Frames of this module's kinds are those this module sends.
Ours(q) == \A i \in DOMAIN q : q[i].t \in ServingKinds => q[i] \in Traffic
FramesOurs ==
  \A n \in Nodes : Ours(toNode[n]) /\ \A c \in Conns : Ours(toHub[n][c])

Spans == {"none", "open", "finished", "failed"}

BooksKept ==
  /\ span \in [Reqs -> Spans]
  /\ InflightCounts

ServingInv ==
  /\ TypeInv /\ RequestsSound /\ BatchingSound /\ FramesOurs /\ BooksKept
  /\ cache \in [Nodes -> [Reqs -> Nat]]
  /\ \A r \in Reqs : Copies(r)

-----------------------------------------------------------------------------
(***************************************************************************)
(* Facts about the data.                                                   *)
(***************************************************************************)

\* Some node's range begins with the first layer.
LEMMA FirstOwner ==
  ASSUME NEW A \in Layouts, Tiles(A)
  PROVE  \E n \in Nodes : A[n] # NoRange /\ A[n][1] = 0
<1>1. 0 \in LayerIds
  BY NLayersAssumption DEF LayerIds
<1>2. PICK n \in Nodes : 0 \in Held(A[n])
  BY <1>1 DEF Tiles
<1>3. A[n] \in Ranges \cup {NoRange}
  BY DEF Layouts
<1> QED
  BY <1>2, <1>3, NLayersAssumption DEF Held, Ranges, NoRange

\* Where one range of a tiling ends before the last layer, another begins.
LEMMA NextOwner ==
  ASSUME NEW A \in Layouts, Tiles(A), NEW n \in Nodes, A[n] # NoRange,
         A[n][2] < NLayers
  PROVE  \E k \in Nodes : A[k] # NoRange /\ A[k][1] = A[n][2]
<1> DEFINE e == A[n][2]
<1>1. A[n] \in Ranges /\ \A k \in Nodes : A[k] \in Ranges \cup {NoRange}
  BY DEF Layouts
<1>2. e \in LayerIds /\ e - 1 \in LayerIds /\ e - 1 \in Held(A[n]) /\ e \notin Held(A[n])
  BY <1>1, NLayersAssumption DEF LayerIds, Held, Ranges
<1>3. PICK k \in Nodes : e \in Held(A[k])
  BY <1>2 DEF Tiles
<1>4. k # n
  BY <1>2, <1>3
<1>5. e - 1 \notin Held(A[k])
  BY <1>2, <1>4 DEF Tiles
<1>6. A[k] # NoRange /\ A[k][1] = e
  BY <1>1, <1>3, <1>5, NLayersAssumption DEF Held, Ranges, NoRange
<1> QED
  BY <1>6

\* The node that is to take q next is one of its pipeline.
LEMMA OwnerOf ==
  ASSUME NEW q, \E n \in Nodes : q.pipe[n] # NoRange /\ q.pipe[n][1] = q.x.at
  PROVE  /\ Owner(q) \in Nodes
         /\ q.pipe[Owner(q)] # NoRange /\ q.pipe[Owner(q)][1] = q.x.at
BY DEF Owner

-----------------------------------------------------------------------------
(***************************************************************************)
(* Queues of frames.  Thin(p, q): p has frames of this module's kinds only *)
(* where q had them, and no request more often than q had it.              *)
(***************************************************************************)

Thin(p, q) ==
  /\ \A i \in DOMAIN p : p[i].t \in ServingKinds => \E j \in DOMAIN q : q[j] = p[i]
  /\ \A r \in Reqs : Single(q, r) => Single(p, r)

\* What is not of this module's kinds carries no request.
LEMMA PlainFrame ==
  ASSUME NEW f, f.t \notin ServingKinds, NEW r
  PROVE  ~Carries(f, r)
BY DEF Carries, ServingKinds

\* A queue thins to itself.
LEMMA ThinSame == ASSUME NEW q PROVE Thin(q, q)
BY DEF Thin

\* A queue that was dropped thins.
LEMMA ThinEmpty == ASSUME NEW q PROVE Thin(<<>>, q)
BY DEF Thin, Single

\* Reading the head of a queue thins it.
LEMMA ThinTail ==
  ASSUME NEW S, NEW q \in Seq(S), q # <<>>
  PROVE  Thin(Tail(q), q)
<1> DEFINE p == Tail(q)
<1>1. \A i \in DOMAIN p : i + 1 \in DOMAIN q /\ p[i] = q[i + 1] /\ i \in Nat
  OBVIOUS
<1> HIDE DEF p
<1> QED
  BY <1>1 DEF Thin, Single

\* Losing the tail of a queue thins it.
LEMMA ThinPrefix ==
  ASSUME NEW S, NEW q \in Seq(S), NEW k \in 0 .. Len(q)
  PROVE  Thin(SubSeq(q, 1, k), q)
<1> DEFINE p == SubSeq(q, 1, k)
<1>1. \A i \in DOMAIN p : i \in DOMAIN q /\ p[i] = q[i]
  OBVIOUS
<1> HIDE DEF p
<1> QED
  BY <1>1 DEF Thin, Single

\* A queue that gains a frame of no request thins.
LEMMA ThinAppend ==
  ASSUME NEW S, NEW q \in Seq(S), NEW f, f.t \notin ServingKinds
  PROVE  Thin(Append(q, f), q)
<1> DEFINE p == Append(q, f)
<1>1. \A i \in DOMAIN p : (i \in DOMAIN q /\ p[i] = q[i]) \/ p[i] = f
  OBVIOUS
<1>2. \A i \in DOMAIN p, r \in Reqs : Carries(p[i], r) => i \in DOMAIN q /\ p[i] = q[i]
  BY <1>1, PlainFrame
<1>3. \A i \in DOMAIN p : p[i].t \in ServingKinds => i \in DOMAIN q /\ p[i] = q[i]
  BY <1>1
<1> HIDE DEF p
<1>4. ASSUME NEW r \in Reqs, Single(q, r)
      PROVE  Single(p, r)
  BY <1>2, <1>4 DEF Single
<1>5. \A i \in DOMAIN p : p[i].t \in ServingKinds => \E j \in DOMAIN q : q[j] = p[i]
  BY <1>3
<1>6. Thin(p, q)
  BY <1>4, <1>5 DEF Thin
<1> QED
  BY <1>6 DEF p

\* A queue of one frame of no request thins any other.
LEMMA ThinOne ==
  ASSUME NEW f, f.t \notin ServingKinds, NEW q
  PROVE  Thin(<<f>>, q)
<1> DEFINE p == <<f>>
<1>1. \A i \in DOMAIN p : p[i] = f
  OBVIOUS
<1> HIDE DEF p
<1>2. \A i \in DOMAIN p, r \in Reqs : ~Carries(p[i], r)
  BY <1>1, PlainFrame
<1> QED
  BY <1>1, <1>2 DEF Thin, Single

-----------------------------------------------------------------------------
(***************************************************************************)
(* A step of the rebalance thins every queue of frames.                    *)
(***************************************************************************)

NodeQueuesThin == \A n \in Nodes : Thin(toNode'[n], toNode[n])
HubQueuesThin  == \A n \in Nodes, c \in Conns : Thin(toHub'[n][c], toHub[n][c])

\* Steps that leave the nodes' queues alone thin them.
LEMMA NodeSame == toNode' = toNode => NodeQueuesThin
BY ThinSame DEF NodeQueuesThin

\* Steps that leave the hub's queues alone thin them.
LEMMA HubSame == toHub' = toHub => HubQueuesThin
BY ThinSame DEF HubQueuesThin

\* A frame read by the node.
LEMMA NodeTail ==
  ASSUME NetTyped, NEW n \in Nodes, toNode[n] # <<>>,
         toNode' = [toNode EXCEPT ![n] = Tail(@)]
  PROVE  NodeQueuesThin
<1>1. toNode[n] \in Seq(ToNodeFrames)
  BY DEF NetTyped
<1>2. Thin(Tail(toNode[n]), toNode[n])
  BY <1>1, ThinTail
<1> QED
  BY <1>2, ThinSame DEF NetTyped, NodeQueuesThin

\* A task sent to the node.
LEMMA NodeSent ==
  ASSUME NetTyped, NEW n \in Nodes, NEW c, NEW f, f.t \notin ServingKinds,
         toNode' = Sent(n, c, f)
  PROVE  NodeQueuesThin
<1>1. toNode[n] \in Seq(ToNodeFrames)
  BY DEF NetTyped
<1>2. Thin(Append(toNode[n], f), toNode[n])
  BY <1>1, ThinAppend
<1> QED
  BY <1>2, ThinSame DEF NetTyped, NodeQueuesThin, Sent

\* An answer of the node.
LEMMA HubSaid ==
  ASSUME NetTyped, NEW n \in Nodes, NEW f, f.t \notin ServingKinds, Says(n, f)
  PROVE  HubQueuesThin
<1> SUFFICES ASSUME NEW m \in Nodes, NEW c \in Conns
             PROVE  Thin(toHub'[m][c], toHub[m][c])
  BY DEF HubQueuesThin
<1>1. toHub[m] \in [Conns -> Seq(ToHubFrames)] /\ toHub \in [Nodes -> [Conns -> Seq(ToHubFrames)]]
  BY DEF NetTyped
<1>2. Thin(Append(toHub[m][c], f), toHub[m][c])
  BY <1>1, ThinAppend
<1>3. toHub'[m][c] \in {toHub[m][c], Append(toHub[m][c], f)}
  BY <1>1 DEF Says
<1> QED
  BY <1>2, <1>3, ThinSame

\* A frame read by the hub.
LEMMA HubTaken ==
  ASSUME NetTyped, NEW n \in Nodes, NEW c \in Conns, NEW t, Hears(n, c, t),
         Take(n, c)
  PROVE  HubQueuesThin
<1> SUFFICES ASSUME NEW m \in Nodes, NEW d \in Conns
             PROVE  Thin(toHub'[m][d], toHub[m][d])
  BY DEF HubQueuesThin
<1>1. toHub \in [Nodes -> [Conns -> Seq(ToHubFrames)]]
  BY DEF NetTyped
<1>2. toHub[n][c] \in Seq(ToHubFrames) /\ toHub[n][c] # <<>>
  BY <1>1 DEF Hears
<1>3. Thin(Tail(toHub[n][c]), toHub[n][c])
  BY <1>2, ThinTail
<1>4. toHub'[m][d] = IF m = n /\ d = c THEN Tail(toHub[n][c]) ELSE toHub[m][d]
  BY <1>1 DEF Take
<1> QED
  BY <1>3, <1>4, ThinSame

\* Connecting sends a hello and no frame of a request.
LEMMA ConnectThins ==
  ASSUME TypeInv, NEW n \in Nodes, Connect(n)
  PROVE  NodeQueuesThin /\ HubQueuesThin
<1> DEFINE f == Frame("hello", NoRange, 0, files[n])
<1>1. NetTyped
  BY DEF TypeInv, TypeOK
<1>2. f.t \notin ServingKinds
  BY DEF Frame, ServingKinds, FwdKinds
<1>3. toNode' = toNode /\ toHub' = [toHub EXCEPT ![n][conn[n] + 1] = <<f>>]
  BY DEF Connect
<1> HIDE DEF f
<1>4. ASSUME NEW m \in Nodes, NEW c \in Conns
      PROVE  Thin(toHub'[m][c], toHub[m][c])
  <2>1. toHub'[m][c] \in {toHub[m][c], <<f>>}
    BY <1>1, <1>3 DEF NetTyped
  <2> QED
    BY <2>1, <1>2, ThinOne, ThinSame
<1> QED
  BY <1>3, <1>4, NodeSame DEF HubQueuesThin

\* A lost connection only drops frames.
LEMMA DisconnectThins ==
  ASSUME TypeInv, NEW n \in Nodes, NEW kept,
         conn[n] \in Conns => kept \in 0 .. Len(toHub[n][conn[n]]),
         Disconnect(n, kept)
  PROVE  NodeQueuesThin /\ HubQueuesThin
<1>1. NetTyped
  BY DEF TypeInv, TypeOK
<1>2. ASSUME NEW m \in Nodes
      PROVE  Thin(toNode'[m], toNode[m])
  <2>1. toNode'[m] \in {toNode[m], <<>>}
    BY <1>1 DEF NetTyped, Disconnect
  <2> QED
    BY <2>1, ThinEmpty, ThinSame
<1>3. ASSUME NEW m \in Nodes, NEW c \in Conns
      PROVE  Thin(toHub'[m][c], toHub[m][c])
  <2>1. CASE m = n /\ c = conn[n]
    <3>1. toHub'[m][c] = SubSeq(toHub[m][c], 1, kept)
      BY <1>1, <2>1 DEF NetTyped, Disconnect
    <3>2. toHub[m][c] \in Seq(ToHubFrames)
      BY <1>1 DEF NetTyped
    <3> QED
      BY <2>1, <3>1, <3>2, ThinPrefix
  <2>2. CASE ~(m = n /\ c = conn[n])
    <3>1. toHub'[m][c] = toHub[m][c]
      BY <1>1, <2>2 DEF NetTyped, Disconnect
    <3> QED
      BY <3>1, ThinSame
  <2> QED
    BY <2>1, <2>2
<1> QED
  BY <1>2, <1>3 DEF NodeQueuesThin, HubQueuesThin

\* A node's loads answer with ready and error frames only.
LEMMA NodeStepThins ==
  ASSUME TypeInv, NEW n \in Nodes, NodeStep(n) \/ Drop(n) \/ FailLoad(n)
  PROVE  NodeQueuesThin /\ HubQueuesThin
<1>1. NetTyped /\ NodesTyped
  BY DEF TypeInv, TypeOK
<1> DEFINE Plain(t) == \A r, g, fs : Frame(t, r, g, fs).t \notin ServingKinds
<1>2. Plain("ready") /\ Plain("error") /\ Plain("prefetched") /\ Plain("unfetched")
  BY DEF Frame, ServingKinds, FwdKinds
<1> HIDE DEF Plain
<1>3. CASE Connect(n)
  BY <1>3, ConnectThins
<1>4. CASE SeesClose(n)
  <2>1. conn[n] \in Conns => Len(toHub[n][conn[n]]) \in 0 .. Len(toHub[n][conn[n]])
    BY <1>1 DEF NetTyped
  <2> QED
    BY <1>4, <2>1, DisconnectThins DEF SeesClose
<1>5. CASE Drop(n)
  <2>1. PICK kept \in 0 .. Len(toHub[n][conn[n]]) : Disconnect(n, kept)
    BY <1>5 DEF Drop
  <2> QED
    BY <2>1, DisconnectThins
<1>6. CASE Receive(n)
  BY <1>1, <1>6, NodeTail, HubSame DEF Receive
<1>7. CASE SkipAssign(n) \/ StartLoad(n)
  BY <1>7, NodeSame, HubSame DEF SkipAssign, StartLoad, netVars
<1>8. CASE KeepShard(n)
  <2>1. PICK f : f.t \notin ServingKinds /\ Says(n, f)
    BY <1>2, <1>8 DEF KeepShard, Plain
  <2> QED
    BY <1>1, <1>8, <2>1, NodeSame, HubSaid DEF KeepShard
<1>9. CASE FinishLoad(n)
  <2>1. PICK f : f.t \notin ServingKinds /\ Says(n, f)
    BY <1>2, <1>9 DEF FinishLoad, Plain
  <2> QED
    BY <1>1, <1>9, <2>1, NodeSame, HubSaid DEF FinishLoad
<1>10. CASE FailLoad(n)
  <2>1. PICK f : f.t \notin ServingKinds /\ Says(n, f)
    BY <1>2, <1>10 DEF FailLoad, Plain
  <2> QED
    BY <1>1, <1>10, <2>1, NodeSame, HubSaid DEF FailLoad
<1>11. CASE Prefetch(n)
  <2>1. PICK f : f.t \notin ServingKinds /\ Says(n, f)
    BY <1>2, <1>11 DEF Prefetch, Plain
  <2> QED
    BY <1>1, <1>11, <2>1, NodeSame, HubSaid DEF Prefetch
<1> QED
  BY <1>3, <1>4, <1>5, <1>6, <1>7, <1>8, <1>9, <1>10, <1>11 DEF NodeStep

\* A queue that is emptied.
LEMMA HubEmptied ==
  ASSUME NetTyped, NEW n \in Nodes, NEW c,
         toHub' = [toHub EXCEPT ![n][c] = <<>>]
  PROVE  HubQueuesThin
<1> SUFFICES ASSUME NEW m \in Nodes, NEW d \in Conns
             PROVE  Thin(toHub'[m][d], toHub[m][d])
  BY DEF HubQueuesThin
<1>1. toHub'[m][d] \in {toHub[m][d], <<>>}
  BY DEF NetTyped
<1> QED
  BY <1>1, ThinSame, ThinEmpty

\* Registering, answering and closing leave no frame of a request behind.
LEMMA HubHearsThins ==
  ASSUME TypeInv, NEW n \in Nodes, NEW c \in Conns,
         HubHears(n, c) \/ StaleLeft(n)
  PROVE  NodeQueuesThin /\ HubQueuesThin
<1>1. NetTyped
  BY DEF TypeInv, TypeOK
<1>2. CASE HubHello(n, c)
  <2> DEFINE f == [t |-> "assign", range |-> committed[n], gen |-> gen]
  <2>1. f.t \notin ServingKinds
    BY DEF ServingKinds, FwdKinds
  <2>2. toNode' = toNode \/ toNode' = Sent(n, c, f)
    BY <1>2 DEF HubHello
  <2> HIDE DEF f
  <2>3. NodeQueuesThin
    BY <1>1, <2>1, <2>2, NodeSame, NodeSent
  <2>4. ASSUME NEW m \in Nodes, NEW d \in Conns
        PROVE  Thin(toHub'[m][d], toHub[m][d])
    <3>1. toHub[n][c] \in Seq(ToHubFrames) /\ toHub[n][c] # <<>>
      BY <1>1, <1>2 DEF NetTyped, HubHello, Hears
    <3>2. Thin(Tail(toHub[n][c]), toHub[n][c])
      BY <3>1, ThinTail
    <3>3. IF m = n /\ d = c THEN toHub'[m][d] = Tail(toHub[n][c])
                            ELSE toHub'[m][d] \in {toHub[m][d], <<>>}
      BY <1>1, <1>2 DEF NetTyped, HubHello, TakeAndClose
    <3> QED
      BY <3>2, <3>3, ThinSame, ThinEmpty
  <2> QED
    BY <2>3, <2>4 DEF HubQueuesThin
<1>3. CASE HubReady(n, c) \/ HubError(n, c)
  BY <1>1, <1>3, NodeSame, HubTaken DEF HubReady, HubError
<1>4. CASE HubPrefetched(n, c)
  BY <1>1, <1>4, NodeSame, HubTaken DEF HubPrefetched
<1>5. CASE HandlerEnds(n, c)
  BY <1>1, <1>5, NodeSame, HubEmptied DEF HandlerEnds
<1>6. CASE StaleLeft(n)
  BY <1>1, <1>6, NodeSame, HubSame, HubEmptied DEF StaleLeft
<1> QED
  BY <1>2, <1>3, <1>4, <1>5, <1>6 DEF HubHears

\* Tasks for some of the nodes.
LEMMA PrefetchThins ==
  ASSUME TypeInv, NEW p, NEW S, PrefetchFor(p, S)
  PROVE  NodeQueuesThin
<1> SUFFICES ASSUME NEW n \in Nodes
             PROVE  Thin(toNode'[n], toNode[n])
  BY DEF NodeQueuesThin
<1> DEFINE f == [t |-> "prefetch", range |-> p.at[n], gen |-> gen + 1]
<1>1. f.t \notin ServingKinds
  BY DEF ServingKinds, FwdKinds
<1>2. toNode'[n] \in {toNode[n], Append(toNode[n], f)}
  BY DEF PrefetchFor
<1> HIDE DEF f
<1>3. toNode[n] \in Seq(ToNodeFrames)
  BY DEF TypeInv, TypeOK, NetTyped
<1> QED
  BY <1>1, <1>2, <1>3, ThinSame, ThinAppend

\* A rebalancing sends assign and ping frames only.
LEMMA ApplyThins ==
  ASSUME TypeInv,
         ReplanApplies \/ ReplanParks \/ ManualReplan \/ ManualApplies \/ ApplyStep
  PROVE  NodeQueuesThin /\ HubQueuesThin
<1>1. NetTyped
  BY DEF TypeInv, TypeOK
<1>2. CASE ReplanApplies
  BY <1>2, PrefetchThins, HubSame DEF ReplanApplies, StartApply
<1>3. CASE ManualApplies
  BY <1>3, PrefetchThins, HubSame DEF ManualApplies, StartApply
<1>4. CASE ReplanParks \/ ManualReplan
  BY <1>4, NodeSame, HubSame DEF ReplanParks, ManualReplan, netVars
<1>5. CASE EndPrefetch
  BY <1>5, PrefetchThins, NodeSame, HubSame DEF EndPrefetch, StartDrain, Abandon
<1>6. CASE EndPrefetch2
  BY <1>6, NodeSame, HubSame DEF EndPrefetch2, StartDrain, Abandon
<1>7. CASE Drained \/ EndSwitch
  BY <1>7, NodeSame, HubSame DEF Drained, EndSwitch, netVars
<1>8. ASSUME NEW n \in Nodes, SwitchSend(n)
      PROVE  NodeQueuesThin /\ HubQueuesThin
  <2> DEFINE f == [t |-> "assign", range |-> plan.at[n], gen |-> gen]
  <2>1. f.t \notin ServingKinds
    BY DEF ServingKinds, FwdKinds
  <2>2. toNode' = toNode \/ toNode' = Sent(n, ws[n], f)
    BY <1>8 DEF SwitchSend
  <2> HIDE DEF f
  <2> QED
    BY <1>1, <1>8, <2>1, <2>2, NodeSame, NodeSent, HubSame DEF SwitchSend
<1> QED
  BY <1>2, <1>3, <1>4, <1>5, <1>6, <1>7, <1>8 DEF ApplyStep

\* Whatever the rebalance does, it makes no copy of a request.
LEMMA RebalancingThins ==
  ASSUME TypeInv, Rebalancing
  PROVE  NodeQueuesThin /\ HubQueuesThin
<1>1. ASSUME NEW n \in Nodes, HeartbeatLate(n) \/ Heartbeat(n) \/ Timeout(n)
      PROVE  NodeQueuesThin /\ HubQueuesThin
  BY <1>1, NodeSame, HubSame DEF HeartbeatLate, Heartbeat, Timeout, netVars
<1>2. ASSUME NEW n \in Nodes, StaleLeft(n)
      PROVE  NodeQueuesThin /\ HubQueuesThin
  BY <1>2, HubHearsThins, BoundsAssumption DEF Conns
<1> QED
  BY <1>1, <1>2, NodeStepThins, HubHearsThins, ApplyThins DEF Rebalancing

-----------------------------------------------------------------------------
(***************************************************************************)
(* Copies of one request.  Fewer(p, q, r): p has only copies of r that q   *)
(* had.                                                                    *)
(***************************************************************************)

Fewer(p, q, r) ==
  /\ \A i \in DOMAIN p : Carries(p[i], r) => \E j \in DOMAIN q : q[j] = p[i]
  /\ Single(q, r) => Single(p, r)
FewerRows(p, q, r) ==
  /\ HasRow(p, r) => HasRow(q, r)
  /\ OneRow(q, r) => OneRow(p, r)
FewerRuns(B, C, r) ==
  /\ Holders(B, r) # {} => Holders(C, r) # {}
  /\ OneHolder(C, r) => OneHolder(B, r)

\* A thinner queue has fewer copies of every request.
LEMMA ThinFewer ==
  ASSUME NEW p, NEW q, Thin(p, q), NEW r \in Reqs
  PROVE  Fewer(p, q, r)
BY DEF Thin, Fewer, Carries, ServingKinds

\* A queue holds no more copies of r than itself.
LEMMA FewerSame == ASSUME NEW q, NEW r PROVE Fewer(q, q, r)
BY DEF Fewer

\* A frame without r adds no copy of r.
LEMMA FewerAppend ==
  ASSUME NEW S, NEW q \in Seq(S), NEW f, NEW r, ~Carries(f, r)
  PROVE  Fewer(Append(q, f), q, r)
<1> DEFINE p == Append(q, f)
<1>1. \A i \in DOMAIN p : (i \in DOMAIN q /\ p[i] = q[i]) \/ p[i] = f
  OBVIOUS
<1>2. \A i \in DOMAIN p : Carries(p[i], r) => i \in DOMAIN q /\ p[i] = q[i]
  BY <1>1
<1> HIDE DEF p
<1>3. Single(q, r) => Single(p, r)
  BY <1>2 DEF Single
<1>4. Fewer(p, q, r)
  BY <1>2, <1>3 DEF Fewer
<1> QED
  BY <1>4 DEF p

\* A frame with r, where there was none, is the only one.
LEMMA OneAppended ==
  ASSUME NEW S, NEW q \in Seq(S), NEW f, NEW r, ~Has(q, r)
  PROVE  /\ Single(Append(q, f), r)
         /\ \A i \in DOMAIN Append(q, f) :
              Carries(Append(q, f)[i], r) => Append(q, f)[i] = f
<1> DEFINE p == Append(q, f)
<1>1. \A i \in DOMAIN p : (i \in DOMAIN q /\ p[i] = q[i]) \/ (i = Len(q) + 1 /\ p[i] = f)
  OBVIOUS
<1>2. \A i \in DOMAIN p : Carries(p[i], r) => i = Len(q) + 1 /\ p[i] = f
  BY <1>1 DEF Has
<1> HIDE DEF p
<1>3. Single(p, r)
  BY <1>2 DEF Single
<1> QED
  BY <1>2, <1>3 DEF p

\* The one frame with r is read: there is none left.
LEMMA OneRead ==
  ASSUME NEW S, NEW q \in Seq(S), q # <<>>, NEW r, Carries(Head(q), r), Single(q, r)
  PROVE  Has(q, r) /\ ~Has(Tail(q), r)
<1> DEFINE p == Tail(q)
<1>1. \A i \in DOMAIN p : i + 1 \in DOMAIN q /\ p[i] = q[i + 1] /\ i + 1 # 1
  OBVIOUS
<1>2. 1 \in DOMAIN q /\ Head(q) = q[1]
  OBVIOUS
<1> HIDE DEF p
<1>3. ~Has(p, r)
  BY <1>1, <1>2 DEF Has, Single
<1> QED
  BY <1>2, <1>3 DEF Has, p

\* A row joins the queue.
LEMMA RowAppended ==
  ASSUME NEW q \in Seq(Reqs), NEW r \in Reqs, NEW s \in Reqs
  PROVE  /\ ~HasRow(q, r) => OneRow(Append(q, r), r)
         /\ s # r => FewerRows(Append(q, r), q, s)
<1> DEFINE p == Append(q, r)
<1>1. \A i \in DOMAIN p : (i \in DOMAIN q /\ p[i] = q[i]) \/ (i = Len(q) + 1 /\ p[i] = r)
  OBVIOUS
<1> HIDE DEF p
<1>2. ~HasRow(q, r) => OneRow(p, r)
  BY <1>1 DEF HasRow, OneRow
<1>3. s # r => FewerRows(p, q, s)
  BY <1>1 DEF HasRow, OneRow, FewerRows
<1> QED
  BY <1>2, <1>3 DEF p

\* A runner takes the first k rows.
LEMMA RowsTaken ==
  ASSUME NEW q \in Seq(Reqs), NEW k \in 0 .. Len(q), NEW r
  PROVE  /\ FewerRows(SubSeq(q, k + 1, Len(q)), q, r)
         /\ r \in RowSet(SubSeq(q, 1, k)) =>
              /\ HasRow(q, r)
              /\ OneRow(q, r) => ~HasRow(SubSeq(q, k + 1, Len(q)), r)
<1> DEFINE p == SubSeq(q, k + 1, Len(q))
           t == SubSeq(q, 1, k)
<1>1. \A i \in DOMAIN p : i \in Nat /\ i + k \in DOMAIN q /\ p[i] = q[i + k] /\ i + k > k
  OBVIOUS
<1>2. \A i \in DOMAIN t : i \in DOMAIN q /\ t[i] = q[i] /\ i \in 1 .. k
  OBVIOUS
<1> HIDE DEF p, t
<1>3. FewerRows(p, q, r)
  BY <1>1 DEF FewerRows, HasRow, OneRow
<1>4. ASSUME r \in RowSet(t)
      PROVE  HasRow(q, r) /\ (OneRow(q, r) => ~HasRow(p, r))
  BY <1>1, <1>2, <1>4 DEF RowSet, HasRow, OneRow
<1> QED
  BY <1>3, <1>4 DEF p, t

\* A step after which there are only copies of r that there were before.
Lessens(r) ==
  \A n \in Nodes :
    /\ Fewer(toNode'[n], toNode[n], r)
    /\ FewerRows(queue'[n], queue[n], r)
    /\ FewerRuns(sent'[n], sent[n], r)
    /\ \A c \in Conns : Fewer(toHub'[n][c], toHub[n][c], r)

\* If nothing that held no copy of r holds one afterwards, r keeps to its places.
LEMMA SitesLessen ==
  ASSUME NEW r \in Reqs, Lessens(r)
  PROVE  Sites(r)' \subseteq Sites(r)
<1> SUFFICES ASSUME NEW s \in Places, s \in Sites(r)'
             PROVE  s \in Sites(r)
  BY DEF Sites
<1>1. s[2] \in Nodes /\ s[3] \in Conns
  BY DEF Places
<1>2. /\ Has(toNode'[s[2]], r) => Has(toNode[s[2]], r)
      /\ Has(toHub'[s[2]][s[3]], r) => Has(toHub[s[2]][s[3]], r)
  BY <1>1 DEF Lessens, Fewer, Has
<1>3. /\ HasRow(queue'[s[2]], r) => HasRow(queue[s[2]], r)
      /\ Holders(sent'[s[2]], r) # {} => Holders(sent[s[2]], r) # {}
  BY <1>1 DEF Lessens, FewerRows, FewerRuns
<1> QED
  BY <1>2, <1>3 DEF Sites

\* No site is a copy: nothing is carried anywhere.
LEMMA NoSites ==
  ASSUME NEW r \in Reqs, Sites(r) = {}, NEW n \in Nodes
  PROVE  /\ ~Has(toNode[n], r) /\ ~HasRow(queue[n], r) /\ Holders(sent[n], r) = {}
         /\ \A c \in Conns : ~Has(toHub[n][c], r)
<1>1. 1 \in Conns
  BY BoundsAssumption DEF Conns
<1>2. <<"node", n, 1>> \in Places /\ <<"queue", n, 1>> \in Places /\ <<"run", n, 1>> \in Places
  BY <1>1 DEF Places
<1>3. \A c \in Conns : <<"hub", n, c>> \in Places
  BY DEF Places
<1>4. ~Has(toNode[n], r)
  BY <1>2 DEF Sites
<1>5. ~HasRow(queue[n], r)
  BY <1>2 DEF Sites
<1>6. Holders(sent[n], r) = {}
  BY <1>2 DEF Sites
<1>7. ASSUME NEW c \in Conns
      PROVE  ~Has(toHub[n][c], r)
  <2> DEFINE t == <<"hub", n, c>>
  <2>1. t \in Places /\ t[1] = "hub" /\ t[2] = n /\ t[3] = c
    BY <1>3
  <2> HIDE DEF t
  <2> QED
    BY <2>1 DEF Sites
<1> QED
  BY <1>4, <1>5, <1>6, <1>7

\* Without copies there is at most one, and none that could be wrong.
LEMMA NoCopies ==
  ASSUME NEW r \in Reqs, Sites(r) = {}
  PROVE  Copies(r)
<1>1. \A n \in Nodes :
        /\ Single(toNode[n], r) /\ OneRow(queue[n], r) /\ OneHolder(sent[n], r)
        /\ \A c \in Conns : Single(toHub[n][c], r)
  BY NoSites DEF Has, HasRow, Single, OneRow, OneHolder
<1>2. Match(r)
  BY NoSites DEF Match, Has
<1> QED
  BY <1>1, <1>2 DEF Copies, Unique

\* A request that goes on as it was, or fails, with no more copies than before.
LEMMA CopiesLessen ==
  ASSUME NEW r \in Reqs, Copies(r), Lessens(r),
         Idles(req'[r], fut'[r]) => Idles(req[r], fut[r]),
         Pends(req'[r], fut'[r]) => Pends(req[r], fut[r]) /\ req'[r].x = req[r].x
  PROVE  Copies(r)'
<1>1. Sites(r)' \subseteq Sites(r)
  BY SitesLessen
<1>2. ASSUME Idles(req'[r], fut'[r])
      PROVE  Sites(r)' = {}
  BY <1>1, <1>2 DEF Copies
<1>3. ASSUME Pends(req'[r], fut'[r])
      PROVE  Unique(r)' /\ Match(r)'
  <2>1. Unique(r) /\ Match(r) /\ req'[r].x = req[r].x
    BY <1>3 DEF Copies
  <2>2. Unique(r)'
    <3>1. \A s, t \in Sites(r)' : s = t
      BY <1>1, <2>1 DEF Unique
    <3>2. \A n \in Nodes :
            /\ Single(toNode'[n], r) /\ OneRow(queue'[n], r) /\ OneHolder(sent'[n], r)
            /\ \A c \in Conns : Single(toHub'[n][c], r)
      BY <2>1 DEF Unique, Lessens, Fewer, FewerRows, FewerRuns
    <3> QED
      BY <3>1, <3>2 DEF Unique
  <2>3. ASSUME NEW n \in Nodes
        PROVE  \A i \in DOMAIN toNode'[n] :
                 Carries(toNode'[n][i], r) => toNode'[n][i].x[r] = req'[r].x
    BY <2>1 DEF Match, Lessens, Fewer
  <2>4. ASSUME NEW n \in Nodes, NEW c \in Conns, NEW i \in DOMAIN toHub'[n][c],
               Carries(toHub'[n][c][i], r)
        PROVE  /\ toHub'[n][c][i].x[r].pass = req'[r].x.pass
               /\ toHub'[n][c][i].x[r].at = req'[r].x.at
    <3>1. PICK j \in DOMAIN toHub[n][c] : toHub[n][c][j] = toHub'[n][c][i]
      BY <2>4 DEF Lessens, Fewer
    <3> QED
      BY <2>1, <2>4, <3>1 DEF Match
  <2> QED
    BY <2>2, <2>3, <2>4 DEF Match
<1> QED
  BY <1>2, <1>3 DEF Copies

-----------------------------------------------------------------------------
(***************************************************************************)
(* Frames of this module, its types and its books.                         *)
(***************************************************************************)

\* A thinned queue carries no foreign frame.
LEMMA OursThin ==
  ASSUME NEW p, NEW q, Thin(p, q), Ours(q)
  PROVE  Ours(p)
BY DEF Thin, Ours

\* Nor does one that gained a frame of this traffic.
LEMMA OursAppend ==
  ASSUME NEW S, NEW q \in Seq(S), NEW f, f.t \in ServingKinds => f \in Traffic, Ours(q)
  PROVE  Ours(Append(q, f))
<1> DEFINE p == Append(q, f)
<1>1. \A i \in DOMAIN p : (i \in DOMAIN q /\ p[i] = q[i]) \/ p[i] = f
  OBVIOUS
<1> HIDE DEF p
<1>2. Ours(p)
  BY <1>1 DEF Ours
<1> QED
  BY <1>2 DEF p

\* A frame of rows is one of this module's.
LEMMA RowsTravel ==
  ASSUME NEW t \in FwdKinds, NEW S \in SUBSET Reqs, NEW x \in [S -> Acts],
         NEW ok \in BOOLEAN
  PROVE  /\ [t |-> t, x |-> x, ok |-> ok] \in Traffic
         /\ [t |-> t, x |-> x, ok |-> ok] \in ToNodeFrames \cap ToHubFrames
<1> DEFINE f == [t |-> t, x |-> x, ok |-> ok]
<1>1. f \in [t : FwdKinds, x : [S -> Acts], ok : BOOLEAN]
  OBVIOUS
<1>2. f \in Batches(FwdKinds)
  BY <1>1 DEF Batches
<1> HIDE DEF f
<1>3. f \in Traffic
  BY <1>2 DEF Traffic, FwdKinds
<1> QED
  BY <1>3, TrafficAssumption DEF f, ToNodeFrames, ToHubFrames

\* So is one that resets a request.
LEMMA ResetTravels ==
  ASSUME NEW r \in Reqs
  PROVE  /\ [t |-> "reset", req |-> r] \in Traffic
         /\ [t |-> "reset", req |-> r] \in ToNodeFrames
BY TrafficAssumption DEF Traffic, ToNodeFrames

\* A frame of this module's kinds with rows has typed rows.
LEMMA FrameRows ==
  ASSUME NEW f \in Traffic, f.t \in FwdKinds
  PROVE  /\ DOMAIN f.x \in SUBSET Reqs
         /\ f.x \in [DOMAIN f.x -> Acts]
         /\ f.ok \in BOOLEAN
<1>1. f \notin [t : {"reset"}, req : Reqs]
  BY DEF FwdKinds
<1>2. PICK S \in SUBSET Reqs : f \in [t : FwdKinds, x : [S -> Acts], ok : BOOLEAN]
  BY <1>1 DEF Traffic, Batches, FwdKinds
<1> QED
  BY <1>2

\* Steps of this module leave the hub's records, its plan and the nodes alone.
LEMMA RebalanceTyped ==
  ASSUME TypeInv, UNCHANGED <<recordVars, applyVars, nodeVars, open>>,
         toNode' \in [Nodes -> Seq(ToNodeFrames)],
         toHub' \in [Nodes -> [Conns -> Seq(ToHubFrames)]],
         inflight' \in 0 .. MaxInflight, faults' \in 0 .. MaxFaults
  PROVE  TypeInv'
<1>1. RecordsTyped' /\ ApplyTyped' /\ NodesTyped'
  BY DEF TypeInv, TypeOK, RecordsTyped, ApplyTyped, NodesTyped, recordVars,
         applyVars, nodeVars
<1>2. NetTyped'
  BY DEF TypeInv, TypeOK, NetTyped
<1>3. BusyHasAssign' /\ TodoPlanned'
  BY DEF TypeInv, BusyHasAssign, TodoPlanned, Members, applyVars, nodeVars
<1> QED
  BY <1>1, <1>2, <1>3 DEF TypeInv, TypeOK

\* Requests that run are as few as requests.
LEMMA RunningFinite ==
  /\ IsFiniteSet(Running) /\ Cardinality(Running) \in 0 .. MaxInflight
<1>1. Running \subseteq Reqs /\ IsFiniteSet(Reqs) /\ Cardinality(Reqs) <= MaxInflight
  BY ServingAssumption DEF Running
<1>2. IsFiniteSet(Running) /\ Cardinality(Running) <= Cardinality(Reqs)
  BY <1>1, FS_Subset
<1>3. Cardinality(Running) \in Nat /\ Cardinality(Reqs) \in Nat
  BY <1>1, <1>2, FS_CardinalityType
<1> QED
  BY <1>1, <1>2, <1>3, BoundsAssumption

\* The count is of running requests, so it is never above their number.
LEMMA InflightTyped ==
  /\ InflightCounts => inflight \in 0 .. MaxInflight
  /\ InflightCounts' => inflight' \in 0 .. MaxInflight
<1>1. InflightCounts => inflight \in 0 .. MaxInflight
  BY RunningFinite DEF InflightCounts
<1>2. Running' \subseteq Reqs /\ IsFiniteSet(Reqs) /\ Cardinality(Reqs) <= MaxInflight
  BY ServingAssumption DEF Running
<1>3. IsFiniteSet(Running') /\ Cardinality(Running') <= Cardinality(Reqs)
  BY <1>2, FS_Subset
<1>4. Cardinality(Running') \in Nat /\ Cardinality(Reqs) \in Nat
  BY <1>2, <1>3, FS_CardinalityType
<1> QED
  BY <1>1, <1>2, <1>3, <1>4, BoundsAssumption DEF InflightCounts

\* A request is counted out and its span ended.
LEMMA BooksOut ==
  ASSUME BooksKept, req \in [Reqs -> Requests], NEW r \in Running,
         req' = [req EXCEPT ![r].st = "over"], inflight' = inflight - 1,
         NEW how \in {"finished", "failed"}, SpanEnds(r, how)
  PROVE  BooksKept'
<1>1. r \in Reqs /\ req[r].st \notin Waits
  BY DEF Running, Waits
<1>2. \A s \in Reqs : req'[s].st = IF s = r THEN "over" ELSE req[s].st
  BY <1>1 DEF Requests
<1>3. /\ Running' = Running \ {r} /\ Called' = Called
      /\ {s \in Reqs : req'[s].st = "left"} = {s \in Reqs : req[s].st = "left"}
  BY <1>1, <1>2 DEF Running, Called, Waits
<1>4. Cardinality(Running') = Cardinality(Running) - 1
  BY <1>3, RunningFinite, FS_RemoveElement
<1>5. inflight' = Cardinality(Running')
  BY <1>4 DEF BooksKept, InflightCounts
<1>6. span' \in [Reqs -> Spans] /\ \A s \in Reqs : span'[s] = IF s = r THEN how ELSE span[s]
  BY <1>1 DEF BooksKept, Spans, SpanEnds
<1>7. {s \in Reqs : span'[s] = "open"} = {s \in Reqs : span[s] = "open"} \ {r}
  BY <1>6
<1>8. r \notin Called /\ r \notin {s \in Reqs : req[s].st = "left"}
  BY <1>1 DEF Called, Waits
<1>9. {s \in Reqs : span'[s] = "open"}
        = Running' \cup Called' \cup {s \in Reqs : req'[s].st = "left"}
  BY <1>3, <1>7, <1>8 DEF BooksKept, InflightCounts
<1> QED
  BY <1>5, <1>6, <1>9 DEF BooksKept, InflightCounts

\* A request that was called is counted in.
LEMMA BooksIn ==
  ASSUME BooksKept, NEW r \in Reqs, req[r].st = "called",
         req'[r].st \in Hopping, \A s \in Reqs \ {r} : req'[s] = req[s],
         inflight' = inflight + 1, span' = span
  PROVE  BooksKept'
<1>1. Running' = Running \cup {r} /\ Called' = Called \ {r} /\ r \notin Running
  BY DEF Running, Called, Hopping
<1>2. {s \in Reqs : req'[s].st = "left"} = {s \in Reqs : req[s].st = "left"}
  BY DEF Hopping
<1>3. Cardinality(Running') = Cardinality(Running) + 1
  BY <1>1, RunningFinite, FS_AddElement
<1>4. r \in Called
  BY DEF Called
<1>5. {s \in Reqs : span'[s] = "open"}
        = Running' \cup Called' \cup {s \in Reqs : req'[s].st = "left"}
  BY <1>1, <1>2, <1>4 DEF BooksKept, InflightCounts
<1> QED
  BY <1>3, <1>5 DEF BooksKept, InflightCounts

\* Requests that run go on running.
LEMMA BooksSame ==
  ASSUME BooksKept, inflight' = inflight, span' = span,
         \A s \in Reqs : \/ req'[s].st = req[s].st
                         \/ req[s].st \notin Waits /\ req'[s].st \notin Waits
  PROVE  BooksKept'
<1>1. Running' = Running /\ Called' = Called
  BY DEF Running, Called, Waits
<1>2. {s \in Reqs : req'[s].st = "left"} = {s \in Reqs : req[s].st = "left"}
  BY DEF Waits
<1> QED
  BY <1>1, <1>2 DEF BooksKept, InflightCounts

-----------------------------------------------------------------------------
(***************************************************************************)
(* chat, generate and forward_all.                                         *)
(***************************************************************************)

\* Nothing is known of the copies of a request that is over or has failed.
LEMMA Forgotten ==
  ASSUME NEW r \in Reqs, ~Idles(req'[r], fut'[r]), ~Pends(req'[r], fut'[r])
  PROVE  Copies(r)'
BY DEF Copies

\* The same request, where only the frames to nodes may have changed.
LEMMA OthersCopies ==
  ASSUME NEW r \in Reqs, Copies(r), req'[r] = req[r], fut'[r] = fut[r],
         \A n \in Nodes : Fewer(toNode'[n], toNode[n], r),
         \A n \in Nodes : FewerRows(queue'[n], queue[n], r),
         UNCHANGED <<toHub, sent>>
  PROVE  Copies(r)'
<1>1. Lessens(r)
  BY FewerSame DEF Lessens, FewerRuns
<1> QED
  BY <1>1, CopiesLessen

\* A request ends: it is counted out, its span is ended, its caches are reset.
LEMMA EndKeeps ==
  ASSUME ServingInv, NEW r \in Running, NEW how \in {"finished", "failed"},
         End(r, how), faults' \in 0 .. MaxFaults
  PROVE  ServingInv'
<1> DEFINE f == [t |-> "reset", req |-> r]
<1>1. r \in Reqs
  BY DEF Running
<1>2. f \in Traffic /\ f \in ToNodeFrames /\ \A s : ~Carries(f, s)
  BY <1>1, ResetTravels DEF Carries, FwdKinds
<1>3. \A n \in Nodes : toNode'[n] \in {toNode[n], Append(toNode[n], f)}
  BY DEF End, Resets
<1> HIDE DEF f
<1>4. \A n \in Nodes : toNode[n] \in Seq(ToNodeFrames)
  BY DEF ServingInv, TypeInv, TypeOK, NetTyped
<1>5. toNode' \in [Nodes -> Seq(ToNodeFrames)]
  <2>1. \A n \in Nodes : Append(toNode[n], f) \in Seq(ToNodeFrames)
    BY <1>2, <1>4, AppendProperties
  <2>2. toNode' = [n \in Nodes |-> toNode'[n]]
    BY DEF End, Resets
  <2> QED
    BY <1>3, <1>4, <2>1, <2>2
<1>6. req \in [Reqs -> Requests] /\ fut \in [Reqs -> Futures]
  BY DEF ServingInv, RequestsSound
<1>7. req' = [req EXCEPT ![r].st = "over"] /\ fut' = [fut EXCEPT ![r] = "none"]
  BY DEF End
<1>8. req'[r] = [req[r] EXCEPT !.st = "over"] /\ req'[r] \in Requests /\ req'[r].st = "over"
  BY <1>1, <1>6, <1>7 DEF Requests, States
<1>9. fut'[r] = "none" /\ \A s \in Reqs \ {r} : req'[s] = req[s] /\ fut'[s] = fut[s]
  BY <1>1, <1>6, <1>7
<1>10. RequestsSound'
  <2>1. req' \in [Reqs -> Requests]
    BY <1>1, <1>6, <1>7, <1>8
  <2>2. fut' \in [Reqs -> Futures]
    BY <1>6, <1>7 DEF Futures
  <2>3. Sound(req'[r], fut'[r])
    BY <1>8, <1>9 DEF Sound, Waits, Hopping
  <2>4. \A s \in Reqs \ {r} : Sound(req'[s], fut'[s])
    BY <1>9 DEF ServingInv, RequestsSound
  <2> QED
    BY <2>1, <2>2, <2>3, <2>4 DEF RequestsSound
<1>11. BatchingSound'
  BY DEF ServingInv, BatchingSound, End
<1>12. FramesOurs'
  <2>1. \A n \in Nodes : Ours(toNode'[n])
    BY <1>2, <1>3, <1>4, OursAppend DEF ServingInv, FramesOurs
  <2> QED
    BY <2>1 DEF ServingInv, FramesOurs, End
<1>13. BooksKept'
  BY <1>6, <1>7, BooksOut DEF ServingInv, End
<1>14. TypeInv'
  BY <1>5, <1>13, InflightTyped, RebalanceTyped
     DEF ServingInv, TypeInv, TypeOK, NetTyped, BooksKept, End
<1>15. \A s \in Reqs : Copies(s)'
  <2>1. Copies(r)'
    BY <1>1, <1>8, Forgotten DEF Idles, Pends
  <2>2. ASSUME NEW s \in Reqs \ {r}
        PROVE  Copies(s)'
    <3>1. \A n \in Nodes : Fewer(toNode'[n], toNode[n], s)
      BY <1>2, <1>3, <1>4, FewerAppend, FewerSame
    <3>2. UNCHANGED <<toHub, sent>> /\ \A n \in Nodes : FewerRows(queue'[n], queue[n], s)
      BY DEF End, FewerRows
    <3> QED
      BY <1>9, <3>1, <3>2, OthersCopies DEF ServingInv
  <2> QED
    BY <2>1, <2>2
<1> QED
  BY <1>10, <1>11, <1>12, <1>13, <1>14, <1>15 DEF ServingInv, End

\* Two places of the same kind, node and connection are one.
LEMMA SamePlace ==
  ASSUME NEW s \in Places, NEW t \in Places, s[1] = t[1], s[2] = t[2], s[3] = t[3]
  PROVE  s = t
BY DEF Places

\* A frame with r goes to a node, and there is no other copy of r.
LEMMA CopySent ==
  ASSUME NEW r \in Reqs, NEW n \in Nodes, NEW c, NEW f,
         toNode \in [Nodes -> Seq(ToNodeFrames)], toNode' = Sent(n, c, f),
         f.x[r] = req'[r].x, ~Idles(req'[r], fut'[r]),
         \A m \in Nodes : /\ ~Has(toNode[m], r) /\ ~HasRow(queue'[m], r)
                          /\ Holders(sent'[m], r) = {}
                          /\ \A d \in Conns : ~Has(toHub'[m][d], r)
  PROVE  Copies(r)'
<1> DEFINE q == Append(toNode[n], f)
<1>1. /\ Single(q, r)
      /\ \A i \in DOMAIN q : Carries(q[i], r) => q[i] = f
  <2>1. toNode[n] \in Seq(ToNodeFrames) /\ ~Has(toNode[n], r)
    OBVIOUS
  <2> QED
    BY <2>1, OneAppended
<1>2. \A m \in Nodes : toNode'[m] = toNode[m] \/ (m = n /\ toNode'[m] = q)
  BY DEF Sent
<1> HIDE DEF q
<1>3. \A m \in Nodes : Has(toNode'[m], r) => m = n
  BY <1>2
<1>4. \A s \in Sites(r)' : s \in Places /\ s[1] = "node" /\ s[2] = n /\ s[3] = 1
  <2> SUFFICES ASSUME NEW s \in Sites(r)'
               PROVE  s \in Places /\ s[1] = "node" /\ s[2] = n /\ s[3] = 1
    OBVIOUS
  <2>1. s \in Places
    BY DEF Sites
  <2>2. s[2] \in Nodes /\ s[3] \in Conns
    BY <2>1 DEF Places
  <2> QED
    BY <1>3, <2>1, <2>2 DEF Sites
<1>5. \A s, t \in Sites(r)' : s = t
  BY <1>4, SamePlace
<1>6. ASSUME NEW m \in Nodes
      PROVE  /\ Single(toNode'[m], r) /\ OneRow(queue'[m], r) /\ OneHolder(sent'[m], r)
             /\ \A d \in Conns : Single(toHub'[m][d], r)
  <2>1. Single(toNode'[m], r)
    BY <1>1, <1>2 DEF Has, Single
  <2> QED
    BY <2>1 DEF Has, HasRow, Single, OneRow, OneHolder
<1>7. ASSUME NEW m \in Nodes
      PROVE  \A i \in DOMAIN toNode'[m] :
               Carries(toNode'[m][i], r) => toNode'[m][i].x[r] = req'[r].x
  BY <1>1, <1>2 DEF Has
<1>8. Match(r)'
  BY <1>7 DEF Match, Has
<1> QED
  BY <1>5, <1>6, <1>8 DEF Copies, Unique

\* r joins the queue of a node, and there is no other copy of it.
LEMMA CopyQueued ==
  ASSUME NEW r \in Reqs, NEW n \in Nodes, queue \in [Nodes -> Seq(Reqs)],
         queue' = [queue EXCEPT ![n] = Append(@, r)],
         ~Idles(req'[r], fut'[r]),
         \A m \in Nodes : /\ ~Has(toNode'[m], r) /\ ~HasRow(queue[m], r)
                          /\ Holders(sent'[m], r) = {}
                          /\ \A d \in Conns : ~Has(toHub'[m][d], r)
  PROVE  Copies(r)'
<1>1. OneRow(queue'[n], r)
  BY RowAppended
<1>2. \A m \in Nodes : queue'[m] = queue[m] \/ m = n
  OBVIOUS
<1>3. \A s \in Sites(r)' : s \in Places /\ s[1] = "queue" /\ s[2] = n /\ s[3] = 1
  <2> SUFFICES ASSUME NEW s \in Sites(r)'
               PROVE  s \in Places /\ s[1] = "queue" /\ s[2] = n /\ s[3] = 1
    OBVIOUS
  <2>1. s \in Places
    BY DEF Sites
  <2>2. s[2] \in Nodes /\ s[3] \in Conns
    BY <2>1 DEF Places
  <2> QED
    BY <1>2, <2>1, <2>2 DEF Sites
<1>4. \A s, t \in Sites(r)' : s = t
  BY <1>3, SamePlace
<1>5. ASSUME NEW m \in Nodes
      PROVE  /\ Single(toNode'[m], r) /\ OneRow(queue'[m], r) /\ OneHolder(sent'[m], r)
             /\ \A d \in Conns : Single(toHub'[m][d], r)
  <2>1. OneRow(queue'[m], r)
    BY <1>1, <1>2 DEF HasRow, OneRow
  <2> QED
    BY <2>1 DEF Has, Single, OneHolder
<1>6. Match(r)'
  BY DEF Match, Has
<1> QED
  BY <1>4, <1>5, <1>6 DEF Copies, Unique

\* A hop: the copy of r that goes on is the only one.
LEMMA HopKeeps ==
  ASSUME ServingInv, NEW r \in Reqs, NEW q \in Requests, q.st \notin Waits,
         Tiles(q.pipe), q.x.pass < MaxPass, Sites(r) = {},
         \E n \in Nodes : q.pipe[n] # NoRange /\ q.pipe[n][1] = q.x.at,
         Hop(r, q), UNCHANGED <<toHub, sent>>
  PROVE  /\ RequestsSound' /\ BatchingSound' /\ FramesOurs'
         /\ toNode' \in [Nodes -> Seq(ToNodeFrames)]
         /\ req'[r].st \in Hopping /\ \A s \in Reqs \ {r} : req'[s] = req[s]
         /\ \A s \in Reqs : Copies(s)'
<1> DEFINE n == Owner(q)
           f == [t |-> "fwd", x |-> [s \in {r} |-> q.x], ok |-> TRUE]
<1>1. n \in Nodes
  BY OwnerOf
<1>2. f \in Traffic /\ f \in ToNodeFrames
  <2>1. [s \in {r} |-> q.x] \in [{r} -> Acts]
    BY DEF Requests
  <2> QED
    BY <2>1, RowsTravel DEF FwdKinds
<1>3. f.x[r] = q.x /\ \A s \in Reqs \ {r} : ~Carries(f, s)
  BY DEF Carries
<1>4. req \in [Reqs -> Requests] /\ fut \in [Reqs -> Futures]
  BY DEF ServingInv, RequestsSound
<1>5. /\ toNode \in [Nodes -> Seq(ToNodeFrames)]
      /\ queue \in [Nodes -> Seq(Reqs)] /\ armed \in [Nodes -> BOOLEAN]
  BY DEF ServingInv, TypeInv, TypeOK, NetTyped, BatchingSound
<1>5a. \A m \in Nodes : toNode[m] \in Seq(ToNodeFrames) /\ queue[m] \in Seq(Reqs)
  BY <1>5
<1>6. fut' = [fut EXCEPT ![r] = "open"]
  BY DEF Hop
<1>7. \/ /\ req' = [req EXCEPT ![r] = [q EXCEPT !.st = "waiting"]]
         /\ toNode' = Sent(n, ws[n], f) /\ UNCHANGED <<queue, armed>>
      \/ /\ req' = [req EXCEPT ![r] = [q EXCEPT !.st = "queued"]]
         /\ queue' = [queue EXCEPT ![n] = Append(@, r)]
         /\ armed' = [armed EXCEPT ![n] = TRUE] /\ UNCHANGED toNode
      \/ /\ req' = [req EXCEPT ![r] = [q EXCEPT !.st = "pacing"]]
         /\ UNCHANGED <<queue, armed, toNode>>
  BY DEF Hop
<1> HIDE DEF n, f
<1>8. PICK st \in Hopping : req' = [req EXCEPT ![r] = [q EXCEPT !.st = st]]
  BY <1>7 DEF Hopping
<1>9. /\ req'[r] \in Requests /\ req'[r].st = st /\ req'[r].x = q.x
      /\ req'[r].pipe = q.pipe /\ \A s \in Reqs \ {r} : req'[s] = req[s]
      /\ fut'[r] = "open" /\ \A s \in Reqs \ {r} : fut'[s] = fut[s]
  <2>1. req'[r] = [q EXCEPT !.st = st]
    BY <1>4, <1>8
  <2>2. [q EXCEPT !.st = st] \in Requests
    BY DEF Requests, Hopping, States
  <2>3. [q EXCEPT !.st = st].st = st /\ [q EXCEPT !.st = st].x = q.x
        /\ [q EXCEPT !.st = st].pipe = q.pipe
    BY DEF Requests
  <2> QED
    BY <1>4, <1>6, <1>8, <2>1, <2>2, <2>3
<1>10. RequestsSound'
  <2>1. req' \in [Reqs -> Requests] /\ fut' \in [Reqs -> Futures]
    <3>1. req' \in [Reqs -> Requests]
      BY <1>4, <1>8, <1>9
    <3>2. fut' \in [Reqs -> Futures]
      BY <1>4, <1>6 DEF Futures
    <3> QED
      BY <3>1, <3>2
  <2>2. Sound(req'[r], fut'[r])
    BY <1>9 DEF Sound
  <2>3. \A s \in Reqs \ {r} : Sound(req'[s], fut'[s])
    BY <1>9 DEF ServingInv, RequestsSound
  <2> QED
    BY <2>1, <2>2, <2>3 DEF RequestsSound
<1>11. BatchingSound'
  <2>1. CASE UNCHANGED <<queue, armed>>
    BY <2>1 DEF ServingInv, BatchingSound
  <2>2. CASE /\ queue' = [queue EXCEPT ![n] = Append(@, r)]
             /\ armed' = [armed EXCEPT ![n] = TRUE]
    <3>1. Append(queue[n], r) \in Seq(Reqs) /\ Append(queue[n], r) # <<>>
      BY <1>1, <1>5a, AppendProperties
    <3>2. queue' \in [Nodes -> Seq(Reqs)] /\ armed' \in [Nodes -> BOOLEAN]
      BY <1>5, <2>2, <3>1
    <3>3. \A m \in Nodes : armed'[m] <=> queue'[m] # <<>>
      BY <1>5, <2>2, <3>1 DEF ServingInv, BatchingSound
    <3> QED
      BY <3>2, <3>3 DEF ServingInv, BatchingSound
  <2> QED
    BY <1>7, <2>1, <2>2
<1>12. \A m \in Nodes : toNode'[m] \in {toNode[m], Append(toNode[m], f)}
  BY <1>5, <1>7 DEF Sent
<1>13. toNode' \in [Nodes -> Seq(ToNodeFrames)]
  <2>1. Append(toNode[n], f) \in Seq(ToNodeFrames)
    BY <1>1, <1>2, <1>5, AppendProperties
  <2> QED
    BY <1>5, <1>7, <2>1 DEF Sent
<1>14. FramesOurs'
  <2>1. ASSUME NEW m \in Nodes
        PROVE  Ours(toNode'[m])
    <3>1. Ours(toNode[m])
      BY DEF ServingInv, FramesOurs
    <3>2. Ours(Append(toNode[m], f))
      BY <1>2, <1>5a, <3>1, OursAppend
    <3> QED
      BY <1>12, <3>1, <3>2
  <2> QED
    BY <2>1 DEF ServingInv, FramesOurs
<1>15. Copies(r)'
  <2>1. \A m \in Nodes : /\ ~Has(toNode[m], r) /\ ~HasRow(queue[m], r)
                         /\ Holders(sent[m], r) = {}
                         /\ \A d \in Conns : ~Has(toHub[m][d], r)
    BY NoSites
  <2>2. CASE /\ toNode' = Sent(n, ws[n], f) /\ UNCHANGED <<queue, armed>>
             /\ req'[r].st = "waiting"
    <3>1. ~Idles(req'[r], fut'[r])
      BY <1>9, <2>2 DEF Idles
    <3> QED
      BY <1>1, <1>3, <1>5, <1>9, <2>1, <2>2, <3>1, CopySent
  <2>3. CASE /\ queue' = [queue EXCEPT ![n] = Append(@, r)] /\ UNCHANGED toNode
             /\ req'[r].st = "queued"
    <3>1. ~Idles(req'[r], fut'[r])
      BY <1>9, <2>3 DEF Idles
    <3> QED
      BY <1>1, <1>5, <2>1, <2>3, <3>1, CopyQueued
  <2>4. CASE UNCHANGED <<queue, armed, toNode>> /\ req'[r].st = "pacing"
    <3>1. Sites(r)' = {}
      BY <2>4 DEF Sites
    <3> QED
      BY <2>4, <3>1, <1>9 DEF Copies, Pends
  <2>5. \A s2 \in {"waiting", "queued", "pacing"} :
          req' = [req EXCEPT ![r] = [q EXCEPT !.st = s2]] => req'[r].st = s2
    BY <1>4 DEF Requests
  <2> QED
    BY <1>7, <2>2, <2>3, <2>4, <2>5
<1>16. ASSUME NEW s \in Reqs \ {r}
       PROVE  Copies(s)'
  <2>1. ASSUME NEW m \in Nodes
        PROVE  Fewer(toNode'[m], toNode[m], s)
    <3>1. Fewer(Append(toNode[m], f), toNode[m], s)
      BY <1>3, <1>5a, FewerAppend
    <3> QED
      BY <1>12, <3>1, FewerSame
  <2>2. ASSUME NEW m \in Nodes
        PROVE  FewerRows(queue'[m], queue[m], s)
    <3>1. queue'[m] \in {queue[m], Append(queue[m], r)}
      BY <1>5, <1>7
    <3>2. FewerRows(Append(queue[m], r), queue[m], s)
      BY <1>5a, RowAppended
    <3> QED
      BY <3>1, <3>2 DEF FewerRows
  <2> QED
    BY <1>9, <2>1, <2>2, OthersCopies DEF ServingInv
<1> QED
  BY <1>9, <1>10, <1>11, <1>13, <1>14, <1>15, <1>16

\* What is left to show of a step of this module.
LEMMA StepKeeps ==
  ASSUME ServingInv, UNCHANGED <<recordVars, applyVars, nodeVars, open>>,
         toNode' \in [Nodes -> Seq(ToNodeFrames)],
         toHub' \in [Nodes -> [Conns -> Seq(ToHubFrames)]],
         faults' \in 0 .. MaxFaults, RequestsSound', BatchingSound', FramesOurs',
         BooksKept', cache' \in [Nodes -> [Reqs -> Nat]],
         \A r \in Reqs : Copies(r)'
  PROVE  ServingInv'
<1>1. TypeInv'
  BY InflightTyped, RebalanceTyped DEF ServingInv, BooksKept
<1> QED
  BY <1>1 DEF ServingInv

\* The facts most steps need.
LEMMA Typed ==
  ASSUME ServingInv
  PROVE  /\ toNode \in [Nodes -> Seq(ToNodeFrames)]
         /\ toHub \in [Nodes -> [Conns -> Seq(ToHubFrames)]]
         /\ faults \in 0 .. MaxFaults
         /\ req \in [Reqs -> Requests] /\ fut \in [Reqs -> Futures]
         /\ queue \in [Nodes -> Seq(Reqs)] /\ armed \in [Nodes -> BOOLEAN]
         /\ sent \in [Nodes -> SUBSET Runs]
BY DEF ServingInv, TypeInv, TypeOK, NetTyped, RequestsSound, BatchingSound

\* What the hub serves is a layout.
LEMMA ServingLayout ==
  ASSUME TypeInv
  PROVE  Serving \in Layouts
BY DEF TypeInv, TypeOK, ApplyTyped, Serving, Layouts

\* Before it runs, a request only changes its state.
LEMMA WaitsKeep ==
  ASSUME ServingInv, NEW r \in Reqs, req[r].st \in {"new", "called"},
         NEW st \in {"called", "over", "left"}, req' = [req EXCEPT ![r].st = st],
         UNCHANGED <<vars, fut, queue, armed, sent, cache>>, BooksKept'
  PROVE  ServingInv'
<1>1. req'[r] \in Requests /\ req'[r].st = st /\ \A s \in Reqs \ {r} : req'[s] = req[s]
  <2>1. req[r] \in Requests /\ req'[r] = [req[r] EXCEPT !.st = st]
    BY Typed
  <2>2. \A s \in Reqs \ {r} : req'[s] = req[s]
    BY Typed
  <2>3. st \in States
    BY DEF States
  <2> QED
    BY <2>1, <2>2, <2>3 DEF Requests
<1>2. req' \in [Reqs -> Requests]
  BY <1>1, Typed
<1>3. RequestsSound'
  <2>1. Sound(req'[r], fut'[r])
    BY <1>1 DEF ServingInv, RequestsSound, Sound, Waits, Hopping
  <2>2. \A s \in Reqs \ {r} : Sound(req'[s], fut'[s])
    BY <1>1 DEF ServingInv, RequestsSound
  <2> QED
    BY <1>2, <2>1, <2>2, Typed DEF RequestsSound
<1>4. ASSUME NEW s \in Reqs
      PROVE  Copies(s)'
  <2>1. Sites(s)' = Sites(s)
    BY DEF Sites, vars, netVars
  <2>2. CASE s = r
    BY <1>1, <2>1, <2>2 DEF ServingInv, Copies, Idles, Pends
  <2>3. CASE s # r
    <3>1. req'[s] = req[s]
      BY <1>1, <2>3
    <3>2. Copies(s)
      BY DEF ServingInv
    <3>3. Unique(s) => Unique(s)'
      BY <2>1 DEF Unique, vars, netVars
    <3>4. Match(s) => Match(s)'
      BY <3>1 DEF Match, vars, netVars
    <3> QED
      BY <2>1, <3>1, <3>2, <3>3, <3>4 DEF Copies
  <2> QED
    BY <2>2, <2>3
<1>5. BatchingSound' /\ FramesOurs'
  BY DEF ServingInv, BatchingSound, FramesOurs, vars, netVars
<1> QED
  BY <1>3, <1>4, <1>5, Typed, StepKeeps DEF ServingInv, vars, netVars

\* chat at the gate, and clients that leave there.
LEMMA ChatKeeps ==
  ASSUME ServingInv, NEW r \in Reqs, Chat(r) \/ ChatTimeout(r) \/ Leave(r)
  PROVE  ServingInv'
<1>1. req[r].st \in {"new", "called"} /\ UNCHANGED <<vars, fut, queue, armed, sent, cache>>
  BY DEF Chat, ChatTimeout, Leave
<1>2. inflight' = inflight
  BY <1>1 DEF vars
<1> DEFINE Left_ == {s \in Reqs : req[s].st = "left"}
           To(st) == req' = [req EXCEPT ![r].st = st]
<1>3. ASSUME NEW st \in {"called", "over", "left"}, To(st)
      PROVE  /\ \A s \in Reqs : req'[s].st = IF s = r THEN st ELSE req[s].st
             /\ Running' = Running
  <2>1. \A s \in Reqs : req'[s].st = IF s = r THEN st ELSE req[s].st
    BY <1>3, Typed DEF Requests
  <2> QED
    BY <1>1, <2>1 DEF Running
<1>4. span \in [Reqs -> Spans]
  BY DEF ServingInv, BooksKept
<1>5. CASE req[r].st = "new" /\ To("called") /\ SpanOpens(r)
  <2>1. Called' = Called \cup {r} /\ Left_' = Left_
    BY <1>3, <1>5 DEF Called
  <2>2. span' \in [Reqs -> Spans]
    BY <1>4, <1>5 DEF SpanOpens, Spans
  <2>3. {s \in Reqs : span'[s] = "open"} = {s \in Reqs : span[s] = "open"} \cup {r}
    BY <1>4, <1>5 DEF SpanOpens
  <2>4. BooksKept'
    BY <1>2, <1>3, <1>5, <2>1, <2>2, <2>3 DEF ServingInv, BooksKept, InflightCounts
  <2> QED
    BY <1>1, <1>5, <2>4, WaitsKeep
<1>6. CASE req[r].st = "new" /\ To("over") /\ UNCHANGED span
  <2>1. Called' = Called /\ Left_' = Left_
    BY <1>3, <1>6 DEF Called
  <2>2. BooksKept'
    BY <1>2, <1>3, <1>4, <1>6, <2>1 DEF ServingInv, BooksKept, InflightCounts
  <2> QED
    BY <1>1, <1>6, <2>2, WaitsKeep
<1>7. CASE req[r].st = "called" /\ To("over") /\ SpanEnds(r, "failed")
  <2>1. Called' = Called \ {r} /\ Left_' = Left_ /\ r \notin Running /\ r \notin Left_
    BY <1>3, <1>7 DEF Called, Running
  <2>2. span' \in [Reqs -> Spans]
    BY <1>4, <1>7 DEF SpanEnds, Spans
  <2>3. {s \in Reqs : span'[s] = "open"} = {s \in Reqs : span[s] = "open"} \ {r}
    BY <1>4, <1>7 DEF SpanEnds
  <2>4. BooksKept'
    BY <1>2, <1>3, <1>7, <2>1, <2>2, <2>3 DEF ServingInv, BooksKept, InflightCounts
  <2> QED
    BY <1>1, <1>7, <2>4, WaitsKeep
<1>8. CASE req[r].st = "called" /\ To("left") /\ UNCHANGED span
  <2>1. Called' = Called \ {r} /\ Left_' = Left_ \cup {r} /\ r \in Called
    BY <1>3, <1>8 DEF Called
  <2>2. BooksKept'
    BY <1>2, <1>3, <1>4, <1>8, <2>1 DEF ServingInv, BooksKept, InflightCounts
  <2> QED
    BY <1>1, <1>8, <2>2, WaitsKeep
<1> QED
  BY <1>5, <1>6, <1>7, <1>8 DEF Chat, ChatTimeout, Leave, Refuse

\* A request that is called is admitted, or fails at once.
LEMMA AdmitKeeps ==
  ASSUME ServingInv, NEW r \in Reqs, Admit(r)
  PROVE  ServingInv'
<1>1. TypeInv
  BY DEF ServingInv
<1>2. CASE PipelineComplete
  <2> DEFINE q == [st |-> "between", gen |-> gen, pipe |-> Serving,
                   home |-> Members(Serving), x |-> FirstAct]
  <2>1. q \in Requests
    <3>1. gen \in Nat
      BY <1>1 DEF TypeInv, TypeOK, ApplyTyped
    <3>2. FirstAct \in Acts
      BY ServingAssumption, NLayersAssumption DEF FirstAct, Acts, Astray
    <3>3. Members(Serving) \in SUBSET Nodes
      BY DEF Members
    <3> QED
      BY <1>1, <3>1, <3>2, <3>3, ServingLayout DEF Requests, States
  <2>2. q.st = "between" /\ q.pipe = Serving /\ q.x = FirstAct
    OBVIOUS
  <2>3. Hop(r, q) /\ inflight' = inflight + 1 /\ UNCHANGED span
    BY <1>2 DEF Admit
  <2> HIDE DEF q
  <2>4. Sites(r) = {}
    BY DEF ServingInv, Copies, Idles, Admit
  <2>5. \E n \in Nodes : q.pipe[n] # NoRange /\ q.pipe[n][1] = q.x.at
    BY <1>1, <1>2, <2>2, ServingLayout, FirstOwner DEF PipelineComplete, FirstAct
  <2>6. q.x.pass < MaxPass
    BY <2>2, ServingAssumption DEF FirstAct
  <2>7. /\ RequestsSound' /\ BatchingSound' /\ FramesOurs'
        /\ toNode' \in [Nodes -> Seq(ToNodeFrames)]
        /\ req'[r].st \in Hopping /\ \A s \in Reqs \ {r} : req'[s] = req[s]
        /\ \A s \in Reqs : Copies(s)'
    BY <1>2, <2>1, <2>2, <2>3, <2>4, <2>5, <2>6, HopKeeps
       DEF Admit, PipelineComplete, Waits
  <2>8. BooksKept'
    BY <2>3, <2>7, BooksIn DEF ServingInv, Admit
  <2> QED
    BY <2>7, <2>8, Typed, StepKeeps DEF ServingInv, Admit
<1>3. CASE ~PipelineComplete
  <2>1. /\ req[r].st = "called" /\ req' = [req EXCEPT ![r].st = "over"]
        /\ SpanEnds(r, "failed")
        /\ UNCHANGED <<vars, fut, queue, armed, sent, cache>>
    BY <1>3 DEF Admit, vars, netVars
  <2>2. \A s \in Reqs : req'[s].st = IF s = r THEN "over" ELSE req[s].st
    BY <2>1, Typed DEF Requests
  <2>3. /\ Running' = Running /\ Called' = Called \ {r} /\ r \notin Running
        /\ {s \in Reqs : req'[s].st = "left"} = {s \in Reqs : req[s].st = "left"}
        /\ r \notin {s \in Reqs : req[s].st = "left"}
    BY <2>1, <2>2 DEF Running, Called
  <2>4. span \in [Reqs -> Spans] /\ span' \in [Reqs -> Spans]
    BY <2>1 DEF ServingInv, BooksKept, SpanEnds, Spans
  <2>5. {s \in Reqs : span'[s] = "open"} = {s \in Reqs : span[s] = "open"} \ {r}
    BY <2>1, <2>4 DEF SpanEnds
  <2>6. BooksKept'
    BY <2>1, <2>3, <2>4, <2>5 DEF ServingInv, BooksKept, InflightCounts, vars
  <2> QED
    BY <2>1, <2>6, WaitsKeep
<1> QED
  BY <1>2, <1>3

\* A later pass starts, or the request ends there.
LEMMA StartPassKeeps ==
  ASSUME ServingInv, NEW r \in Reqs, StartPass(r)
  PROVE  ServingInv'
<1>1. TypeInv
  BY DEF ServingInv
<1>2. req[r] \in Requests /\ req[r].st = "between" /\ req[r].x.pass < MaxPass
  BY Typed DEF StartPass
<1>3. CASE req[r].gen = gen /\ PipelineComplete
  <2> DEFINE q == [req[r] EXCEPT !.pipe = Serving, !.x.at = 0, !.x.upto = 0]
  <2>1. q \in Requests /\ q.st = "between" /\ q.pipe = Serving
        /\ q.x.pass = req[r].x.pass /\ q.x.at = 0
    <3> DEFINE x == [req[r].x EXCEPT !.at = 0, !.upto = 0]
    <3>1. x \in Acts /\ x.pass = req[r].x.pass /\ x.at = 0
      <4>1. req[r].x \in Acts
        BY <1>2 DEF Requests
      <4>2. 0 \in 0 .. NLayers /\ 0 \in 0 .. Astray
        BY NLayersAssumption DEF Astray
      <4> QED
        BY <4>1, <4>2 DEF Acts
    <3>2. q = [req[r] EXCEPT !.pipe = Serving, !.x = x]
      BY <1>2 DEF Requests
    <3> HIDE DEF x, q
    <3> QED
      BY <1>1, <1>2, <3>1, <3>2, ServingLayout DEF Requests
  <2>2. Hop(r, q)
    BY <1>3 DEF StartPass
  <2> HIDE DEF q
  <2>3. Sites(r) = {}
    BY <1>2 DEF ServingInv, Copies, Idles
  <2>4. \E n \in Nodes : q.pipe[n] # NoRange /\ q.pipe[n][1] = q.x.at
    BY <1>1, <1>3, <2>1, ServingLayout, FirstOwner DEF PipelineComplete
  <2>5. UNCHANGED <<recordVars, applyVars, inflight, nodeVars, toHub, open, span,
                    sent, cache, faults>>
    BY <1>3 DEF StartPass
  <2>6. /\ RequestsSound' /\ BatchingSound' /\ FramesOurs'
        /\ toNode' \in [Nodes -> Seq(ToNodeFrames)]
        /\ req'[r].st \in Hopping /\ \A s \in Reqs \ {r} : req'[s] = req[s]
        /\ \A s \in Reqs : Copies(s)'
    BY <1>2, <1>3, <2>1, <2>2, <2>3, <2>4, <2>5, HopKeeps
       DEF PipelineComplete, Waits
  <2>7. BooksKept'
    BY <1>2, <2>5, <2>6, BooksSame DEF ServingInv, Waits, Hopping
  <2> QED
    BY <2>5, <2>6, <2>7, Typed, StepKeeps DEF ServingInv
<1>4. CASE ~(req[r].gen = gen /\ PipelineComplete)
  <2>1. r \in Running
    BY <1>2 DEF Running
  <2> QED
    BY <1>4, <2>1, Typed, EndKeeps DEF StartPass
<1> QED
  BY <1>3, <1>4

\* A request that is on a hop runs, and its hop has a node.
LEMMA OnHop ==
  ASSUME ServingInv, NEW r \in Reqs, req[r].st \in Hopping
  PROVE  /\ r \in Running /\ req[r] \in Requests /\ Tiles(req[r].pipe)
         /\ req[r].x.pass < MaxPass /\ Owner(req[r]) \in Nodes
         /\ req[r].pipe[Owner(req[r])] # NoRange
         /\ req[r].pipe[Owner(req[r])][1] = req[r].x.at
<1>1. Sound(req[r], fut[r]) /\ req[r] \in Requests
  BY DEF ServingInv, RequestsSound
<1>2. req[r].st \notin Waits
  BY DEF Hopping, Waits
<1>3. r \in Running
  BY <1>2 DEF Running, Waits
<1> QED
  BY <1>1, <1>2, <1>3, OwnerOf DEF Sound

\* An activation that moves to layer e, and perhaps ends its pass.
LEMMA Moved ==
  ASSUME NEW q \in Requests, NEW e \in 0 .. NLayers
  PROVE  /\ [q EXCEPT !.x.at = e] \in Requests
         /\ [q EXCEPT !.x.at = e].st = q.st /\ [q EXCEPT !.x.at = e].pipe = q.pipe
         /\ [q EXCEPT !.x.at = e].x.pass = q.x.pass
         /\ [q EXCEPT !.x.at = e].x.at = e
<1> DEFINE x == [q.x EXCEPT !.at = e]
<1>1. q.x \in Acts
  BY DEF Requests
<1>2. x \in Acts /\ x.pass = q.x.pass /\ x.at = e
  BY <1>1 DEF Acts
<1>3. [q EXCEPT !.x.at = e] = [q EXCEPT !.x = x]
  BY DEF Requests
<1> HIDE DEF x
<1> QED
  BY <1>2, <1>3 DEF Requests

\* The request after the last hop of a pass.
LEMMA PassEnds ==
  ASSUME NEW q \in Requests, q.x.pass < MaxPass
  PROVE  /\ [q EXCEPT !.st = "between", !.x.pass = @ + 1] \in Requests
         /\ [q EXCEPT !.st = "between", !.x.pass = @ + 1].st = "between"
         /\ [q EXCEPT !.st = "between", !.x.pass = @ + 1].pipe = q.pipe
<1> DEFINE x == [q.x EXCEPT !.pass = @ + 1]
<1>1. q.x \in Acts
  BY DEF Requests
<1>2. q.x.pass + 1 \in 0 .. MaxPass
  BY <1>1, ServingAssumption DEF Acts
<1>3. x \in Acts
  BY <1>1, <1>2 DEF Acts
<1>4. [q EXCEPT !.st = "between", !.x.pass = @ + 1] = [q EXCEPT !.st = "between", !.x = x]
  BY DEF Requests
<1> HIDE DEF x
<1> QED
  BY <1>3, <1>4 DEF Requests, States

\* The answer of a hop is in.
LEMMA HopDoneKeeps ==
  ASSUME ServingInv, NEW r \in Reqs, HopDone(r)
  PROVE  ServingInv'
<1> DEFINE n   == Owner(req[r])
           end == req[r].pipe[n][2]
           q   == [req[r] EXCEPT !.x.at = end]
<1>1. req[r].st \in {"waiting", "queued"} /\ fut[r] = "ok" /\ faults' = faults
  BY DEF HopDone
<1>2. /\ r \in Running /\ req[r] \in Requests /\ Tiles(req[r].pipe)
      /\ req[r].x.pass < MaxPass /\ n \in Nodes
      /\ req[r].pipe[n] # NoRange /\ req[r].pipe[n][1] = req[r].x.at
  BY <1>1, OnHop DEF Hopping
<1>3. req[r].pipe \in Layouts
  BY <1>2 DEF Requests
<1>4. end \in 0 .. NLayers
  BY <1>2, <1>3 DEF Layouts, Ranges
<1>5. /\ q \in Requests /\ q.st = req[r].st /\ q.pipe = req[r].pipe
      /\ q.x.pass = req[r].x.pass /\ q.x.at = end
  BY <1>2, <1>4, Moved
<1>6. \/ End(r, "failed")
      \/ /\ end < NLayers /\ Hop(r, q)
         /\ UNCHANGED <<recordVars, applyVars, inflight, nodeVars, toHub, open,
                        span, sent, cache>>
      \/ /\ req' = [req EXCEPT ![r] = [q EXCEPT !.st = "between", !.x.pass = @ + 1]]
         /\ fut' = [fut EXCEPT ![r] = "none"]
         /\ UNCHANGED <<vars, span, queue, armed, sent, cache>>
  BY DEF HopDone
<1> HIDE DEF q, n, end
<1>7. CASE End(r, "failed")
  BY <1>1, <1>2, <1>7, Typed, EndKeeps
<1>8. CASE /\ end < NLayers /\ Hop(r, q)
           /\ UNCHANGED <<recordVars, applyVars, inflight, nodeVars, toHub, open,
                          span, sent, cache>>
  <2>1. Sites(r) = {}
    BY <1>1 DEF ServingInv, Copies, Idles
  <2>2. \E m \in Nodes : q.pipe[m] # NoRange /\ q.pipe[m][1] = q.x.at
    <3>1. \E m \in Nodes : req[r].pipe[m] # NoRange /\ req[r].pipe[m][1] = end
      BY <1>2, <1>3, <1>8, NextOwner DEF end
    <3> QED
      BY <1>5, <3>1
  <2>3. q.st \notin Waits /\ q.x.pass < MaxPass /\ Tiles(q.pipe)
    BY <1>1, <1>2, <1>5 DEF Waits
  <2>4. /\ RequestsSound' /\ BatchingSound' /\ FramesOurs'
        /\ toNode' \in [Nodes -> Seq(ToNodeFrames)]
        /\ req'[r].st \in Hopping /\ \A s \in Reqs \ {r} : req'[s] = req[s]
        /\ \A s \in Reqs : Copies(s)'
    BY <1>5, <1>8, <2>1, <2>2, <2>3, HopKeeps
  <2>5. BooksKept'
    BY <1>1, <1>8, <2>4, BooksSame DEF ServingInv, Waits, Hopping
  <2> QED
    BY <1>1, <1>8, <2>4, <2>5, Typed, StepKeeps DEF ServingInv
<1>9. CASE /\ req' = [req EXCEPT ![r] = [q EXCEPT !.st = "between", !.x.pass = @ + 1]]
           /\ fut' = [fut EXCEPT ![r] = "none"]
           /\ UNCHANGED <<vars, span, queue, armed, sent, cache>>
  <2> DEFINE p == [q EXCEPT !.st = "between", !.x.pass = @ + 1]
  <2>1. p \in Requests /\ p.st = "between" /\ p.pipe = q.pipe
    BY <1>2, <1>5, PassEnds
  <2>2. req' = [req EXCEPT ![r] = p]
    BY <1>9
  <2> HIDE DEF p
  <2>3. req'[r] = p /\ fut'[r] = "none"
        /\ \A s \in Reqs \ {r} : req'[s] = req[s] /\ fut'[s] = fut[s]
    BY <1>9, <2>2, Typed
  <2>4. RequestsSound'
    <3>1. req' \in [Reqs -> Requests]
      BY <2>1, <2>2, Typed
    <3>2. fut' \in [Reqs -> Futures]
      BY <1>9, Typed DEF Futures
    <3>3. Sound(req'[r], fut'[r])
      BY <1>2, <1>5, <2>1, <2>3 DEF Sound, Hopping
    <3>4. \A s \in Reqs \ {r} : Sound(req'[s], fut'[s])
      BY <2>3 DEF ServingInv, RequestsSound
    <3> QED
      BY <3>1, <3>2, <3>3, <3>4 DEF RequestsSound
  <2>5. BatchingSound' /\ FramesOurs'
    BY <1>9 DEF ServingInv, BatchingSound, FramesOurs, vars, netVars
  <2>6. BooksKept'
    <3>1. inflight' = inflight /\ span' = span
      BY <1>9 DEF vars
    <3> QED
      BY <1>1, <2>1, <2>3, <3>1, BooksSame DEF ServingInv, Waits
  <2>7. ASSUME NEW s \in Reqs
        PROVE  Copies(s)'
    <3>1. Lessens(s)
      BY <1>9, FewerSame DEF Lessens, FewerRows, FewerRuns, vars, netVars
    <3>2. CASE s = r
      BY <1>1, <2>1, <2>3, <3>1, <3>2, CopiesLessen DEF ServingInv, Idles, Pends
    <3>3. CASE s # r
      BY <2>3, <3>1, <3>3, CopiesLessen DEF ServingInv
    <3> QED
      BY <3>2, <3>3
  <2> QED
    BY <1>9, <2>4, <2>5, <2>6, <2>7, Typed, StepKeeps DEF ServingInv, vars, netVars
<1> QED
  BY <1>6, <1>7, <1>8, <1>9

\* The pace of a direct hop is over.
LEMMA SendHopKeeps ==
  ASSUME ServingInv, NEW r \in Reqs, SendHop(r)
  PROVE  ServingInv'
<1> DEFINE n == Owner(req[r])
           f == Fwd("fwd", {r})
<1>1. req[r].st = "pacing" /\ faults' = faults
  BY DEF SendHop
<1>2. r \in Running /\ req[r] \in Requests /\ n \in Nodes
  BY <1>1, OnHop DEF Hopping
<1>3. CASE ~Bound(n)
  BY <1>1, <1>2, <1>3, Typed, EndKeeps DEF SendHop
<1>4. CASE Bound(n)
  <2>1. /\ toNode' = Sent(n, ws[n], f) /\ req' = [req EXCEPT ![r].st = "waiting"]
        /\ UNCHANGED <<recordVars, applyVars, inflight, nodeVars, toHub, open,
                       span, fut, queue, armed, sent, cache>>
    BY <1>4 DEF SendHop, SendTo
  <2>2. /\ f \in Traffic /\ f \in ToNodeFrames
        /\ f.x[r] = req[r].x /\ \A s \in Reqs \ {r} : ~Carries(f, s)
    <3>1. [s \in {r} |-> req[s].x] \in [{r} -> Acts]
      BY <1>2 DEF Requests
    <3> QED
      BY <3>1, RowsTravel DEF Fwd, FwdKinds, Carries
  <2> HIDE DEF n, f
  <2>3. /\ req'[r] \in Requests /\ req'[r].st = "waiting" /\ req'[r].x = req[r].x
        /\ req'[r].pipe = req[r].pipe /\ \A s \in Reqs \ {r} : req'[s] = req[s]
    BY <1>2, <2>1, Typed DEF Requests, States
  <2>4. RequestsSound'
    <3>1. req' \in [Reqs -> Requests]
      BY <2>1, <2>3, Typed
    <3>2. Sound(req'[r], fut'[r])
      BY <1>1, <2>1, <2>3 DEF ServingInv, RequestsSound, Sound, Waits, Hopping
    <3>3. \A s \in Reqs \ {r} : Sound(req'[s], fut'[s])
      BY <2>1, <2>3 DEF ServingInv, RequestsSound
    <3> QED
      BY <2>1, <3>1, <3>2, <3>3, Typed DEF RequestsSound
  <2>5. BatchingSound'
    BY <2>1 DEF ServingInv, BatchingSound
  <2>6. BooksKept'
    BY <1>1, <2>1, <2>3, BooksSame DEF ServingInv, Waits
  <2>7. \A m \in Nodes : toNode[m] \in Seq(ToNodeFrames)
    BY Typed
  <2>8. \A m \in Nodes : toNode'[m] \in {toNode[m], Append(toNode[m], f)}
    BY <2>1, Typed DEF Sent
  <2>9. toNode' \in [Nodes -> Seq(ToNodeFrames)]
    <3>1. Append(toNode[n], f) \in Seq(ToNodeFrames)
      BY <1>2, <2>2, <2>7, AppendProperties
    <3> QED
      BY <2>1, <3>1, Typed DEF Sent
  <2>10. FramesOurs'
    <3>1. ASSUME NEW m \in Nodes
          PROVE  Ours(toNode'[m])
      <4>1. Ours(toNode[m])
        BY DEF ServingInv, FramesOurs
      <4>2. Ours(Append(toNode[m], f))
        BY <2>2, <2>7, <4>1, OursAppend
      <4> QED
        BY <2>8, <4>1, <4>2
    <3> QED
      BY <2>1, <3>1 DEF ServingInv, FramesOurs
  <2>11. Copies(r)'
    <3>1. CASE fut[r] = "failed"
      BY <2>1, <2>3, <3>1, Forgotten DEF Idles, Pends
    <3>2. CASE fut[r] # "failed"
      <4>1. Sites(r) = {}
        BY <1>1, <3>2 DEF ServingInv, Copies, Idles
      <4>2. ~Idles(req'[r], fut'[r])
        BY <1>1, <2>1, <2>3 DEF ServingInv, RequestsSound, Sound, Idles
      <4>3. \A m \in Nodes : /\ ~Has(toNode[m], r) /\ ~HasRow(queue'[m], r)
                             /\ Holders(sent'[m], r) = {}
                             /\ \A d \in Conns : ~Has(toHub'[m][d], r)
        BY <2>1, <4>1, NoSites
      <4>4. f.x[r] = req'[r].x
        BY <2>2, <2>3
      <4> QED
        BY <1>2, <2>1, <4>2, <4>3, <4>4, Typed, CopySent
    <3> QED
      BY <3>1, <3>2
  <2>12. ASSUME NEW s \in Reqs \ {r}
         PROVE  Copies(s)'
    <3>1. ASSUME NEW m \in Nodes
          PROVE  Fewer(toNode'[m], toNode[m], s)
      <4>1. Fewer(Append(toNode[m], f), toNode[m], s)
        BY <2>2, <2>7, FewerAppend
      <4> QED
        BY <2>8, <4>1, FewerSame
    <3>2. \A m \in Nodes : FewerRows(queue'[m], queue[m], s)
      BY <2>1 DEF FewerRows
    <3> QED
      BY <2>1, <2>3, <3>1, <3>2, OthersCopies DEF ServingInv
  <2> QED
    BY <1>1, <2>1, <2>4, <2>5, <2>6, <2>9, <2>10, <2>11, <2>12, Typed, StepKeeps
       DEF ServingInv
<1> QED
  BY <1>3, <1>4

\* The other ways a request ends: its hop failed or timed out, it is done, its
\* client goes away.
LEMMA EndsKeep ==
  ASSUME ServingInv, NEW r \in Reqs,
         HopFails(r) \/ Done(r) \/ Cancel(r) \/ HopTimeout(r)
  PROVE  ServingInv'
<1>1. r \in Running
  BY DEF HopFails, Done, Cancel, HopTimeout, Running
<1>2. faults' \in 0 .. MaxFaults
  BY Typed, FaultTyped DEF HopFails, Done, Cancel, HopTimeout, ServingInv, TypeInv
<1> QED
  BY <1>1, <1>2, EndKeeps DEF HopFails, Done, Cancel, HopTimeout

-----------------------------------------------------------------------------
(***************************************************************************)
(* Moving the one copy of a request.                                       *)
(***************************************************************************)

\* What is held at a place is a copy held there.
LEMMA SitesAre ==
  ASSUME NEW r \in Reqs, NEW n \in Nodes
  PROVE  /\ Has(toNode[n], r) => <<"node", n, 1>> \in Sites(r)
         /\ HasRow(queue[n], r) => <<"queue", n, 1>> \in Sites(r)
         /\ Holders(sent[n], r) # {} => <<"run", n, 1>> \in Sites(r)
         /\ \A c \in Conns : Has(toHub[n][c], r) => <<"hub", n, c>> \in Sites(r)
<1>1. 1 \in Conns
  BY BoundsAssumption DEF Conns
<1>2. Has(toNode[n], r) => <<"node", n, 1>> \in Sites(r)
  BY <1>1 DEF Sites, Places
<1>3. HasRow(queue[n], r) => <<"queue", n, 1>> \in Sites(r)
  BY <1>1 DEF Sites, Places
<1>4. Holders(sent[n], r) # {} => <<"run", n, 1>> \in Sites(r)
  BY <1>1 DEF Sites, Places
<1>5. ASSUME NEW c \in Conns, Has(toHub[n][c], r)
      PROVE  <<"hub", n, c>> \in Sites(r)
  <2> DEFINE t == <<"hub", n, c>>
  <2>1. t \in Places /\ t[1] = "hub" /\ t[2] = n /\ t[3] = c
    BY DEF Places
  <2> HIDE DEF t
  <2>2. t \in Sites(r)
    BY <1>5, <2>1 DEF Sites
  <2> QED
    BY <2>2 DEF t
<1> QED
  BY <1>2, <1>3, <1>4, <1>5

\* The one copy is a row in n's queue.
LEMMA OnlyQueued ==
  ASSUME NEW r \in Reqs, Unique(r), NEW n \in Nodes, HasRow(queue[n], r),
         NEW m \in Nodes
  PROVE  /\ ~Has(toNode[m], r) /\ Holders(sent[m], r) = {}
         /\ m # n => ~HasRow(queue[m], r)
         /\ \A c \in Conns : ~Has(toHub[m][c], r)
<1>1. \A s \in Sites(r) : s = <<"queue", n, 1>>
  BY SitesAre DEF Unique
<1>2. <<"node", m, 1>> \notin Sites(r) /\ <<"run", m, 1>> \notin Sites(r)
  BY <1>1
<1>3. m # n => <<"queue", m, 1>> \notin Sites(r)
  BY <1>1
<1>4. \A c \in Conns : <<"hub", m, c>> \notin Sites(r)
  BY <1>1
<1> QED
  BY <1>2, <1>3, <1>4, SitesAre

\* The one copy is with a runner of n.
LEMMA OnlyRun ==
  ASSUME NEW r \in Reqs, Unique(r), NEW n \in Nodes, Holders(sent[n], r) # {},
         NEW m \in Nodes
  PROVE  /\ ~Has(toNode[m], r) /\ ~HasRow(queue[m], r)
         /\ m # n => Holders(sent[m], r) = {}
         /\ \A c \in Conns : ~Has(toHub[m][c], r)
<1>1. \A s \in Sites(r) : s = <<"run", n, 1>>
  BY SitesAre DEF Unique
<1>2. <<"node", m, 1>> \notin Sites(r) /\ <<"queue", m, 1>> \notin Sites(r)
  BY <1>1
<1>3. m # n => <<"run", m, 1>> \notin Sites(r)
  BY <1>1
<1>4. \A c \in Conns : <<"hub", m, c>> \notin Sites(r)
  BY <1>1
<1> QED
  BY <1>2, <1>3, <1>4, SitesAre

\* The one copy is in a frame to n.
LEMMA OnlyToNode ==
  ASSUME NEW r \in Reqs, Unique(r), NEW n \in Nodes, Has(toNode[n], r),
         NEW m \in Nodes
  PROVE  /\ m # n => ~Has(toNode[m], r)
         /\ ~HasRow(queue[m], r) /\ Holders(sent[m], r) = {}
         /\ \A c \in Conns : ~Has(toHub[m][c], r)
<1>1. \A s \in Sites(r) : s = <<"node", n, 1>>
  BY SitesAre DEF Unique
<1>2. <<"run", m, 1>> \notin Sites(r) /\ <<"queue", m, 1>> \notin Sites(r)
  BY <1>1
<1>3. m # n => <<"node", m, 1>> \notin Sites(r)
  BY <1>1
<1>4. \A c \in Conns : <<"hub", m, c>> \notin Sites(r)
  BY <1>1
<1> QED
  BY <1>2, <1>3, <1>4, SitesAre

\* The one copy is in a frame from n on connection c.
LEMMA OnlyToHub ==
  ASSUME NEW r \in Reqs, Unique(r), NEW n \in Nodes, NEW c \in Conns,
         Has(toHub[n][c], r), NEW m \in Nodes
  PROVE  /\ ~Has(toNode[m], r) /\ ~HasRow(queue[m], r) /\ Holders(sent[m], r) = {}
         /\ \A d \in Conns : m # n \/ d # c => ~Has(toHub[m][d], r)
<1>1. \A s \in Sites(r) : s = <<"hub", n, c>>
  BY SitesAre DEF Unique
<1>2. /\ <<"node", m, 1>> \notin Sites(r)
      /\ <<"run", m, 1>> \notin Sites(r) /\ <<"queue", m, 1>> \notin Sites(r)
  BY <1>1
<1>3. \A d \in Conns : m # n \/ d # c => <<"hub", m, d>> \notin Sites(r)
  BY <1>1
<1> QED
  BY <1>2, <1>3, SitesAre

\* A runner takes r, and there is no other copy of it.
LEMMA CopyTaken ==
  ASSUME NEW r \in Reqs, NEW n \in Nodes, NEW b, sent \in [Nodes -> SUBSET Runs],
         sent' = [sent EXCEPT ![n] = @ \cup {b}],
         ~Idles(req'[r], fut'[r]),
         \A m \in Nodes : /\ ~Has(toNode'[m], r) /\ ~HasRow(queue'[m], r)
                          /\ Holders(sent[m], r) = {}
                          /\ \A d \in Conns : ~Has(toHub'[m][d], r)
  PROVE  Copies(r)'
<1>1. Holders(sent'[n], r) \subseteq {b} /\ \A m \in Nodes \ {n} : Holders(sent'[m], r) = {}
  BY DEF Holders
<1>2. \A s \in Sites(r)' : s \in Places /\ s[1] = "run" /\ s[2] = n /\ s[3] = 1
  <2> SUFFICES ASSUME NEW s \in Sites(r)'
               PROVE  s \in Places /\ s[1] = "run" /\ s[2] = n /\ s[3] = 1
    OBVIOUS
  <2>1. s \in Places
    BY DEF Sites
  <2>2. s[2] \in Nodes /\ s[3] \in Conns
    BY <2>1 DEF Places
  <2> QED
    BY <1>1, <2>1, <2>2 DEF Sites
<1>3. \A s, t \in Sites(r)' : s = t
  BY <1>2, SamePlace
<1>4. ASSUME NEW m \in Nodes
      PROVE  /\ Single(toNode'[m], r) /\ OneRow(queue'[m], r) /\ OneHolder(sent'[m], r)
             /\ \A d \in Conns : Single(toHub'[m][d], r)
  <2>1. OneHolder(sent'[m], r)
    BY <1>1 DEF OneHolder
  <2> QED
    BY <2>1 DEF Has, HasRow, Single, OneRow
<1>5. Match(r)'
  BY DEF Match, Has
<1> QED
  BY <1>3, <1>4, <1>5 DEF Copies, Unique

\* A node answers with r, and there is no other copy of it.
LEMMA CopySaid ==
  ASSUME NEW r \in Reqs, NEW n \in Nodes, NEW f,
         toHub \in [Nodes -> [Conns -> Seq(ToHubFrames)]], Says(n, f),
         f.x[r].pass = req'[r].x.pass, f.x[r].at = req'[r].x.at,
         ~Idles(req'[r], fut'[r]),
         \A m \in Nodes : /\ ~Has(toNode'[m], r) /\ ~HasRow(queue'[m], r)
                          /\ Holders(sent'[m], r) = {}
                          /\ \A d \in Conns : ~Has(toHub[m][d], r)
  PROVE  Copies(r)'
<1> DEFINE c == conn[n]
           q == Append(toHub[n][c], f)
<1>1. \A m \in Nodes, d \in Conns :
        toHub'[m][d] = IF m = n /\ d = c THEN q ELSE toHub[m][d]
  BY DEF Says
<1>2. c \in Conns =>
        /\ Single(q, r)
        /\ \A i \in DOMAIN q : Carries(q[i], r) => q[i] = f
  <2>1. c \in Conns => toHub[n][c] \in Seq(ToHubFrames)
    OBVIOUS
  <2> QED
    BY <2>1, OneAppended
<1> HIDE DEF c, q
<1>3. \A m \in Nodes, d \in Conns : Has(toHub'[m][d], r) => m = n /\ d = c
  BY <1>1
<1>4. \A s \in Sites(r)' : s \in Places /\ s[1] = "hub" /\ s[2] = n /\ s[3] = c
  <2> SUFFICES ASSUME NEW s \in Sites(r)'
               PROVE  s \in Places /\ s[1] = "hub" /\ s[2] = n /\ s[3] = c
    OBVIOUS
  <2>1. s \in Places
    BY DEF Sites
  <2>2. s[2] \in Nodes /\ s[3] \in Conns
    BY <2>1 DEF Places
  <2> QED
    BY <1>3, <2>1, <2>2 DEF Sites
<1>5. \A s, t \in Sites(r)' : s = t
  BY <1>4, SamePlace
<1>6. ASSUME NEW m \in Nodes
      PROVE  /\ Single(toNode'[m], r) /\ OneRow(queue'[m], r) /\ OneHolder(sent'[m], r)
             /\ \A d \in Conns : Single(toHub'[m][d], r)
  <2>1. \A d \in Conns : Single(toHub'[m][d], r)
    BY <1>1, <1>2 DEF Has, Single
  <2> QED
    BY <2>1 DEF Has, HasRow, Single, OneRow, OneHolder
<1>7. ASSUME NEW m \in Nodes, NEW d \in Conns, NEW i \in DOMAIN toHub'[m][d],
             Carries(toHub'[m][d][i], r)
      PROVE  toHub'[m][d][i] = f
  BY <1>1, <1>2, <1>7 DEF Has
<1>8. Match(r)'
  BY <1>7 DEF Match, Has
<1> QED
  BY <1>5, <1>6, <1>8 DEF Copies, Unique

-----------------------------------------------------------------------------
(***************************************************************************)
(* _batch_runner.                                                          *)
(***************************************************************************)

\* The rows a runner takes: at least one, at most MAX_BATCH.
LEMMA TakenCount ==
  ASSUME NEW q \in Seq(Reqs), q # <<>>, NEW k \in 1 .. Len(q), k <= MaxBatch
  PROVE  /\ RowSet(SubSeq(q, 1, k)) \in SUBSET Reqs
         /\ Cardinality(RowSet(SubSeq(q, 1, k))) \in 1 .. MaxBatch
<1> DEFINE t == SubSeq(q, 1, k)
           T == RowSet(t)
<1>1. t \in Seq(Reqs) /\ Len(t) = k /\ DOMAIN t = 1 .. k
  OBVIOUS
<1>2. \A i \in 1 .. k : t[i] \in Reqs
  OBVIOUS
<1> HIDE DEF t
<1>3. T = {t[i] : i \in 1 .. k} /\ T \in SUBSET Reqs
  BY <1>1, <1>2 DEF RowSet
<1>4. t \in [1 .. k -> T]
  BY <1>1, <1>3
<1>5. t \in Surjection(1 .. k, T)
  BY <1>3, <1>4 DEF Surjection
<1>6. IsFiniteSet(1 .. k) /\ Cardinality(1 .. k) = k
  BY FS_Interval
<1>7. IsFiniteSet(T) /\ Cardinality(T) <= k
  BY <1>5, <1>6, FS_Surjection
<1>8. t[1] \in T
  BY <1>3
<1>9. Cardinality(T) \in Nat /\ Cardinality(T) # 0
  BY <1>7, <1>8, FS_CardinalityType, FS_EmptySet
<1> QED
  BY <1>3, <1>7, <1>9, ServingAssumption DEF t

\* Futures that fail, or stay as they are, leave every request sound, and make no
\* request await or send anything it did not.
LEMMA Failing ==
  ASSUME RequestsSound, req' = req, NEW S,
         fut' = Settle(S, "failed") \/ fut' = fut
  PROVE  /\ RequestsSound'
         /\ \A r \in Reqs :
              /\ Idles(req'[r], fut'[r]) => Idles(req[r], fut[r])
              /\ Pends(req'[r], fut'[r]) =>
                   Pends(req[r], fut[r]) /\ req'[r].x = req[r].x
<1>1. \A r \in Reqs : fut'[r] = fut[r] \/ (fut[r] = "open" /\ fut'[r] = "failed")
  BY DEF Settle
<1>2. fut' \in [Reqs -> Futures]
  BY DEF RequestsSound, Settle, Futures
<1>3. \A r \in Reqs : Sound(req'[r], fut'[r])
  BY <1>1 DEF RequestsSound, Sound
<1>4. RequestsSound'
  BY <1>2, <1>3 DEF RequestsSound
<1>5. ASSUME NEW r \in Reqs
      PROVE  /\ Idles(req'[r], fut'[r]) => Idles(req[r], fut[r])
             /\ Pends(req'[r], fut'[r]) =>
                  Pends(req[r], fut[r]) /\ req'[r].x = req[r].x
  BY <1>1 DEF Idles, Pends
<1> QED
  BY <1>4, <1>5

\* The window of n's runner is over.
LEMMA RunWindowKeeps ==
  ASSUME ServingInv, NEW n \in Nodes, RunWindow(n)
  PROVE  ServingInv'
<1> DEFINE k    == TakenOf(n)
           took == RowSet(SubSeq(queue[n], 1, k))
           rest == SubSeq(queue[n], k + 1, Len(queue[n]))
           b    == [rows |-> took, st |-> "pacing", dead |-> FALSE]
<1>1. queue[n] \in Seq(Reqs) /\ queue[n] # <<>>
  BY DEF ServingInv, BatchingSound, RunWindow
<1>2. k \in 1 .. Len(queue[n]) /\ k <= MaxBatch
  BY <1>1, ServingAssumption DEF TakenOf
<1>3. took \in SUBSET Reqs /\ Cardinality(took) \in 1 .. MaxBatch
  BY <1>1, <1>2, TakenCount
<1>4. b \in Runs
  BY <1>3 DEF Runs
<1>5. rest \in Seq(Reqs)
  BY <1>1, <1>2
<1>6. /\ queue' = [queue EXCEPT ![n] = rest]
      /\ armed' = [armed EXCEPT ![n] = queue'[n] # <<>>]
      /\ \/ Live(n) /\ sent' = [sent EXCEPT ![n] = @ \cup {b}] /\ fut' = fut
         \/ ~Live(n) /\ fut' = Settle(took, "failed") /\ sent' = sent
      /\ UNCHANGED <<vars, req, span, cache>>
  BY DEF RunWindow
<1>7. \A r : /\ FewerRows(rest, queue[n], r)
             /\ r \in took => /\ HasRow(queue[n], r)
                              /\ OneRow(queue[n], r) => ~HasRow(rest, r)
  <2>1. k \in 0 .. Len(queue[n])
    BY <1>1, <1>2
  <2> HIDE DEF k
  <2> QED
    BY <1>1, <2>1, RowsTaken
<1>8. b.rows = took /\ b.st = "pacing"
  OBVIOUS
<1> HIDE DEF k, took, rest, b
<1>9. BatchingSound'
  <2>1. queue' \in [Nodes -> Seq(Reqs)] /\ queue'[n] = rest
    BY <1>5, <1>6, Typed
  <2>2. armed' \in [Nodes -> BOOLEAN]
    BY <1>6, Typed
  <2>3. sent' \in [Nodes -> SUBSET Runs]
    BY <1>4, <1>6, Typed
  <2>4. \A m \in Nodes : armed'[m] <=> queue'[m] # <<>>
    BY <1>6, <2>1, Typed DEF ServingInv, BatchingSound
  <2> QED
    BY <2>1, <2>2, <2>3, <2>4 DEF BatchingSound
<1>10. /\ RequestsSound'
       /\ \A r \in Reqs :
            /\ Idles(req'[r], fut'[r]) => Idles(req[r], fut[r])
            /\ Pends(req'[r], fut'[r]) => Pends(req[r], fut[r]) /\ req'[r].x = req[r].x
  BY <1>6, Failing DEF ServingInv
<1>11. UNCHANGED <<toNode, toHub>> /\ FramesOurs'
  BY <1>6 DEF ServingInv, FramesOurs, vars, netVars
<1>12. BooksKept'
  BY <1>6, BooksSame DEF ServingInv, vars
<1>13. \A m \in Nodes : \A r : FewerRows(queue'[m], queue[m], r)
  BY <1>6, <1>7, Typed DEF FewerRows
<1>14. ASSUME NEW r \in Reqs
       PROVE  Copies(r)'
  <2>1. CASE ~Live(n) \/ r \notin took
    <3>1. \A m \in Nodes : Holders(sent'[m], r) = Holders(sent[m], r)
      BY <1>6, <1>8, <2>1, Typed DEF Holders
    <3>2. Lessens(r)
      BY <1>11, <1>13, <3>1, FewerSame DEF Lessens, FewerRuns, OneHolder
    <3> QED
      BY <1>10, <3>2, CopiesLessen DEF ServingInv
  <2>2. CASE Live(n) /\ r \in took
    <3>1. HasRow(queue[n], r)
      BY <1>7, <2>2
    <3>2. ~Idles(req[r], fut[r])
      BY <3>1, NoSites DEF ServingInv, Copies
    <3>3. CASE ~Pends(req'[r], fut'[r])
      BY <1>10, <3>2, <3>3, Forgotten
    <3>4. CASE Pends(req'[r], fut'[r])
      <4>1. Unique(r)
        BY <1>10, <3>4 DEF ServingInv, Copies
      <4>2. ~HasRow(rest, r)
        BY <1>7, <2>2, <4>1 DEF Unique
      <4>3. ASSUME NEW m \in Nodes
            PROVE  /\ ~Has(toNode'[m], r) /\ ~HasRow(queue'[m], r)
                   /\ Holders(sent[m], r) = {}
                   /\ \A d \in Conns : ~Has(toHub'[m][d], r)
        <5>1. queue'[m] = IF m = n THEN rest ELSE queue[m]
          BY <1>6, Typed
        <5>2. /\ ~Has(toNode[m], r) /\ Holders(sent[m], r) = {}
              /\ m # n => ~HasRow(queue[m], r)
              /\ \A d \in Conns : ~Has(toHub[m][d], r)
          BY <3>1, <4>1, OnlyQueued
        <5> QED
          BY <1>11, <4>2, <5>1, <5>2
      <4>4. ~Idles(req'[r], fut'[r])
        BY <1>10, <3>2
      <4> QED
        BY <1>6, <2>2, <4>3, <4>4, Typed, CopyTaken
    <3> QED
      BY <3>3, <3>4
  <2> QED
    BY <2>1, <2>2
<1> QED
  BY <1>6, <1>9, <1>10, <1>11, <1>12, <1>14, Typed, StepKeeps
     DEF ServingInv, vars, netVars

\* Runners that hold r only where some did before.
LEMMA FewerHolders ==
  ASSUME NEW B, NEW C, NEW r, Holders(B, r) \subseteq Holders(C, r)
  PROVE  FewerRuns(B, C, r)
BY DEF FewerRuns, OneHolder

\* The pace of n's runner is over.
LEMMA SendBatchKeeps ==
  ASSUME ServingInv, NEW n \in Nodes, SendBatch(n)
  PROVE  ServingInv'
<1>1. PICK b \in sent[n] :
        /\ b.st = "pacing"
        /\ IF Bound(n) THEN SendTo(n, Fwd("fwd_batch", b.rows)) ELSE UNCHANGED toNode
        /\ IF Bound(n) /\ ~b.dead
           THEN /\ sent' = [sent EXCEPT ![n] = (@ \ {b}) \cup
                              {[b EXCEPT !.st = "waiting"]}]
                /\ UNCHANGED fut
           ELSE /\ sent' = [sent EXCEPT ![n] = @ \ {b}]
                /\ fut' = Settle(b.rows, "failed")
        /\ UNCHANGED <<recordVars, applyVars, inflight, nodeVars, toHub, open,
                       faults, req, span, queue, armed, cache>>
  BY DEF SendBatch
<1> DEFINE f == Fwd("fwd_batch", b.rows)
           w == [b EXCEPT !.st = "waiting"]
<1>2. b \in Runs /\ w \in Runs /\ w.st = "waiting" /\ b.rows \in SUBSET Reqs
  <2>1. b \in Runs
    BY Typed
  <2> QED
    BY <2>1 DEF Runs
<1>3. f \in Traffic /\ f \in ToNodeFrames
  <2>1. [r \in b.rows |-> req[r].x] \in [b.rows -> Acts]
    BY <1>2, Typed DEF Requests
  <2> QED
    BY <1>2, <2>1, RowsTravel DEF Fwd, FwdKinds
<1>4. \A r : /\ r \in b.rows => f.x[r] = req[r].x
             /\ r \notin b.rows => ~Carries(f, r)
  BY DEF Fwd, Carries
<1>5. IF Bound(n) THEN toNode' = Sent(n, ws[n], f) ELSE toNode' = toNode
  BY <1>1 DEF SendTo
<1> HIDE DEF f, w
<1>6. \/ /\ sent' = [sent EXCEPT ![n] = (@ \ {b}) \cup {w}]
         /\ fut' = fut
      \/ /\ sent' = [sent EXCEPT ![n] = @ \ {b}]
         /\ fut' = Settle(b.rows, "failed")
  BY <1>1 DEF w
<1>7. /\ sent' \in [Nodes -> SUBSET Runs]
      /\ \A m \in Nodes : \A r : Holders(sent'[m], r) \subseteq Holders(sent[m], r)
      /\ \A r : Holders(sent'[n], r) \subseteq Holders(sent[n], r) \ {b}
  <2>1. sent' \in [Nodes -> SUBSET Runs]
    <3>1. (sent[n] \ {b}) \cup {w} \in SUBSET Runs /\ sent[n] \ {b} \in SUBSET Runs
      BY <1>2, Typed
    <3> QED
      BY <1>6, <3>1, Typed
  <2>2. \A m \in Nodes \ {n} : sent'[m] = sent[m]
    BY <1>6, Typed
  <2>3. sent'[n] \subseteq (sent[n] \ {b}) \cup {w}
    BY <1>6, Typed
  <2> QED
    BY <1>2, <2>1, <2>2, <2>3 DEF Holders
<1>8. BatchingSound'
  BY <1>1, <1>7 DEF ServingInv, BatchingSound
<1>9. /\ RequestsSound'
      /\ \A r \in Reqs :
           /\ Idles(req'[r], fut'[r]) => Idles(req[r], fut[r])
           /\ Pends(req'[r], fut'[r]) => Pends(req[r], fut[r]) /\ req'[r].x = req[r].x
  BY <1>1, <1>6, Failing DEF ServingInv
<1>10. \A m \in Nodes : /\ toNode[m] \in Seq(ToNodeFrames)
                        /\ toNode'[m] \in {toNode[m], Append(toNode[m], f)}
  BY <1>5, Typed DEF Sent
<1>11. toNode' \in [Nodes -> Seq(ToNodeFrames)]
  <2>1. Append(toNode[n], f) \in Seq(ToNodeFrames)
    BY <1>3, <1>10, AppendProperties
  <2> QED
    BY <1>5, <2>1, Typed DEF Sent
<1>12. FramesOurs'
  <2>1. ASSUME NEW m \in Nodes
        PROVE  Ours(toNode'[m])
    <3>1. Ours(toNode[m])
      BY DEF ServingInv, FramesOurs
    <3>2. Ours(Append(toNode[m], f))
      BY <1>3, <1>10, <3>1, OursAppend
    <3> QED
      BY <1>10, <3>1, <3>2
  <2> QED
    BY <1>1, <2>1 DEF ServingInv, FramesOurs
<1>13. BooksKept'
  BY <1>1, BooksSame DEF ServingInv
<1>14. ASSUME NEW r \in Reqs
       PROVE  Copies(r)'
  <2>1. \A m \in Nodes : FewerRuns(sent'[m], sent[m], r)
    BY <1>7, FewerHolders
  <2>2. CASE ~Bound(n) \/ r \notin b.rows
    <3>1. ASSUME NEW m \in Nodes
          PROVE  Fewer(toNode'[m], toNode[m], r)
      <4>1. CASE toNode'[m] = toNode[m]
        BY <4>1, FewerSame
      <4>2. CASE toNode'[m] # toNode[m]
        <5>1. r \notin b.rows
          BY <1>5, <2>2, <4>2
        <5>2. Fewer(Append(toNode[m], f), toNode[m], r)
          BY <1>4, <1>10, <5>1, FewerAppend
        <5> QED
          BY <1>10, <4>2, <5>2
      <4> QED
        BY <4>1, <4>2
    <3>2. Lessens(r)
      BY <1>1, <2>1, <3>1, FewerSame DEF Lessens, FewerRows
    <3> QED
      BY <1>9, <3>2, CopiesLessen DEF ServingInv
  <2>3. CASE Bound(n) /\ r \in b.rows
    <3>1. b \in Holders(sent[n], r)
      BY <1>1, <2>3 DEF Holders
    <3>2. ~Idles(req[r], fut[r])
      BY <3>1, NoSites DEF ServingInv, Copies
    <3>3. CASE ~Pends(req'[r], fut'[r])
      BY <1>9, <3>2, <3>3, Forgotten
    <3>4. CASE Pends(req'[r], fut'[r])
      <4>1. Unique(r) /\ req'[r].x = req[r].x
        BY <1>9, <3>4 DEF ServingInv, Copies
      <4>2. Holders(sent'[n], r) = {}
        BY <1>7, <3>1, <4>1 DEF Unique, OneHolder
      <4>3. ASSUME NEW m \in Nodes
            PROVE  /\ ~Has(toNode[m], r) /\ ~HasRow(queue'[m], r)
                   /\ Holders(sent'[m], r) = {}
                   /\ \A d \in Conns : ~Has(toHub'[m][d], r)
        <5>1. /\ ~Has(toNode[m], r) /\ ~HasRow(queue[m], r)
              /\ m # n => Holders(sent[m], r) = {}
              /\ \A d \in Conns : ~Has(toHub[m][d], r)
          BY <3>1, <4>1, OnlyRun
        <5>2. Holders(sent'[m], r) = {}
          BY <1>7, <4>2, <5>1
        <5> QED
          BY <1>1, <5>1, <5>2
      <4>4. ~Idles(req'[r], fut'[r])
        BY <1>9, <3>2
      <4>5. f.x[r] = req'[r].x /\ toNode' = Sent(n, ws[n], f)
        BY <1>4, <1>5, <2>3, <4>1
      <4> QED
        BY <4>3, <4>4, <4>5, Typed, CopySent
    <3> QED
      BY <3>3, <3>4
  <2> QED
    BY <2>2, <2>3
<1> QED
  BY <1>1, <1>8, <1>9, <1>11, <1>12, <1>13, <1>14, Typed, StepKeeps DEF ServingInv

\* n does not answer in time.
LEMMA BatchTimeoutKeeps ==
  ASSUME ServingInv, NEW n \in Nodes, BatchTimeout(n)
  PROVE  ServingInv'
<1>1. PICK b \in sent[n] :
        /\ sent' = [sent EXCEPT ![n] = @ \ {b}]
        /\ fut' = Settle(b.rows, "failed")
        /\ IF UnderWay(n) THEN Fault ELSE UNCHANGED faults
        /\ UNCHANGED <<recordVars, applyVars, inflight, nodeVars, netVars, req,
                       span, queue, armed, cache>>
  BY DEF BatchTimeout
<1>2. faults' \in 0 .. MaxFaults
  BY <1>1, Typed, FaultTyped DEF ServingInv, TypeInv
<1>3. \A m \in Nodes : sent'[m] \subseteq sent[m]
  BY <1>1, Typed
<1>4. sent' \in [Nodes -> SUBSET Runs]
  BY <1>1, Typed
<1>5. BatchingSound' /\ FramesOurs'
  BY <1>1, <1>4 DEF ServingInv, BatchingSound, FramesOurs, netVars
<1>6. /\ RequestsSound'
      /\ \A r \in Reqs :
           /\ Idles(req'[r], fut'[r]) => Idles(req[r], fut[r])
           /\ Pends(req'[r], fut'[r]) => Pends(req[r], fut[r]) /\ req'[r].x = req[r].x
  BY <1>1, Failing DEF ServingInv
<1>7. BooksKept'
  BY <1>1, BooksSame DEF ServingInv
<1>8. ASSUME NEW r \in Reqs
      PROVE  Copies(r)'
  <2>1. \A m \in Nodes : Holders(sent'[m], r) \subseteq Holders(sent[m], r)
    BY <1>3 DEF Holders
  <2>2. Lessens(r)
    BY <1>1, <2>1, FewerHolders, FewerSame DEF Lessens, FewerRows, netVars
  <2> QED
    BY <1>6, <2>2, CopiesLessen DEF ServingInv
<1> QED
  BY <1>1, <1>2, <1>5, <1>6, <1>7, <1>8, Typed, StepKeeps DEF ServingInv, netVars

-----------------------------------------------------------------------------
(***************************************************************************)
(* Forwards at the node and answers at the hub.                            *)
(***************************************************************************)

\* The shard turns an activation into one of the same pass and hop.
LEMMA AppliedTyped ==
  ASSUME ServingInv, NEW n \in Nodes, NEW r \in Reqs, NEW x \in Acts
  PROVE  /\ Applied(n, r, x) \in Acts
         /\ Applied(n, r, x).pass = x.pass /\ Applied(n, r, x).at = x.at
<1>1. shard[n] \in Ranges \cup {NoRange}
  BY DEF ServingInv, TypeInv, TypeOK, NodesTyped
<1>2. shard[n][2] \in 0 .. Astray /\ Astray \in 0 .. Astray
  BY <1>1, NLayersAssumption DEF Ranges, NoRange, Astray
<1> DEFINE u == IF shard[n][1] = x.upto THEN shard[n][2] ELSE Astray
           w == x.whole /\ cache[n][r] = x.pass
<1>3. u \in 0 .. Astray /\ w \in BOOLEAN
  BY <1>2 DEF Acts
<1>4. Applied(n, r, x) = [x EXCEPT !.upto = u, !.whole = w]
  BY DEF Applied
<1> HIDE DEF u, w
<1> QED
  BY <1>3, <1>4 DEF Acts

\* A node runs a forward, or says that it has nothing loaded.
LEMMA ForwardKeeps ==
  ASSUME ServingInv, NEW n \in Nodes, Forward(n)
  PROVE  ServingInv'
<1> DEFINE f    == Head(toNode[n])
           S    == DOMAIN f.x
           kind == IF f.t = "fwd" THEN "fwd_out" ELSE "fwd_batch_out"
           y    == [r \in S |-> Applied(n, r, f.x[r])]
<1>1. toNode[n] \in Seq(ToNodeFrames) /\ toNode[n] # <<>> /\ f.t \in {"fwd", "fwd_batch"}
  BY Typed DEF Forward, NodeHears
<1>2. f \in Traffic
  <2>1. 1 \in DOMAIN toNode[n] /\ f = toNode[n][1]
    BY <1>1
  <2> QED
    BY <1>1, <2>1 DEF ServingInv, FramesOurs, Ours, ServingKinds, FwdKinds
<1>3. S \in SUBSET Reqs /\ f.x \in [S -> Acts]
  BY <1>1, <1>2, FrameRows DEF FwdKinds
<1>4. kind \in FwdKinds
  BY DEF FwdKinds
<1>5. \/ Says(n, [t |-> kind, x |-> f.x, ok |-> FALSE]) /\ UNCHANGED cache
      \/ /\ Says(n, [t |-> kind, x |-> y, ok |-> TRUE])
         /\ cache' = [cache EXCEPT ![n] =
                        [r \in Reqs |-> IF r \in S THEN @[r] + 1 ELSE @[r]]]
  BY DEF Forward
<1>6. /\ toNode' = [toNode EXCEPT ![n] = Tail(@)]
      /\ UNCHANGED <<recordVars, applyVars, inflight, nodeVars, open, faults, req,
                     span, fut, queue, armed, sent>>
  BY DEF Forward
<1> HIDE DEF f, kind
<1>7. PICK x \in [S -> Acts], ok \in BOOLEAN :
        /\ Says(n, [t |-> kind, x |-> x, ok |-> ok])
        /\ \A r \in S : x[r].pass = f.x[r].pass /\ x[r].at = f.x[r].at
  <2>1. \A r \in S : /\ Applied(n, r, f.x[r]) \in Acts
                     /\ Applied(n, r, f.x[r]).pass = f.x[r].pass
                     /\ Applied(n, r, f.x[r]).at = f.x[r].at
    BY <1>3, AppliedTyped
  <2>2. y \in [S -> Acts] /\ \A r \in S : y[r] = Applied(n, r, f.x[r])
    BY <2>1
  <2> HIDE DEF S, y
  <2>3. CASE Says(n, [t |-> kind, x |-> f.x, ok |-> FALSE])
    BY <1>3, <2>3
  <2>4. CASE Says(n, [t |-> kind, x |-> y, ok |-> TRUE])
    BY <2>1, <2>2, <2>4
  <2> QED
    BY <1>5, <2>3, <2>4
<1> DEFINE g == [t |-> kind, x |-> x, ok |-> ok]
<1>8. g \in Traffic /\ g \in ToHubFrames
  BY <1>3, <1>4, <1>7, RowsTravel
<1>9. /\ Says(n, g) /\ g.x = x
      /\ \A r : Carries(g, r) <=> r \in S
      /\ \A r : Carries(f, r) <=> r \in S
  BY <1>1, <1>4, <1>7 DEF Carries, FwdKinds
<1> HIDE DEF S, y, g
<1>10. cache' \in [Nodes -> [Reqs -> Nat]]
  <2>1. cache \in [Nodes -> [Reqs -> Nat]]
    BY DEF ServingInv
  <2>2. [r \in Reqs |-> IF r \in S THEN cache[n][r] + 1 ELSE cache[n][r]] \in [Reqs -> Nat]
    BY <2>1
  <2> QED
    BY <1>5, <2>1, <2>2
<1>11. NetTyped /\ toHub' \in [Nodes -> [Conns -> Seq(ToHubFrames)]]
  BY <1>8, <1>9, SaysTyped DEF ServingInv, TypeInv, TypeOK
<1>12. NodeQueuesThin /\ toNode' \in [Nodes -> Seq(ToNodeFrames)]
  <2>1. Tail(toNode[n]) \in Seq(ToNodeFrames)
    BY <1>1
  <2> QED
    BY <1>1, <1>6, <1>11, <2>1, NodeTail, Typed
<1>13. \A m \in Nodes, c \in Conns :
         /\ toHub[m][c] \in Seq(ToHubFrames)
         /\ toHub'[m][c] \in {toHub[m][c], Append(toHub[m][c], g)}
  BY <1>9, Typed DEF Says
<1>14. FramesOurs'
  <2>1. ASSUME NEW m \in Nodes, NEW c \in Conns
        PROVE  Ours(toHub'[m][c])
    <3>1. Ours(toHub[m][c])
      BY DEF ServingInv, FramesOurs
    <3>2. Ours(Append(toHub[m][c], g))
      BY <1>8, <1>13, <3>1, OursAppend
    <3> QED
      BY <1>13, <3>1, <3>2
  <2>2. \A m \in Nodes : Ours(toNode'[m])
    BY <1>12, OursThin DEF ServingInv, FramesOurs, NodeQueuesThin
  <2> QED
    BY <2>1, <2>2 DEF FramesOurs
<1>15. RequestsSound' /\ BatchingSound'
  BY <1>6 DEF ServingInv, RequestsSound, BatchingSound
<1>16. BooksKept'
  BY <1>6, BooksSame DEF ServingInv
<1>17. ASSUME NEW r \in Reqs
       PROVE  Copies(r)'
  <2>1. CASE r \notin S
    <3>1. ASSUME NEW m \in Nodes, NEW c \in Conns
          PROVE  Fewer(toHub'[m][c], toHub[m][c], r)
      <4>1. Fewer(Append(toHub[m][c], g), toHub[m][c], r)
        BY <1>9, <1>13, <2>1, FewerAppend
      <4> QED
        BY <1>13, <4>1, FewerSame
    <3>2. Lessens(r)
      BY <1>6, <1>12, <3>1, ThinFewer DEF Lessens, NodeQueuesThin, FewerRows, FewerRuns
    <3> QED
      BY <1>6, <3>2, CopiesLessen DEF ServingInv
  <2>2. CASE r \in S
    <3>1. Has(toNode[n], r)
      BY <1>1, <1>9, <2>2 DEF Has, f
    <3>2. ~Idles(req[r], fut[r])
      BY <3>1, NoSites DEF ServingInv, Copies
    <3>3. CASE ~Pends(req[r], fut[r])
      BY <1>6, <3>2, <3>3, Forgotten
    <3>4. CASE Pends(req[r], fut[r])
      <4>1. Unique(r) /\ Match(r)
        BY <3>4 DEF ServingInv, Copies
      <4>2. ~Has(Tail(toNode[n]), r)
        BY <1>1, <1>9, <2>2, <4>1, OneRead DEF Unique, f
      <4>3. f.x[r] = req[r].x
        BY <1>1, <1>9, <2>2, <4>1 DEF Match, f
      <4>4. x[r].pass = req'[r].x.pass /\ x[r].at = req'[r].x.at
        BY <1>6, <1>7, <2>2, <4>3
      <4>5. ASSUME NEW m \in Nodes
            PROVE  /\ ~Has(toNode'[m], r) /\ ~HasRow(queue'[m], r)
                   /\ Holders(sent'[m], r) = {}
                   /\ \A d \in Conns : ~Has(toHub[m][d], r)
        <5>1. /\ m # n => ~Has(toNode[m], r)
              /\ ~HasRow(queue[m], r) /\ Holders(sent[m], r) = {}
              /\ \A c \in Conns : ~Has(toHub[m][c], r)
          BY <3>1, <4>1, OnlyToNode
        <5>2. toNode'[m] = IF m = n THEN Tail(toNode[n]) ELSE toNode[m]
          BY <1>6, Typed
        <5> QED
          BY <1>6, <4>2, <5>1, <5>2
      <4>6. ~Idles(req'[r], fut'[r])
        BY <1>6, <3>2
      <4> QED
        BY <1>9, <4>4, <4>5, <4>6, Typed, CopySaid
    <3> QED
      BY <3>3, <3>4
  <2> QED
    BY <2>1, <2>2
<1> QED
  BY <1>6, <1>10, <1>11, <1>12, <1>14, <1>15, <1>16, <1>17, Typed, StepKeeps
     DEF ServingInv

\* A node drops the cache of a request.
LEMMA ResetKeeps ==
  ASSUME ServingInv, NEW n \in Nodes, Reset(n)
  PROVE  ServingInv'
<1>1. toNode[n] \in Seq(ToNodeFrames) /\ toNode[n] # <<>>
  BY Typed DEF Reset, NodeHears
<1>2. /\ toNode' = [toNode EXCEPT ![n] = Tail(@)]
      /\ cache' = [cache EXCEPT ![n][Head(toNode[n]).req] = 0]
      /\ UNCHANGED <<recordVars, applyVars, inflight, nodeVars, toHub, open,
                     faults, req, span, fut, queue, armed, sent>>
  BY DEF Reset
<1>3. cache' \in [Nodes -> [Reqs -> Nat]]
  <2>1. cache \in [Nodes -> [Reqs -> Nat]]
    BY DEF ServingInv
  <2>2. [cache[n] EXCEPT ![Head(toNode[n]).req] = 0] \in [Reqs -> Nat]
    BY <2>1
  <2>3. cache' = [cache EXCEPT ![n] = [cache[n] EXCEPT ![Head(toNode[n]).req] = 0]]
    BY <1>2
  <2> QED
    BY <2>1, <2>2, <2>3
<1>4. NodeQueuesThin /\ toNode' \in [Nodes -> Seq(ToNodeFrames)]
  <2>1. Tail(toNode[n]) \in Seq(ToNodeFrames)
    BY <1>1
  <2>2. NetTyped
    BY DEF ServingInv, TypeInv, TypeOK
  <2> QED
    BY <1>1, <1>2, <2>1, <2>2, NodeTail, Typed
<1>5. FramesOurs'
  BY <1>2, <1>4, OursThin DEF ServingInv, FramesOurs, NodeQueuesThin
<1>6. RequestsSound' /\ BatchingSound'
  BY <1>2 DEF ServingInv, RequestsSound, BatchingSound
<1>7. BooksKept'
  BY <1>2, BooksSame DEF ServingInv
<1>8. ASSUME NEW r \in Reqs
      PROVE  Copies(r)'
  <2>1. Lessens(r)
    BY <1>2, <1>4, ThinFewer, FewerSame DEF Lessens, NodeQueuesThin, FewerRows, FewerRuns
  <2> QED
    BY <1>2, <2>1, CopiesLessen DEF ServingInv
<1> QED
  BY <1>2, <1>3, <1>4, <1>5, <1>6, <1>7, <1>8, Typed, StepKeeps DEF ServingInv

\* The last copy of r is gone.
LEMMA CopyGone ==
  ASSUME NEW r \in Reqs,
         \A m \in Nodes : /\ ~Has(toNode'[m], r) /\ ~HasRow(queue'[m], r)
                          /\ Holders(sent'[m], r) = {}
                          /\ \A d \in Conns : ~Has(toHub'[m][d], r)
  PROVE  Copies(r)'
<1>1. Sites(r)' = {}
  <2> SUFFICES ASSUME NEW s \in Sites(r)' PROVE FALSE
    OBVIOUS
  <2>1. s \in Places
    BY DEF Sites
  <2>2. s[2] \in Nodes /\ s[3] \in Conns
    BY <2>1 DEF Places
  <2> QED
    BY <2>1, <2>2 DEF Sites
<1>2. \A m \in Nodes :
        /\ Single(toNode'[m], r) /\ OneRow(queue'[m], r) /\ OneHolder(sent'[m], r)
        /\ \A d \in Conns : Single(toHub'[m][d], r)
  BY DEF Has, HasRow, Single, OneRow, OneHolder
<1>3. Match(r)'
  BY DEF Match, Has
<1> QED
  BY <1>1, <1>2, <1>3 DEF Copies, Unique

\* What the answer at the head of a connection does to the futures and to the
\* requests: those it resolves are on the hop it was asked for.
LEMMA AnswerEffect ==
  ASSUME ServingInv, NEW n \in Nodes, NEW c \in Conns, HubForwarded(n, c)
  PROVE  LET f == Head(toHub[n][c]) IN
         /\ toHub[n][c] # <<>> /\ f.t \in FwdKinds
         /\ fut' \in [Reqs -> Futures] /\ req' \in [Reqs -> Requests]
         /\ \A r \in Reqs :
              \/ req'[r] = req[r] /\ fut'[r] = fut[r]
              \/ /\ Carries(f, r) /\ Pends(req[r], fut[r]) /\ Unique(r)
                 /\ fut'[r] \in {"ok", "failed"}
                 /\ \E x \in Acts : /\ req'[r] = [req[r] EXCEPT !.x = x]
                                    /\ x.pass = req[r].x.pass /\ x.at = req[r].x.at
<1> DEFINE f == Head(toHub[n][c])
           B == {b \in sent[n] : b.st = "waiting" /\ b.rows = DOMAIN f.x}
           S == IF f.t = "fwd_out" THEN {r \in DOMAIN f.x : Keyed(r, f)}
                ELSE UNION {b.rows : b \in B}
           v == IF f.ok THEN "ok" ELSE "failed"
           awaited == {r \in S : fut[r] = "open"}
<1>1. /\ toHub[n][c] \in Seq(ToHubFrames) /\ toHub[n][c] # <<>>
      /\ f.t \in {"fwd_out", "fwd_batch_out"}
  BY Typed DEF HubForwarded, Hears
<1>2. 1 \in DOMAIN toHub[n][c] /\ f = toHub[n][c][1]
  BY <1>1
<1>3. f \in Traffic /\ f.t \in FwdKinds
  BY <1>1, <1>2 DEF ServingInv, FramesOurs, Ours, ServingKinds, FwdKinds
<1>4. f.x \in [DOMAIN f.x -> Acts] /\ DOMAIN f.x \in SUBSET Reqs /\ f.ok \in BOOLEAN
  BY <1>3, FrameRows
<1>5. S \subseteq DOMAIN f.x
  OBVIOUS
<1>6. /\ fut' = Settle(S, v)
      /\ req' = [r \in Reqs |-> IF f.ok /\ r \in awaited
                                THEN [req[r] EXCEPT !.x = f.x[r]] ELSE req[r]]
  BY DEF HubForwarded
<1> HIDE DEF f, S
<1>7. v \in {"ok", "failed"}
  OBVIOUS
<1> HIDE DEF v
<1>8. ASSUME NEW r \in Reqs
      PROVE  \/ req'[r] = req[r] /\ fut'[r] = fut[r]
             \/ /\ Carries(f, r) /\ Pends(req[r], fut[r]) /\ Unique(r)
                /\ fut'[r] \in {"ok", "failed"}
                /\ \E x \in Acts : /\ req'[r] = [req[r] EXCEPT !.x = x]
                                   /\ x.pass = req[r].x.pass /\ x.at = req[r].x.at
  <2>1. CASE ~(r \in S /\ fut[r] = "open")
    <3>1. fut'[r] = fut[r]
      BY <1>6, <2>1 DEF Settle
    <3>2. req'[r] = req[r]
      BY <1>6, <2>1
    <3> QED
      BY <3>1, <3>2
  <2>2. CASE r \in S /\ fut[r] = "open"
    <3>1. Carries(f, r) /\ f.x[r] \in Acts
      BY <1>3, <1>4, <1>5, <2>2 DEF Carries
    <3>2. Has(toHub[n][c], r)
      BY <1>2, <3>1 DEF Has
    <3>3. ~Idles(req[r], fut[r])
      BY <3>2, NoSites DEF ServingInv, Copies
    <3>4. Pends(req[r], fut[r])
      BY <2>2, <3>3 DEF ServingInv, RequestsSound, Sound, Hopping, Idles, Pends
    <3>5. Unique(r) /\ Match(r)
      BY <3>4 DEF ServingInv, Copies
    <3>6. f.x[r].pass = req[r].x.pass /\ f.x[r].at = req[r].x.at
      BY <1>2, <3>1, <3>5 DEF Match
    <3>7. fut'[r] = v
      BY <1>6, <2>2 DEF Settle
    <3>8. req[r] \in Requests
      BY Typed
    <3>9. req[r] = [req[r] EXCEPT !.x = req[r].x] /\ req[r].x \in Acts
      BY <3>8 DEF Requests
    <3>10. req'[r] = req[r] \/ req'[r] = [req[r] EXCEPT !.x = f.x[r]]
      BY <1>6
    <3> QED
      BY <1>7, <3>1, <3>4, <3>5, <3>6, <3>7, <3>9, <3>10
  <2> QED
    BY <2>1, <2>2
<1>9. fut' \in [Reqs -> Futures]
  <2>1. \A r \in Reqs : fut'[r] \in Futures
    BY <1>6, <1>7, Typed DEF Settle, Futures
  <2>2. fut' = [r \in Reqs |-> fut'[r]]
    BY <1>6 DEF Settle
  <2> QED
    BY <2>1, <2>2
<1>10. req' \in [Reqs -> Requests]
  <2>1. ASSUME NEW r \in Reqs
        PROVE  req'[r] \in Requests
    <3>1. req[r] \in Requests
      BY Typed
    <3>2. \A x \in Acts : [req[r] EXCEPT !.x = x] \in Requests
      BY <3>1 DEF Requests
    <3>3. req'[r] = req[r] \/ \E x \in Acts : req'[r] = [req[r] EXCEPT !.x = x]
      BY <1>8
    <3> QED
      BY <3>1, <3>2, <3>3
  <2>2. req' = [r \in Reqs |-> req'[r]]
    BY <1>6
  <2> QED
    BY <2>1, <2>2
<1> QED
  BY <1>1, <1>3, <1>8, <1>9, <1>10 DEF f

\* An answer resolves the future of its key.
LEMMA HubForwardedKeeps ==
  ASSUME ServingInv, NEW n \in Nodes, NEW c \in Conns, HubForwarded(n, c)
  PROVE  ServingInv'
<1> DEFINE f == Head(toHub[n][c])
<1>1. /\ toHub[n][c] # <<>> /\ f.t \in FwdKinds
      /\ fut' \in [Reqs -> Futures] /\ req' \in [Reqs -> Requests]
      /\ \A r \in Reqs :
           \/ req'[r] = req[r] /\ fut'[r] = fut[r]
           \/ /\ Carries(f, r) /\ Pends(req[r], fut[r]) /\ Unique(r)
              /\ fut'[r] \in {"ok", "failed"}
              /\ \E x \in Acts : /\ req'[r] = [req[r] EXCEPT !.x = x]
                                 /\ x.pass = req[r].x.pass /\ x.at = req[r].x.at
  BY AnswerEffect
<1>2. /\ Hears(n, c, f.t) /\ Take(n, c)
      /\ UNCHANGED <<recordVars, applyVars, inflight, nodeVars, toNode, open,
                     faults, span, queue, armed, cache>>
  BY DEF HubForwarded, Hears
<1>3. /\ \A m \in Nodes : sent'[m] \subseteq sent[m]
      /\ sent' \in [Nodes -> SUBSET Runs]
  <2>1. PICK B : sent' = sent \/ sent' = [sent EXCEPT ![n] = @ \ B]
    BY DEF HubForwarded
  <2> QED
    BY <2>1, Typed
<1>4. NetTyped /\ toHub[n][c] \in Seq(ToHubFrames)
  BY Typed DEF ServingInv, TypeInv, TypeOK
<1> HIDE DEF f
<1>5. toHub' \in [Nodes -> [Conns -> Seq(ToHubFrames)]] /\ HubQueuesThin
  BY <1>2, <1>4, TakeTyped, HubTaken
<1>6. BatchingSound'
  BY <1>2, <1>3 DEF ServingInv, BatchingSound
<1>7. FramesOurs'
  BY <1>2, <1>5, OursThin DEF ServingInv, FramesOurs, HubQueuesThin
<1>8. ASSUME NEW r \in Reqs
      PROVE  req'[r].st = req[r].st /\ req'[r].pipe = req[r].pipe
  <2>1. req'[r] = req[r] \/ \E x \in Acts : req'[r] = [req[r] EXCEPT !.x = x]
    BY <1>1
  <2>2. req[r] \in Requests
    BY Typed
  <2> QED
    BY <2>1, <2>2 DEF Requests
<1>9. BooksKept'
  BY <1>2, <1>8, BooksSame DEF ServingInv
<1>10. RequestsSound'
  <2>1. ASSUME NEW r \in Reqs
        PROVE  Sound(req'[r], fut'[r])
    <3>1. Sound(req[r], fut[r]) /\ req[r] \in Requests
      BY Typed DEF ServingInv, RequestsSound
    <3>2. CASE req'[r] = req[r] /\ fut'[r] = fut[r]
      BY <3>1, <3>2
    <3>3. CASE /\ Pends(req[r], fut[r]) /\ fut'[r] \in {"ok", "failed"}
               /\ \E x \in Acts : /\ req'[r] = [req[r] EXCEPT !.x = x]
                                  /\ x.pass = req[r].x.pass /\ x.at = req[r].x.at
      <4>1. req'[r].x.pass = req[r].x.pass /\ req'[r].x.at = req[r].x.at
        BY <3>1, <3>3 DEF Requests
      <4>2. req[r].st \in {"waiting", "queued"}
        BY <3>3 DEF Pends
      <4> QED
        BY <1>8, <3>1, <3>3, <4>1, <4>2 DEF Sound, Hopping
    <3> QED
      BY <1>1, <3>2, <3>3
  <2> QED
    BY <1>1, <2>1 DEF RequestsSound
<1>11. ASSUME NEW r \in Reqs
       PROVE  Copies(r)'
  <2>1. CASE req'[r] = req[r] /\ fut'[r] = fut[r]
    <3>1. \A m \in Nodes : FewerRuns(sent'[m], sent[m], r)
      BY <1>3, FewerHolders DEF Holders
    <3>2. Lessens(r)
      BY <1>2, <1>5, <3>1, ThinFewer, FewerSame DEF Lessens, HubQueuesThin, FewerRows
    <3> QED
      BY <2>1, <3>2, CopiesLessen DEF ServingInv
  <2>2. CASE Carries(f, r) /\ Unique(r)
    <3>1. Has(toHub[n][c], r) /\ ~Has(Tail(toHub[n][c]), r)
      BY <1>1, <1>4, <2>2, OneRead DEF Unique, f
    <3>2. ASSUME NEW m \in Nodes
          PROVE  /\ ~Has(toNode'[m], r) /\ ~HasRow(queue'[m], r)
                 /\ Holders(sent'[m], r) = {}
                 /\ \A d \in Conns : ~Has(toHub'[m][d], r)
      <4>1. /\ ~Has(toNode[m], r) /\ ~HasRow(queue[m], r) /\ Holders(sent[m], r) = {}
            /\ \A d \in Conns : m # n \/ d # c => ~Has(toHub[m][d], r)
        BY <2>2, <3>1, OnlyToHub
      <4>2. \A d \in Conns : toHub'[m][d] = IF m = n /\ d = c THEN Tail(toHub[n][c])
                                            ELSE toHub[m][d]
        BY <1>2, Typed DEF Take
      <4>3. Holders(sent'[m], r) = {}
        BY <1>3, <4>1 DEF Holders
      <4>4. \A d \in Conns : ~Has(toHub'[m][d], r)
        BY <3>1, <4>1, <4>2
      <4> QED
        BY <1>2, <4>1, <4>3, <4>4
    <3> QED
      BY <3>2, CopyGone
  <2> QED
    BY <1>1, <2>1, <2>2
<1> QED
  BY <1>2, <1>3, <1>5, <1>6, <1>7, <1>9, <1>10, <1>11, Typed, StepKeeps DEF ServingInv

-----------------------------------------------------------------------------
(***************************************************************************)
(* What a step of the rebalance does to requests.                          *)
(***************************************************************************)

\* A rebalance counts no request in or out.
LEMMA RebalancingUncounted ==
  ASSUME Rebalancing
  PROVE  inflight' = inflight
<1>1. ASSUME NEW n \in Nodes, NodeStep(n) \/ Drop(n) \/ FailLoad(n)
      PROVE  inflight' = inflight
  BY <1>1 DEF NodeStep, Connect, SeesClose, Disconnect, Receive, SkipAssign, KeepShard,
     StartLoad, FinishLoad, Prefetch, Drop, FailLoad
<1>2. ASSUME NEW n \in Nodes, NEW c \in Conns, HubHears(n, c)
      PROVE  inflight' = inflight
  BY <1>2 DEF HubHears, HubHello, HubReady, HubError, HubPrefetched, HandlerEnds
<1>3. ASSUME NEW n \in Nodes,
             StaleLeft(n) \/ HeartbeatLate(n) \/ Heartbeat(n) \/ Timeout(n)
      PROVE  inflight' = inflight
  BY <1>3 DEF StaleLeft, HeartbeatLate, Heartbeat, Timeout
<1>4. ASSUME ReplanApplies \/ ReplanParks \/ ManualReplan \/ ManualApplies
      PROVE  inflight' = inflight
  BY <1>4 DEF ReplanApplies, ReplanParks, ManualReplan, ManualApplies, StartApply
<1>5. ASSUME ApplyStep
      PROVE  inflight' = inflight
  BY <1>5 DEF ApplyStep, EndPrefetch, EndPrefetch2, Drained, EndSwitch, SwitchSend
<1> QED
  BY <1>1, <1>2, <1>3, <1>4, <1>5 DEF Rebalancing

\* A step of the rebalancing protocol keeps the invariant.
LEMMA DisturbKeeps ==
  ASSUME ServingInv, Rebalancing, Disturb
  PROVE  ServingInv'
<1>1. TypeInv'
  BY NextTyped DEF ServingInv, Next
<1>2. NodeQueuesThin /\ HubQueuesThin
  BY RebalancingThins DEF ServingInv
<1>3. UNCHANGED <<req, span, queue, armed>>
  BY DEF Disturb
<1>4. cache' \in [Nodes -> [Reqs -> Nat]]
  <2>1. EmptyCache \in [Reqs -> Nat]
    BY DEF EmptyCache
  <2> QED
    BY <2>1 DEF ServingInv, Disturb
<1>5. PICK S : fut' = Settle(S, "failed") \/ fut' = fut
  BY DEF Disturb
<1>6. /\ RequestsSound'
      /\ \A r \in Reqs :
           /\ Idles(req'[r], fut'[r]) => Idles(req[r], fut[r])
           /\ Pends(req'[r], fut'[r]) => Pends(req[r], fut[r]) /\ req'[r].x = req[r].x
  BY <1>3, <1>5, Failing DEF ServingInv
<1> DEFINE Dead(b) == [b EXCEPT !.dead = TRUE]
<1>7. \A b \in Runs : /\ Dead(b) \in Runs
                      /\ Dead(b).st = b.st /\ Dead(b).rows = b.rows
  BY DEF Runs
<1>8. \/ sent' = sent
      \/ sent' = [n \in Nodes |-> {Dead(b) : b \in {d \in sent[n] : d.st = "pacing"}}]
  BY DEF Disturb
<1> HIDE DEF Dead
<1>9. sent' \in [Nodes -> SUBSET Runs]
  BY <1>7, <1>8, Typed
<1>10. BatchingSound'
  BY <1>3, <1>9 DEF ServingInv, BatchingSound
<1>11. FramesOurs'
  BY <1>2, OursThin DEF ServingInv, FramesOurs, NodeQueuesThin, HubQueuesThin
<1>12. BooksKept'
  BY <1>3, RebalancingUncounted, BooksSame DEF ServingInv
<1>13. ASSUME NEW r \in Reqs
       PROVE  Copies(r)'
  <2>1. ASSUME NEW n \in Nodes
        PROVE  FewerRuns(sent'[n], sent[n], r)
    <3>1. CASE sent' = sent
      BY <3>1, FewerHolders
    <3>2. CASE sent'[n] = {Dead(b) : b \in {d \in sent[n] : d.st = "pacing"}}
      <4>1. \A b \in Holders(sent'[n], r) : \E d \in Holders(sent[n], r) : b = Dead(d)
        BY <1>7, <3>2, Typed DEF Holders
      <4> QED
        BY <4>1 DEF FewerRuns, OneHolder
    <3> QED
      BY <1>8, <3>1, <3>2
  <2>2. Lessens(r)
    BY <1>2, <1>3, <2>1, ThinFewer
       DEF Lessens, NodeQueuesThin, HubQueuesThin, FewerRows
  <2> QED
    BY <1>6, <2>2, CopiesLessen DEF ServingInv
<1> QED
  BY <1>1, <1>4, <1>6, <1>10, <1>11, <1>12, <1>13 DEF ServingInv

-----------------------------------------------------------------------------
(***************************************************************************)
(* The invariant and what follows from it.                                 *)
(***************************************************************************)

\* The invariant holds at the start.
LEMMA InitServes == Init /\ ServingInit => ServingInv
<1> SUFFICES ASSUME Init, ServingInit PROVE ServingInv
  OBVIOUS
<1>1. TypeInv
  BY InitTyped
<1>2. FirstAct \in Acts
  BY ServingAssumption, NLayersAssumption DEF FirstAct, Acts, Astray
<1>3. /\ req \in [Reqs -> Requests] /\ fut \in [Reqs -> Futures]
      /\ \A r \in Reqs : req[r].st = "new" /\ fut[r] = "none"
  BY <1>2, NoLayoutTyped DEF ServingInit, Requests, States, Futures
<1>4. RequestsSound
  BY <1>3 DEF RequestsSound, Sound, Waits, Hopping
<1>5. BatchingSound
  BY DEF ServingInit, BatchingSound
<1>6. \A n \in Nodes : toNode[n] = <<>> /\ \A c \in Conns : toHub[n][c] = <<>>
  BY DEF Init
<1>7. FramesOurs
  BY <1>6 DEF FramesOurs, Ours
<1>8. BooksKept
  <2>1. Running = {} /\ Called = {} /\ {r \in Reqs : req[r].st = "left"} = {}
    BY <1>3 DEF Running, Called
  <2>2. span \in [Reqs -> Spans] /\ {r \in Reqs : span[r] = "open"} = {}
    BY DEF ServingInit, Spans
  <2> QED
    BY <2>1, <2>2, FS_EmptySet DEF BooksKept, InflightCounts, Init
<1>9. cache \in [Nodes -> [Reqs -> Nat]]
  BY DEF ServingInit, EmptyCache
<1>10. ASSUME NEW r \in Reqs
       PROVE  Copies(r)
  <2>1. \A n \in Nodes : /\ ~Has(toNode[n], r) /\ ~HasRow(queue[n], r)
                         /\ Holders(sent[n], r) = {}
                         /\ \A c \in Conns : ~Has(toHub[n][c], r)
    BY <1>6 DEF ServingInit, Has, HasRow, Holders
  <2>2. Sites(r) = {}
    <3> SUFFICES ASSUME NEW s \in Sites(r) PROVE FALSE
      OBVIOUS
    <3>1. s \in Places
      BY DEF Sites
    <3>2. s[2] \in Nodes /\ s[3] \in Conns
      BY <3>1 DEF Places
    <3> QED
      BY <2>1, <3>1, <3>2 DEF Sites
  <2> QED
    BY <2>2, NoCopies
<1> QED
  BY <1>1, <1>4, <1>5, <1>7, <1>8, <1>9, <1>10 DEF ServingInv

\* It survives a stutter.
LEMMA StutterServes == ServingInv /\ UNCHANGED allVars => ServingInv'
<1> SUFFICES ASSUME ServingInv, UNCHANGED allVars PROVE ServingInv'
  OBVIOUS
<1>1. UNCHANGED vars /\ UNCHANGED servingVars
  BY DEF allVars
<1>2. TypeInv'
  BY <1>1, StutterTyped DEF ServingInv
<1>3. RequestsSound' /\ BatchingSound' /\ cache' \in [Nodes -> [Reqs -> Nat]]
  BY <1>1 DEF ServingInv, RequestsSound, BatchingSound, servingVars
<1>4. FramesOurs'
  BY <1>1 DEF ServingInv, FramesOurs, vars, netVars
<1>5. BooksKept'
  BY <1>1, BooksSame DEF ServingInv, vars, servingVars
<1>6. ASSUME NEW r \in Reqs
      PROVE  Copies(r)'
  <2>1. Lessens(r)
    BY <1>1, FewerSame DEF Lessens, FewerRows, FewerRuns, vars, netVars, servingVars
  <2> QED
    BY <1>1, <2>1, CopiesLessen DEF ServingInv, servingVars
<1> QED
  BY <1>2, <1>3, <1>4, <1>5, <1>6 DEF ServingInv

\* It survives every step: each action by its own lemma.
LEMMA StepServes == ServingInv /\ [ServingNext]_allVars => ServingInv'
<1> SUFFICES ASSUME ServingInv, [ServingNext]_allVars PROVE ServingInv'
  OBVIOUS
<1>1. CASE UNCHANGED allVars
  BY <1>1, StutterServes
<1>2. CASE Rebalancing /\ Disturb
  BY <1>2, DisturbKeeps
<1>3. ASSUME NEW r \in Reqs,
             Chat(r) \/ ChatTimeout(r) \/ Leave(r) \/ Admit(r) \/ StartPass(r)
      PROVE  ServingInv'
  BY <1>3, ChatKeeps, AdmitKeeps, StartPassKeeps
<1>4. ASSUME NEW r \in Reqs, SendHop(r) \/ HopDone(r)
      PROVE  ServingInv'
  BY <1>4, SendHopKeeps, HopDoneKeeps
<1>5. ASSUME NEW r \in Reqs, HopFails(r) \/ HopTimeout(r) \/ Done(r) \/ Cancel(r)
      PROVE  ServingInv'
  BY <1>5, EndsKeep
<1>6. ASSUME NEW n \in Nodes, BatchStep(n)
      PROVE  ServingInv'
  BY <1>6, RunWindowKeeps, SendBatchKeeps, BatchTimeoutKeeps DEF BatchStep
<1>7. ASSUME NEW n \in Nodes, Forward(n) \/ Reset(n)
      PROVE  ServingInv'
  BY <1>7, ForwardKeeps, ResetKeeps
<1>8. ASSUME NEW n \in Nodes, NEW c \in Conns, HubForwarded(n, c)
      PROVE  ServingInv'
  BY <1>8, HubForwardedKeeps
<1> QED
  BY <1>1, <1>2, <1>3, <1>4, <1>5, <1>6, <1>7, <1>8
     DEF ServingNext, ServingStep, RequestStep

\* The invariant holds throughout.
LEMMA ServingInvariant == ServingSpec => []ServingInv
BY InitServes, StepServes, PTL DEF ServingSpec

\* Whatever requests do on a cluster that moves under them, every variable keeps
\* its type: no frame carries more rows than MAX_BATCH or none at all, and no
\* request is counted out more often than in.
THEOREM ServingTypesHold == ServingSpec => []ServingTypeOK
<1>1. ServingInv => ServingTypeOK
  <2> SUFFICES ASSUME ServingInv PROVE ServingTypeOK
    OBVIOUS
  <2>1. TypeOK
    BY DEF ServingInv, TypeInv
  <2>2. /\ req \in [Reqs -> [st : States, gen : Nat, pipe : Layouts,
                             home : SUBSET Nodes, x : Acts]]
        /\ fut \in [Reqs -> {"none", "open", "ok", "failed"}]
    BY Typed DEF Requests, Futures
  <2>3. span \in [Reqs -> {"none", "open", "finished", "failed"}]
    BY DEF ServingInv, BooksKept, Spans
  <2>4. \A n \in Nodes : \A b \in sent[n] :
          /\ Cardinality(b.rows) \in 1 .. MaxBatch
          /\ b \in [rows : SUBSET Reqs, st : {"pacing", "waiting"}, dead : BOOLEAN]
    BY Typed DEF Runs
  <2> QED
    BY <2>1, <2>2, <2>3, <2>4, Typed DEF ServingTypeOK, ServingInv
<1> QED
  BY <1>1, ServingInvariant, PTL

\* The drain's count and the open root spans are those of the requests that run,
\* however each of them ends.
THEOREM BooksBalance == ServingSpec => []InflightCounts
<1>1. ServingInv => InflightCounts
  BY DEF ServingInv, BooksKept
<1> QED
  BY <1>1, ServingInvariant, PTL

\* Rows queued while a runner takes others are never left without a runner.
THEOREM NoRowForgotten == ServingSpec => []RowsHaveRunner
<1>1. ServingInv => RowsHaveRunner
  BY DEF ServingInv, BatchingSound, RowsHaveRunner
<1> QED
  BY <1>1, ServingInvariant, PTL

\* An answer resolves only the hop, of the pass, it was asked for: of a request
\* whose hop is awaited there is one copy, and it is of that hop.
THEOREM AnswersAreOfThisPass == ServingSpec => AnswersThisPass
<1> DEFINE Act == \A r \in Reqs :
             fut[r] = "open" /\ fut'[r] = "ok"
               => req'[r].x.pass = req[r].x.pass /\ req'[r].x.at = req[r].x.at
<1>1. ServingInv /\ [ServingNext]_allVars => [Act]_allVars
  <2> SUFFICES ASSUME ServingInv, ServingNext, NEW r \in Reqs,
                      fut[r] = "open", fut'[r] = "ok"
               PROVE  req'[r].x.pass = req[r].x.pass /\ req'[r].x.at = req[r].x.at
    BY DEF Act
  <2>1. \A S : fut' # Settle(S, "failed") /\ fut' # fut
    BY DEF Settle
  <2>2. \A s \in Reqs, v \in {"none", "open"} : fut' # [fut EXCEPT ![s] = v]
    BY Typed
  <2>3. ~(Rebalancing /\ Disturb)
    BY <2>1 DEF Disturb
  <2>4. ASSUME NEW s \in Reqs, NEW how, End(s, how)
        PROVE  FALSE
    BY <2>2, <2>4 DEF End
  <2>5. ASSUME NEW s \in Reqs, NEW q, Hop(s, q)
        PROVE  FALSE
    BY <2>2, <2>5 DEF Hop
  <2>6. ASSUME NEW s \in Reqs
        PROVE  ~(\/ Chat(s) \/ ChatTimeout(s) \/ Leave(s) \/ Admit(s)
                 \/ RequestStep(s) \/ Done(s) \/ Cancel(s))
    <3>1. ~Chat(s) /\ ~ChatTimeout(s) /\ ~Leave(s)
      BY <2>1 DEF Chat, ChatTimeout, Leave
    <3>2. ~Admit(s) /\ ~StartPass(s)
      BY <2>1, <2>4, <2>5 DEF Admit, StartPass
    <3>3. ~SendHop(s) /\ ~HopFails(s) /\ ~HopTimeout(s) /\ ~Done(s) /\ ~Cancel(s)
      BY <2>1, <2>4 DEF SendHop, HopFails, HopTimeout, Done, Cancel
    <3>4. ~HopDone(s)
      BY <2>2, <2>4, <2>5 DEF HopDone
    <3> QED
      BY <3>1, <3>2, <3>3, <3>4 DEF RequestStep
  <2>7. ASSUME NEW n \in Nodes
        PROVE  ~(BatchStep(n) \/ Forward(n) \/ Reset(n))
    BY <2>1 DEF BatchStep, RunWindow, SendBatch, BatchTimeout, Forward, Reset
  <2>8. PICK n \in Nodes, c \in Conns : HubForwarded(n, c)
    BY <2>3, <2>6, <2>7 DEF ServingNext, ServingStep
  <2>9. \E x \in Acts : /\ req'[r] = [req[r] EXCEPT !.x = x]
                        /\ x.pass = req[r].x.pass /\ x.at = req[r].x.at
    BY <2>8, AnswerEffect
  <2>10. req[r] \in Requests
    BY Typed
  <2> QED
    BY <2>9, <2>10 DEF Requests
<1>2. ServingSpec => [][Act]_allVars
  BY <1>1, ServingInvariant, PTL DEF ServingSpec
<1> QED
  BY <1>2 DEF AnswersThisPass
=============================================================================

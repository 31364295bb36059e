----------------------------- MODULE PassProofs -----------------------------
(***************************************************************************)
(* The passes of requests on a cluster that moves under them, for every    *)
(* cluster, every set of requests and every schedule: a pass of the        *)
(* cluster's own generation goes once through every layer and finds all    *)
(* earlier passes of its request in the caches, and a request that is over *)
(* leaves no cache behind.                                                 *)
(*                                                                         *)
(* The layout of a generation is settled before its first request is       *)
(* admitted and replaced only under the next one; what has to be shown is  *)
(* that the nodes go along: that a node which is to take a hop holds the   *)
(* committed range and nothing on its way there will change that, that the *)
(* one copy of the activation is where its request says it is, and that    *)
(* the caches count the passes that went through them.                     *)
(***************************************************************************)
EXTENDS RoutingProofs, ServingProofs

-----------------------------------------------------------------------------
(***************************************************************************)
(* What requests do to the sockets that assigns and answers share.         *)
(***************************************************************************)

\* The frames of one node: none comes or goes; the hub sends one of a request;
\* the node reads one, and may answer; the hub reads one.
TrafficOn(n) ==
  \/ toNode'[n] = toNode[n] /\ toHub'[n] = toHub[n]
  \/ /\ Linked(n) /\ toHub'[n] = toHub[n]
     /\ \E f \in ToNodeFrames : f.t \in ServingKinds /\ toNode'[n] = Append(toNode[n], f)
  \/ /\ toNode[n] # <<>> /\ Head(toNode[n]).t \in ServingKinds
     /\ toNode'[n] = Tail(toNode[n])
     /\ \/ toHub'[n] = toHub[n]
        \/ \E f \in ToHubFrames :
             /\ f.t \in ServingKinds
             /\ toHub'[n] = [toHub[n] EXCEPT ![conn[n]] = Append(@, f)]
  \/ /\ toNode'[n] = toNode[n]
     /\ \E c \in open[n] : /\ toHub[n][c] # <<>> /\ Head(toHub[n][c]).t \in ServingKinds
                           /\ toHub'[n] = [toHub[n] EXCEPT ![c] = Tail(@)]

\* What is appended to a queue that stays typed has the type.
LEMMA AppendedTyped ==
  ASSUME NEW S, NEW q \in Seq(S), NEW f, Append(q, f) \in Seq(S)
  PROVE  f \in S
<1>1. Len(q) + 1 \in DOMAIN Append(q, f) /\ Append(q, f)[Len(q) + 1] = f
  OBVIOUS
<1> QED BY <1>1

\* A frame of a request is sent, or lost.
LEMMA SentTraffic ==
  ASSUME ServingInv, ServingInv', NEW n, NEW f, f.t \in ServingKinds,
         toNode' = Sent(n, ws[n], f), toHub' = toHub, NEW m \in Nodes
  PROVE  TrafficOn(m)
<1>1. toNode[m] \in Seq(ToNodeFrames) /\ toNode'[m] \in Seq(ToNodeFrames)
  BY Typed DEF ServingInv, TypeInv, TypeOK, NetTyped
<1>2. CASE toNode'[m] = toNode[m]
  BY <1>2 DEF TrafficOn
<1>3. CASE toNode'[m] # toNode[m]
  <2>1. m = n /\ Reaches(n, ws[n]) /\ toNode'[m] = Append(toNode[m], f)
    BY <1>3, Typed DEF Sent
  <2>2. f \in ToNodeFrames
    BY <1>1, <2>1, AppendedTyped
  <2> QED BY <2>1, <2>2 DEF TrafficOn, Linked, Reaches
<1> QED BY <1>2, <1>3

\* A request that ends tells the nodes it began on.
LEMMA EndTraffic ==
  ASSUME ServingInv, NEW r \in Reqs, NEW how, End(r, how), NEW m \in Nodes
  PROVE  TrafficOn(m)
<1> DEFINE f == [t |-> "reset", req |-> r]
<1>1. toHub' = toHub /\ toNode'[m] \in {toNode[m], Append(toNode[m], f)}
  BY DEF End, Resets
<1>2. toNode'[m] # toNode[m] => Linked(m)
  BY DEF End, Resets, Reaches, Linked
<1>3. f \in ToNodeFrames /\ f.t \in ServingKinds
  BY ResetTravels DEF ServingKinds
<1> QED BY <1>1, <1>2, <1>3 DEF TrafficOn

\* A request that goes on sends one frame at most.
LEMMA HopTraffic ==
  ASSUME ServingInv, ServingInv', NEW r \in Reqs, NEW q, Hop(r, q), toHub' = toHub,
         NEW m \in Nodes
  PROVE  TrafficOn(m)
<1>1. CASE toNode' = toNode
  BY <1>1 DEF TrafficOn
<1>2. CASE toNode' # toNode
  <2> DEFINE f == [t |-> "fwd", x |-> [s \in {r} |-> q.x], ok |-> TRUE]
  <2>1. toNode' = Sent(Owner(q), ws[Owner(q)], f)
    BY <1>2 DEF Hop
  <2>2. f.t \in ServingKinds
    BY DEF ServingKinds, FwdKinds
  <2> HIDE DEF f
  <2> QED BY <2>1, <2>2, SentTraffic
<1> QED BY <1>1, <1>2

\* The steps of one request.
LEMMA RequestTraffic ==
  ASSUME ServingInv, ServingInv', NEW r \in Reqs,
         \/ Chat(r) \/ ChatTimeout(r) \/ Leave(r) \/ Admit(r)
         \/ RequestStep(r) \/ Done(r) \/ Cancel(r),
         NEW m \in Nodes
  PROVE  UNCHANGED <<recordVars, applyVars, nodeVars, open>> /\ TrafficOn(m)
<1>1. CASE Chat(r) \/ ChatTimeout(r) \/ Leave(r)
  BY <1>1 DEF Chat, ChatTimeout, Leave, vars, netVars, TrafficOn
<1>2. CASE \E how : End(r, how)
  BY <1>2, EndTraffic DEF End
<1>3. CASE Admit(r)
  <2>1. CASE \E q : Hop(r, q)
    BY <1>3, <2>1, HopTraffic DEF Admit
  <2>2. CASE toNode' = toNode
    BY <1>3, <2>2 DEF Admit, TrafficOn
  <2> QED BY <1>3, <2>1, <2>2 DEF Admit
<1>4. CASE StartPass(r) /\ ~\E how : End(r, how)
  BY <1>4, HopTraffic DEF StartPass
<1>5. CASE SendHop(r) /\ ~\E how : End(r, how)
  <2>1. /\ SendTo(Owner(req[r]), Fwd("fwd", {r}))
        /\ UNCHANGED <<recordVars, applyVars, nodeVars, toHub, open>>
    BY <1>5 DEF SendHop
  <2>2. Fwd("fwd", {r}).t \in ServingKinds
    BY DEF Fwd, ServingKinds, FwdKinds
  <2> QED BY <2>1, <2>2, SentTraffic DEF SendTo
<1>6. CASE HopDone(r) /\ ~\E how : End(r, how)
  BY <1>6, HopTraffic DEF HopDone, vars, netVars, TrafficOn
<1>7. HopFails(r) \/ HopTimeout(r) \/ Done(r) \/ Cancel(r) => \E how : End(r, how)
  BY DEF HopFails, HopTimeout, Done, Cancel
<1> QED BY <1>1, <1>2, <1>3, <1>4, <1>5, <1>6, <1>7 DEF RequestStep

\* The steps of one node's runners.
LEMMA BatchTraffic ==
  ASSUME ServingInv, ServingInv', NEW n \in Nodes, BatchStep(n), NEW m \in Nodes
  PROVE  UNCHANGED <<recordVars, applyVars, nodeVars, open>> /\ TrafficOn(m)
<1>1. CASE RunWindow(n)
  BY <1>1 DEF RunWindow, vars, netVars, TrafficOn
<1>2. CASE SendBatch(n)
  <2>1. PICK b \in sent[n] :
          IF Bound(n) THEN SendTo(n, Fwd("fwd_batch", b.rows)) ELSE UNCHANGED toNode
    BY <1>2 DEF SendBatch
  <2>2. Fwd("fwd_batch", b.rows).t \in ServingKinds
    BY DEF Fwd, ServingKinds, FwdKinds
  <2>3. UNCHANGED <<recordVars, applyVars, nodeVars, toHub, open>>
    BY <1>2 DEF SendBatch
  <2>4. CASE toNode' = toNode
    BY <2>3, <2>4 DEF TrafficOn
  <2>5. CASE SendTo(n, Fwd("fwd_batch", b.rows))
    BY <2>2, <2>3, <2>5, SentTraffic DEF SendTo
  <2> QED BY <2>1, <2>3, <2>4, <2>5
<1>3. CASE BatchTimeout(n)
  BY <1>3 DEF BatchTimeout, netVars, TrafficOn
<1> QED BY <1>1, <1>2, <1>3 DEF BatchStep

\* The node reads a frame of a request, and may answer.
LEMMA NodeTraffic ==
  ASSUME ServingInv, ServingInv', RouteInv, NEW n \in Nodes, Forward(n) \/ Reset(n),
         NEW m \in Nodes
  PROVE  UNCHANGED <<recordVars, applyVars, nodeVars, open>> /\ TrafficOn(m)
<1>1. /\ toNode[n] # <<>> /\ Head(toNode[n]).t \in ServingKinds
      /\ toNode' = [toNode EXCEPT ![n] = Tail(@)]
      /\ UNCHANGED <<recordVars, applyVars, nodeVars, open>>
  BY DEF Forward, Reset, NodeHears, ServingKinds, FwdKinds
<1>2. toNode'[m] = IF m = n THEN Tail(toNode[n]) ELSE toNode[m]
  BY <1>1, Typed
<1>3. conn[n] \in Conns
  BY <1>1, WorkersAreUp DEF ServingInv, RouteInv, RouteOf
<1>4. CASE toHub' = toHub
  BY <1>1, <1>2, <1>4 DEF TrafficOn
<1>5. CASE \E f : f.t \in ServingKinds /\ Says(n, f)
  <2>1. PICK f : f.t \in ServingKinds /\ Says(n, f)
    BY <1>5
  <2>2. /\ toHub'[n] = [toHub[n] EXCEPT ![conn[n]] = Append(@, f)]
        /\ toHub'[n][conn[n]] = Append(toHub[n][conn[n]], f)
        /\ m # n => toHub'[m] = toHub[m]
    BY <1>3, <2>1, SaysToOne DEF ServingInv
  <2>3. /\ toHub[n][conn[n]] \in Seq(ToHubFrames)
        /\ toHub'[n][conn[n]] \in Seq(ToHubFrames)
    BY <1>3, Typed DEF ServingInv, TypeInv, TypeOK, NetTyped
  <2>4. f \in ToHubFrames
    BY <2>2, <2>3, AppendedTyped
  <2> QED BY <1>1, <1>2, <2>1, <2>2, <2>4 DEF TrafficOn
<1>6. Forward(n) => \E f : f.t \in ServingKinds /\ Says(n, f)
  <2> DEFINE S    == DOMAIN Head(toNode[n]).x
             kind == IF Head(toNode[n]).t = "fwd" THEN "fwd_out" ELSE "fwd_batch_out"
             f1   == [t |-> kind, x |-> Head(toNode[n]).x, ok |-> FALSE]
             f2   == [t |-> kind, x |-> [r \in S |-> Applied(n, r, Head(toNode[n]).x[r])],
                      ok |-> TRUE]
  <2>1. Forward(n) => Says(n, f1) \/ Says(n, f2)
    BY DEF Forward
  <2>2. f1.t \in ServingKinds /\ f2.t \in ServingKinds
    BY DEF ServingKinds, FwdKinds
  <2> HIDE DEF f1, f2
  <2> QED BY <2>1, <2>2
<1>7. Reset(n) => toHub' = toHub
  BY DEF Reset
<1> QED BY <1>1, <1>4, <1>5, <1>6, <1>7

\* The hub reads an answer.
LEMMA AnswerTraffic ==
  ASSUME ServingInv, NEW n \in Nodes, NEW c \in Conns, HubForwarded(n, c), NEW m \in Nodes
  PROVE  UNCHANGED <<recordVars, applyVars, nodeVars, open>> /\ TrafficOn(m)
<1>1. /\ c \in open[n] /\ toHub[n][c] # <<>> /\ Head(toHub[n][c]).t \in ServingKinds
      /\ Take(n, c) /\ UNCHANGED <<recordVars, applyVars, nodeVars, toNode, open>>
  BY DEF HubForwarded, Hears, ServingKinds, FwdKinds
<1>2. /\ toHub'[n] = [toHub[n] EXCEPT ![c] = Tail(@)]
      /\ m # n => toHub'[m] = toHub[m]
  BY <1>1, TakeFromOne DEF ServingInv
<1> QED BY <1>1, <1>2 DEF TrafficOn

\* A step of a request touches the sockets in these ways only.
LEMMA ServingTraffic ==
  ASSUME ServingInv, ServingInv', RouteInv, ServingStep, NEW m \in Nodes
  PROVE  UNCHANGED <<recordVars, applyVars, nodeVars, open>> /\ TrafficOn(m)
BY RequestTraffic, BatchTraffic, NodeTraffic, AnswerTraffic DEF ServingStep

\* A frame that is neither assign nor answer is read, sent or heard: the chain of
\* assigns and answers stands, in its order.
LEMMA ChainRead ==
  ASSUME NEW tn \in Seq(ToNodeFrames), NEW tk, NEW w, NEW pg, NEW sh, NEW rd, NEW ly,
         Chain(tn, tk, w, pg, sh, rd, ly), tn # <<>>, Head(tn).t \notin Asg
  PROVE  /\ Chain(Tail(tn), tk, w, pg, sh, rd, ly)
         /\ Ordered(tn, tk, w, pg, rd) => Ordered(Tail(tn), tk, w, pg, rd)
         /\ Clear(tn, tk, w) => Clear(Tail(tn), tk, w)
<1>1. /\ Free(tn, Asg) <=> Free(Tail(tn), Asg)
      /\ EndsIn(tn, Asg, OfGen(pg)) => EndsIn(Tail(tn), Asg, OfGen(pg))
      /\ AllBut(tn, Asg, Below(pg)) => AllBut(Tail(tn), Asg, Below(pg))
  BY TakeHead
<1> QED BY <1>1 DEF Chain, Ordered, Clear

\* The node says something that is no answer.
LEMMA ChainSaid ==
  ASSUME NEW tn, NEW tk, NEW w \in Seq(ToHubFrames), NEW pg, NEW sh, NEW rd, NEW ly,
         Chain(tn, tk, w, pg, sh, rd, ly), NEW f \in ToHubFrames, f.t \notin Ans
  PROVE  /\ Chain(tn, tk, Append(w, f), pg, sh, rd, ly)
         /\ Ordered(tn, tk, w, pg, rd) => Ordered(tn, tk, Append(w, f), pg, rd)
         /\ Clear(tn, tk, w) => Clear(tn, tk, Append(w, f))
<1>1. /\ Free(w, Ans) <=> Free(Append(w, f), Ans)
      /\ EndsIn(w, Ans, Truths(pg, sh)) => EndsIn(Append(w, f), Ans, Truths(pg, sh))
      /\ AllBut(w, Ans, Below(pg)) => AllBut(Append(w, f), Ans, Below(pg))
      /\ AllIn(w, Ans, Below(pg)) => AllIn(Append(w, f), Ans, Below(pg))
  BY AppendOther
<1> QED BY <1>1 DEF Chain, Ordered, Clear

\* Frames of requests are of kinds of their own.
LEMMA OwnKinds ==
  ASSUME NEW k \in ServingKinds
  PROVE  k \notin Asg /\ k \notin Ans /\ k \notin Hello /\ k \notin TaskKinds
BY DEF ServingKinds, FwdKinds, Asg, Ans, Hello, TaskKinds

\* What a request does leaves the sockets as they were.
LEMMA TrafficSocket ==
  ASSUME TypeInv, NEW n \in Nodes, SocketOf(n), TrafficOn(n),
         UNCHANGED <<recordVars, nodeVars, open>>
  PROVE  SocketOf(n)'
<1>0. /\ ws'[n] = ws[n] /\ conn'[n] = conn[n] /\ up'[n] = up[n] /\ shard'[n] = shard[n]
      /\ tasks'[n] = tasks[n] /\ open'[n] = open[n]
  BY DEF recordVars, nodeVars
<1>1. CASE toNode'[n] = toNode[n] /\ toHub'[n] = toHub[n]
  BY <1>0, <1>1 DEF SocketOf
<1>2. CASE Linked(n) /\ toHub'[n] = toHub[n]
  <2>1. up[n] = TRUE /\ ws[n] = conn[n]
    BY <1>2, RouteTypes DEF Linked
  <2>2. Socket(ws[n], conn[n], TRUE, shard[n], tasks[n], toNode[n], toHub[n], open[n])
    BY <2>1 DEF SocketOf
  <2>3. Socket(ws[n], conn[n], TRUE, shard[n], tasks[n], toNode'[n], toHub[n], open[n])
    BY <2>1, <2>2, SocketSend
  <2> QED BY <1>0, <1>2, <2>1, <2>3 DEF SocketOf
<1>3. CASE toNode[n] # <<>>
  <2>1. conn[n] \in Conns /\ toHub[n] \in [Conns -> Seq(ToHubFrames)]
    BY <1>3, WorkersAreUp, RouteTypes
  <2>2. CASE toHub'[n] = toHub[n]
    <3>1. Socket(ws[n], conn[n], up[n], shard[n], tasks[n], toNode'[n], toHub[n], open[n])
      BY <1>3, SocketWork DEF SocketOf
    <3> QED BY <1>0, <2>2, <3>1 DEF SocketOf
  <2>3. CASE \E f \in ToHubFrames :
               /\ f.t \in ServingKinds
               /\ toHub'[n] = [toHub[n] EXCEPT ![conn[n]] = Append(@, f)]
    <3>1. PICK f \in ToHubFrames :
            /\ f.t \in ServingKinds
            /\ toHub'[n] = [toHub[n] EXCEPT ![conn[n]] = Append(@, f)]
      BY <2>3
    <3>2. /\ \A d \in Conns : d # conn[n] => toHub'[n][d] = toHub[n][d]
          /\ toHub'[n][conn[n]] = Append(toHub[n][conn[n]], f)
          /\ toHub[n][conn[n]] \in Seq(ToHubFrames)
      BY <2>1, <3>1
    <3>3. Free(toHub[n][conn[n]], Hello) => Free(toHub'[n][conn[n]], Hello)
      BY <3>1, <3>2, OwnKinds, AppendOther
    <3> DEFINE h == toHub'[n]
               t == toNode'[n]
    <3>4. /\ \A d \in Conns : d # conn[n] => h[d] = toHub[n][d]
          /\ conn[n] \in Conns /\ Free(toHub[n][conn[n]], Hello) => Free(h[conn[n]], Hello)
      BY <3>2, <3>3
    <3> HIDE DEF h, t
    <3>5. Socket(ws[n], conn[n], up[n], shard[n], tasks[n], t, h, open[n])
      BY <1>3, <3>4, SocketWork DEF SocketOf
    <3> QED BY <1>0, <3>5 DEF SocketOf, h, t
  <2>4. CASE toNode'[n] = toNode[n] /\ \E c \in open[n] :
               toHub[n][c] # <<>> /\ toHub'[n] = [toHub[n] EXCEPT ![c] = Tail(@)]
    <3>1. PICK c \in open[n] :
            toHub[n][c] # <<>> /\ toHub'[n] = [toHub[n] EXCEPT ![c] = Tail(@)]
      BY <2>4
    <3>2. Socket(ws[n], conn[n], up[n], shard[n], tasks[n], toNode[n],
                 [toHub[n] EXCEPT ![c] = Tail(@)], open[n])
      BY <2>1, <3>1, SocketHeard DEF SocketOf
    <3> QED BY <1>0, <2>4, <3>1, <3>2 DEF SocketOf
  <2> QED BY <1>1, <1>2, <2>2, <2>3, <2>4 DEF TrafficOn
<1>4. CASE toNode'[n] = toNode[n] /\ \E c \in open[n] :
             toHub[n][c] # <<>> /\ toHub'[n] = [toHub[n] EXCEPT ![c] = Tail(@)]
  <2>1. PICK c \in open[n] :
          toHub[n][c] # <<>> /\ toHub'[n] = [toHub[n] EXCEPT ![c] = Tail(@)]
    BY <1>4
  <2>2. toHub[n] \in [Conns -> Seq(ToHubFrames)]
    BY RouteTypes
  <2>3. Socket(ws[n], conn[n], up[n], shard[n], tasks[n], toNode[n],
               [toHub[n] EXCEPT ![c] = Tail(@)], open[n])
    BY <2>1, <2>2, SocketHeard DEF SocketOf
  <2> QED BY <1>0, <1>4, <2>1, <2>3 DEF SocketOf
<1> QED BY <1>1, <1>2, <1>3, <1>4 DEF TrafficOn

\* Nor does it disturb the chain.
LEMMA TrafficChain ==
  ASSUME TypeInv, NEW n \in Nodes, RouteOf(n), Linked(n), TrafficOn(n),
         UNCHANGED <<recordVars, nodeVars, open>>
  PROVE  ChainOf(n)' /\ (OrderOf(n) => OrderOf(n)' /\ (ClearOf(n) => ClearOf(n)'))
<1> DEFINE tn == toNode[n]
           tk == tasks[n]
           w  == toHub[n][conn[n]]
           pg == pendingGen[n]
           sh == shard[n]
           rd == ready[n]
           ly == layers[n]
           After(t, h) ==
             /\ Chain(t, tk, h, pg, sh, rd, ly)
             /\ Ordered(tn, tk, w, pg, rd) =>
                  Ordered(t, tk, h, pg, rd) /\ (Clear(tn, tk, w) => Clear(t, tk, h))
<1>0. /\ conn'[n] = conn[n] /\ shard'[n] = sh /\ tasks'[n] = tk
      /\ pendingGen'[n] = pg /\ ready'[n] = rd /\ layers'[n] = ly
  BY DEF recordVars, nodeVars
<1>1. After(toNode'[n], toHub'[n][conn[n]])
        => ChainOf(n)' /\ (OrderOf(n) => OrderOf(n)' /\ (ClearOf(n) => ClearOf(n)'))
  BY <1>0 DEF ChainOf, OrderOf, ClearOf
<1>2. /\ tn \in Seq(ToNodeFrames) /\ tk \in Seq(Tasks) /\ conn[n] \in Conns
      /\ toHub[n] \in [Conns -> Seq(ToHubFrames)] /\ w \in Seq(ToHubFrames)
  BY RouteTypes, OnAConnection DEF RouteOf, Linked
<1>3. Chain(tn, tk, w, pg, sh, rd, ly)
  BY DEF RouteOf, ChainOf
<1> HIDE DEF tn, tk, w, pg, sh, rd, ly
<1>4. CASE toNode'[n] = tn /\ toHub'[n] = toHub[n]
  BY <1>1, <1>3, <1>4 DEF w
<1>5. CASE toHub'[n] = toHub[n] /\ \E f \in ToNodeFrames :
             f.t \in ServingKinds /\ toNode'[n] = Append(tn, f)
  <2>1. PICK f \in ToNodeFrames : f.t \in ServingKinds /\ toNode'[n] = Append(tn, f)
    BY <1>5
  <2>2. f.t \notin Asg
    BY <2>1, OwnKinds
  <2>3. Chain(Append(tn, f), tk, w, pg, sh, rd, ly)
    BY <1>2, <1>3, <2>2, ChainAsk
  <2>4. ASSUME Ordered(tn, tk, w, pg, rd)
        PROVE  /\ Ordered(Append(tn, f), tk, w, pg, rd)
               /\ Clear(tn, tk, w) => Clear(Append(tn, f), tk, w)
    BY <1>2, <2>2, <2>4, OrderAsk
  <2> QED BY <1>1, <1>5, <2>1, <2>3, <2>4 DEF w
<1>6. CASE /\ tn # <<>> /\ Head(tn).t \in ServingKinds /\ toNode'[n] = Tail(tn)
           /\ \/ toHub'[n] = toHub[n]
              \/ \E f \in ToHubFrames :
                   /\ f.t \in ServingKinds
                   /\ toHub'[n] = [toHub[n] EXCEPT ![conn[n]] = Append(@, f)]
  <2>1. Head(tn).t \notin Asg
    BY <1>6, OwnKinds
  <2>2. After(Tail(tn), w)
    BY <1>2, <1>3, <1>6, <2>1, ChainRead
  <2>3. CASE toHub'[n] = toHub[n]
    BY <1>1, <1>6, <2>2, <2>3 DEF w
  <2>4. CASE \E f \in ToHubFrames :
               /\ f.t \in ServingKinds
               /\ toHub'[n] = [toHub[n] EXCEPT ![conn[n]] = Append(@, f)]
    <3>1. PICK f \in ToHubFrames :
            f.t \in ServingKinds /\ toHub'[n] = [toHub[n] EXCEPT ![conn[n]] = Append(@, f)]
      BY <2>4
    <3>2. toHub'[n][conn[n]] = Append(w, f)
      BY <1>2, <3>1 DEF w
    <3>3. f.t \notin Ans
      BY <3>1, OwnKinds
    <3>4. After(Tail(tn), Append(w, f))
      BY <1>2, <2>2, <3>3, ChainSaid
    <3> QED BY <1>1, <1>6, <3>2, <3>4
  <2> QED BY <1>6, <2>3, <2>4
<1>7. CASE /\ toNode'[n] = tn
           /\ \E c \in open[n] : /\ toHub[n][c] # <<>> /\ Head(toHub[n][c]).t \in ServingKinds
                                 /\ toHub'[n] = [toHub[n] EXCEPT ![c] = Tail(@)]
  <2>1. PICK c \in open[n] : /\ toHub[n][c] # <<>> /\ Head(toHub[n][c]).t \in ServingKinds
                             /\ toHub'[n] = [toHub[n] EXCEPT ![c] = Tail(@)]
    BY <1>7
  <2>2. c = conn[n]
    BY <2>1, HeardOnLink, RouteTypes
  <2>3. w # <<>> /\ Head(w).t \notin Ans /\ toHub'[n][conn[n]] = Tail(w)
    BY <1>2, <2>1, <2>2, OwnKinds DEF w
  <2>4. Chain(tn, tk, Tail(w), pg, sh, rd, ly)
    BY <1>2, <1>3, <2>3, ChainHeardOther
  <2>5. ASSUME Ordered(tn, tk, w, pg, rd)
        PROVE  /\ Ordered(tn, tk, Tail(w), pg, rd)
               /\ Clear(tn, tk, w) => Clear(tn, tk, Tail(w))
    BY <1>2, <2>3, <2>5, OrderHeardOther
  <2> QED BY <1>1, <1>7, <2>3, <2>4, <2>5
<1> QED BY <1>4, <1>5, <1>6, <1>7 DEF TrafficOn, tn

\* What a request does leaves the chains and their order as they were.
LEMMA ServingRoute ==
  ASSUME ServingInv, ServingInv', RouteInv, ServingStep
  PROVE  RouteInv' /\ (LinkInv => LinkInv')
<1> SUFFICES ASSUME NEW n \in Nodes
             PROVE  RouteOf(n)' /\ (LinkOf(n) => LinkOf(n)')
  BY DEF RouteInv, LinkInv
<1>1. UNCHANGED <<recordVars, applyVars, nodeVars, open>> /\ TrafficOn(n) /\ RouteOf(n)
  BY ServingTraffic DEF RouteInv
<1>2. TypeInv
  BY DEF ServingInv
<1>3. SocketOf(n)'
  BY <1>1, <1>2, TrafficSocket DEF RouteOf
<1>4. (Linked(n)' <=> Linked(n)) /\ (Settled(n)' <=> Settled(n))
  BY <1>1, SettledStays DEF Linked, recordVars, applyVars, nodeVars
<1>5. Linked(n) => ChainOf(n)' /\ (OrderOf(n) => OrderOf(n)' /\ (ClearOf(n) => ClearOf(n)'))
  BY <1>1, <1>2, TrafficChain
<1> QED BY <1>3, <1>4, <1>5 DEF RouteOf, LinkOf

-----------------------------------------------------------------------------
(***************************************************************************)
(* What was proved of Rebalance, of the cluster with requests.             *)
(***************************************************************************)

RoutedInv == ServingInv /\ RouteInv /\ LayoutInv /\ GateInv

\* A step of the cluster is one of the rebalance, or of a request.
LEMMA StepIs ==
  ASSUME [ServingNext]_allVars
  PROVE  ServingStep \/ ([Next]_vars /\ req' = req)
BY DEF ServingNext, Next, Disturb, allVars, servingVars

\* A step of a request leaves apply_plan alone.
LEMMA ServingApply ==
  ASSUME ServingStep
  PROVE  UNCHANGED applyVars
<1>1. (\E r \in Reqs : \E how : End(r, how)) \/ UNCHANGED vars => UNCHANGED applyVars
  BY DEF End, vars
<1>2. ASSUME NEW r \in Reqs,
             \/ Chat(r) \/ ChatTimeout(r) \/ Leave(r) \/ Admit(r) \/ Done(r) \/ Cancel(r)
      PROVE  UNCHANGED applyVars
  BY <1>1, <1>2 DEF Chat, ChatTimeout, Leave, Admit, Done, Cancel
<1>3. ASSUME NEW r \in Reqs, RequestStep(r)
      PROVE  UNCHANGED applyVars
  BY <1>1, <1>3 DEF RequestStep, StartPass, SendHop, HopDone, HopFails, HopTimeout
<1>4. ASSUME NEW n \in Nodes, BatchStep(n)
      PROVE  UNCHANGED applyVars
  BY <1>1, <1>4 DEF BatchStep, RunWindow, SendBatch, BatchTimeout
<1>5. ASSUME NEW n \in Nodes,
             Forward(n) \/ Reset(n) \/ \E c \in Conns : HubForwarded(n, c)
      PROVE  UNCHANGED applyVars
  BY <1>5 DEF Forward, Reset, HubForwarded
<1> QED BY <1>2, <1>3, <1>4, <1>5 DEF ServingStep

\* The invariants of Rebalance that need no prompt network.
LEMMA StepRouted ==
  ASSUME RoutedInv, ~Linger, [ServingNext]_allVars
  PROVE  RoutedInv'
<1>1. ServingInv'
  BY StepServes DEF RoutedInv
<1>2. CASE ServingStep
  <2>1. RouteInv'
    BY <1>1, <1>2, ServingRoute DEF RoutedInv
  <2>3. UNCHANGED applyVars
    BY <1>2, ServingApply
  <2>4. LayoutInv'
    BY <2>3, LayoutUndisturbed DEF applyVars, RoutedInv
  <2>5. GateInv'
    BY <2>3, SamePhase DEF applyVars, RoutedInv, GateInv, Stage
  <2> QED BY <1>1, <2>1, <2>4, <2>5 DEF RoutedInv
<1>3. CASE [Next]_vars
  <2>1. TypeInv
    BY DEF RoutedInv, ServingInv
  <2>2. RouteInv' /\ LayoutInv' /\ GateInv'
    BY <1>3, <2>1, NextRoute, NextLayout, StepSeen DEF RoutedInv, ServiceInv
  <2> QED BY <1>1, <2>2 DEF RoutedInv
<1> QED BY <1>2, <1>3, StepIs

\* Those that do.
LEMMA StepPrompt ==
  ASSUME RoutedInv, GenInv, LinkInv, Prompt, [ServingNext]_allVars
  PROVE  RoutedInv' /\ GenInv' /\ LinkInv'
<1>1. RoutedInv'
  BY StepRouted DEF Prompt
<1>2. StrictInv
  BY DEF StrictInv, RoutedInv, ServingInv
<1>3. CASE ServingStep
  <2>1. LinkInv'
    BY <1>1, <1>3, ServingRoute DEF RoutedInv
  <2>2. GenInv'
    <3> SUFFICES ASSUME NEW n \in Nodes PROVE GenOf(n)'
      BY DEF GenInv
    <3>1. UNCHANGED <<recordVars, applyVars>>
      BY <1>1, <1>3, ServingTraffic DEF RoutedInv
    <3> QED BY <3>1 DEF GenInv, GenOf, recordVars, applyVars
  <2> QED BY <1>1, <2>1, <2>2
<1>4. CASE [Next]_vars
  BY <1>1, <1>2, <1>4, NextGen, NextLink DEF StrictInv, Prompt
<1> QED BY <1>3, <1>4, StepIs

\* The first state.
LEMMA InitRouted == Init /\ ServingInit => RoutedInv /\ GenInv /\ LinkInv
BY InitServes, InitRoute, InitLayout, InitSeen, InitStrict DEF RoutedInv

-----------------------------------------------------------------------------
(***************************************************************************)
(* What a step does to one request.                                        *)
(***************************************************************************)

\* A request that is handed to its next node: admitted, at the start of a pass,
\* or with the answer of a hop.
Admitted(r, q) ==
  /\ req[r].st = "called" /\ gate /\ PipelineComplete
  /\ q = [st |-> "between", gen |-> gen, pipe |-> Serving, home |-> Members(Serving),
          x |-> FirstAct]
Starts(r, q) ==
  /\ req[r].st = "between" /\ req[r].gen = gen /\ PipelineComplete
  /\ q = [req[r] EXCEPT !.pipe = Serving, !.x.at = 0, !.x.upto = 0]
Proceeds(r, q) ==
  /\ req[r].st \in {"waiting", "queued"} /\ fut[r] = "ok"
  /\ req[r].pipe[Owner(req[r])][2] < NLayers
  /\ q = [req[r] EXCEPT !.x.at = req[r].pipe[Owner(req[r])][2]]
Goes(r, q) ==
  /\ Admitted(r, q) \/ Starts(r, q) \/ Proceeds(r, q)
  /\ Hop(r, q) /\ UNCHANGED <<toHub, sent, cache>>

\* Its pass is through the last layer.
Passes(r) ==
  /\ req[r].st \in {"waiting", "queued"} /\ fut[r] = "ok"
  /\ ~(req[r].pipe[Owner(req[r])][2] < NLayers)
  /\ req'[r] = [req[r] EXCEPT !.x.at = req[r].pipe[Owner(req[r])][2],
                              !.st = "between", !.x.pass = @ + 1]
  /\ fut'[r] = "none"
  /\ UNCHANGED <<vars, queue, sent, cache>>

\* Its pace is over.
Paced(r) ==
  /\ req[r].st = "pacing"
  /\ req'[r] = [req[r] EXCEPT !.st = "waiting"] /\ fut'[r] = fut[r]
  /\ toNode' = Sent(Owner(req[r]), ws[Owner(req[r])], Fwd("fwd", {r}))
  /\ Bound(Owner(req[r]))
  /\ UNCHANGED <<toHub, queue, sent, cache>>

\* Its answer is read.
Answered(r) ==
  \E n \in Nodes, c \in Conns :
    LET f == Head(toHub[n][c]) IN
      /\ HubForwarded(n, c) /\ toHub[n][c] # <<>> /\ f.ok
      /\ Carries(f, r) /\ Pends(req[r], fut[r])
      /\ f.x[r].pass = req[r].x.pass /\ f.x[r].at = req[r].x.at
      /\ req'[r] = [req[r] EXCEPT !.x = f.x[r]] /\ fut'[r] = "ok"

\* It stays as it was, but for a hop that may have failed; or it does not run.
Rests(r) == req'[r] = req[r] /\ (fut'[r] = fut[r] \/ fut'[r] = "failed")
Gone(r)  ==
  /\ r \notin Running' /\ UNCHANGED cache
  /\ req'[r].st \in {"new", "called"} => req[r].st \in {"new", "called"}
  /\ req[r].st = "over" => req'[r].st = "over"
  /\ r \in Running => \E how : End(r, how)

\* Each request, at each step.
Changes(r) == \/ Rests(r) \/ Gone(r) \/ Passes(r) \/ Paced(r) \/ Answered(r)
              \/ \E q : Goes(r, q)

\* A step that is about another request.
LEMMA OthersRest ==
  ASSUME ServingInv, NEW r \in Reqs, NEW s, s # r, NEW x, NEW v,
         req' = [req EXCEPT ![s] = x], fut' = fut \/ fut' = [fut EXCEPT ![s] = v]
  PROVE  Rests(r)
BY Typed DEF Rests

\* Futures that fail.
LEMMA FutureFails ==
  ASSUME NEW r \in Reqs, req' = req, NEW S, fut' = Settle(S, "failed") \/ fut' = fut
  PROVE  Rests(r)
BY DEF Rests, Settle

\* A request that ends is gone, and no other one changes.
LEMMA EndChanges ==
  ASSUME ServingInv, NEW r \in Reqs, NEW s \in Running, NEW how, End(s, how)
  PROVE  Changes(r)
<1>1. /\ req' = [req EXCEPT ![s].st = "over"] /\ fut' = [fut EXCEPT ![s] = "none"]
      /\ UNCHANGED cache
  BY DEF End
<1>2. CASE r = s
  <2>1. req'[r].st = "over" /\ r \notin Running'
    BY <1>1, <1>2, Typed DEF Running, Requests
  <2> QED BY <1>1, <1>2, <2>1 DEF Changes, Gone
<1>3. CASE r # s
  BY <1>1, <1>3, Typed DEF Changes, Rests
<1> QED BY <1>2, <1>3

\* A request that hops goes on, and no other one changes.
LEMMA HopChanges ==
  ASSUME ServingInv, NEW r \in Reqs, NEW s \in Reqs, NEW q, Hop(s, q),
         Admitted(s, q) \/ Starts(s, q) \/ Proceeds(s, q), UNCHANGED <<toHub, sent, cache>>
  PROVE  Changes(r)
<1>1. CASE r = s
  BY <1>1 DEF Changes, Goes
<1>2. CASE r # s
  <2>1. /\ \E x : req' = [req EXCEPT ![s] = x]
        /\ fut' = [fut EXCEPT ![s] = "open"]
    BY DEF Hop
  <2> QED BY <1>2, <2>1, OthersRest DEF Changes
<1> QED BY <1>1, <1>2

\* chat, generate and forward_all.
LEMMA RequestChanges ==
  ASSUME ServingInv, NEW r \in Reqs, NEW s \in Reqs,
         \/ Chat(s) \/ ChatTimeout(s) \/ Leave(s) \/ Admit(s)
         \/ RequestStep(s) \/ Done(s) \/ Cancel(s)
  PROVE  Changes(r)
<1>0. req \in [Reqs -> Requests] /\ fut \in [Reqs -> Futures]
  BY Typed
<1>1. ASSUME NEW st \in {"called", "over", "left"}, req' = [req EXCEPT ![s].st = st],
             req[s].st \in {"new", "called"}, fut' = fut, UNCHANGED cache
      PROVE  Changes(r)
  <2>1. CASE r = s
    <3>1. req'[r].st = st
      BY <1>0, <1>1, <2>1 DEF Requests
    <3> QED BY <1>1, <2>1, <3>1 DEF Changes, Gone, Running
  <2>2. CASE r # s
    BY <1>0, <1>1, <2>2 DEF Changes, Rests
  <2> QED BY <2>1, <2>2
<1>2. CASE Chat(s) \/ ChatTimeout(s) \/ Leave(s)
  BY <1>1, <1>2 DEF Chat, ChatTimeout, Leave, Refuse
<1>3. CASE Admit(s)
  <2>1. CASE PipelineComplete
    <3> DEFINE q == [st |-> "between", gen |-> gen, pipe |-> Serving,
                     home |-> Members(Serving), x |-> FirstAct]
    <3>1. Hop(s, q) /\ Admitted(s, q)
      BY <1>3, <2>1 DEF Admit, Admitted
    <3> HIDE DEF q
    <3> QED BY <1>3, <3>1, HopChanges DEF Admit
  <2>2. CASE ~PipelineComplete
    BY <1>1, <1>3, <2>2 DEF Admit
  <2> QED BY <2>1, <2>2
<1>4. CASE StartPass(s)
  <2>1. s \in Running
    BY <1>4 DEF StartPass, Running
  <2>2. CASE req[s].gen = gen /\ PipelineComplete
    <3> DEFINE q == [req[s] EXCEPT !.pipe = Serving, !.x.at = 0, !.x.upto = 0]
    <3>1. Hop(s, q) /\ Starts(s, q)
      BY <1>4, <2>2 DEF StartPass, Starts
    <3> HIDE DEF q
    <3> QED BY <1>4, <2>2, <3>1, HopChanges DEF StartPass
  <2>3. CASE ~(req[s].gen = gen /\ PipelineComplete)
    BY <1>4, <2>1, <2>3, EndChanges DEF StartPass
  <2> QED BY <2>2, <2>3
<1>5. CASE SendHop(s)
  <2>1. s \in Running
    BY <1>5 DEF SendHop, Running
  <2>2. CASE Bound(Owner(req[s]))
    <3>1. /\ req' = [req EXCEPT ![s].st = "waiting"] /\ fut' = fut
          /\ SendTo(Owner(req[s]), Fwd("fwd", {s}))
          /\ req[s].st = "pacing" /\ UNCHANGED <<toHub, queue, sent, cache>>
      BY <1>5, <2>2 DEF SendHop
    <3>2. CASE r = s
      BY <1>0, <2>2, <3>1, <3>2 DEF Changes, Paced, SendTo
    <3>3. CASE r # s
      BY <1>0, <3>1, <3>3 DEF Changes, Rests
    <3> QED BY <3>2, <3>3
  <2>3. CASE ~Bound(Owner(req[s]))
    BY <1>5, <2>1, <2>3, EndChanges DEF SendHop
  <2> QED BY <2>2, <2>3
<1>6. CASE HopDone(s)
  <2>1. s \in Running
    BY <1>6 DEF HopDone, Running
  <2> DEFINE end == req[s].pipe[Owner(req[s])][2]
             q   == [req[s] EXCEPT !.x.at = end]
  <2>2. CASE \E how : End(s, how)
    BY <2>1, <2>2, EndChanges
  <2>3. CASE end < NLayers /\ ~\E how : End(s, how)
    <3>1. Hop(s, q) /\ Proceeds(s, q) /\ UNCHANGED <<toHub, sent, cache>>
      BY <1>6, <2>3 DEF HopDone, Proceeds
    <3> HIDE DEF q
    <3> QED BY <3>1, HopChanges
  <2>4. CASE ~(end < NLayers) /\ ~\E how : End(s, how)
    <3>1. /\ req' = [req EXCEPT ![s] = [q EXCEPT !.st = "between", !.x.pass = @ + 1]]
          /\ fut' = [fut EXCEPT ![s] = "none"]
          /\ UNCHANGED <<vars, queue, sent, cache>>
      BY <1>6, <2>4 DEF HopDone
    <3>2. req[s].st \in {"waiting", "queued"} /\ fut[s] = "ok"
      BY <1>6 DEF HopDone
    <3>3. CASE r = s
      BY <1>0, <2>4, <3>1, <3>2, <3>3 DEF Changes, Passes
    <3>4. CASE r # s
      BY <3>1, <3>4, OthersRest DEF Changes
    <3> QED BY <3>3, <3>4
  <2> QED BY <2>2, <2>3, <2>4
<1>7. CASE HopFails(s) \/ HopTimeout(s) \/ Done(s) \/ Cancel(s)
  <2>1. s \in Running /\ \E how : End(s, how)
    BY <1>7 DEF HopFails, HopTimeout, Done, Cancel, Running
  <2> QED BY <2>1, EndChanges
<1> QED BY <1>2, <1>3, <1>4, <1>5, <1>6, <1>7 DEF RequestStep

\* An answer resolves the hop it was asked for with what the nodes made of it.
LEMMA AnswerChanges ==
  ASSUME ServingInv, NEW r \in Reqs, NEW n \in Nodes, NEW c \in Conns, HubForwarded(n, c)
  PROVE  Rests(r) \/ Answered(r)
<1> DEFINE f == Head(toHub[n][c])
<1>1. \/ req'[r] = req[r] /\ fut'[r] = fut[r]
      \/ /\ Carries(f, r) /\ Pends(req[r], fut[r]) /\ fut'[r] \in {"ok", "failed"}
         /\ \E x \in Acts : /\ req'[r] = [req[r] EXCEPT !.x = x]
                            /\ x.pass = req[r].x.pass /\ x.at = req[r].x.at
  BY AnswerEffect
<1>2. toHub[n][c] # <<>> /\ req[r] \in Requests
  BY Typed DEF HubForwarded, Hears
<1>3. PICK S : /\ fut' = Settle(S, IF f.ok THEN "ok" ELSE "failed")
               /\ req' = [s \in Reqs |->
                            IF f.ok /\ s \in {u \in S : fut[u] = "open"}
                            THEN [req[s] EXCEPT !.x = f.x[s]] ELSE req[s]]
  BY DEF HubForwarded
<1> HIDE DEF f
<1>4. CASE fut'[r] = fut[r]
  BY <1>1, <1>4 DEF Rests, Pends
<1>5. CASE fut'[r] # fut[r]
  <2>1. r \in S /\ fut[r] = "open" /\ fut'[r] = IF f.ok THEN "ok" ELSE "failed"
    BY <1>3, <1>5 DEF Settle
  <2>2. CASE f.ok
    <3>1. req'[r] = [req[r] EXCEPT !.x = f.x[r]]
      BY <1>3, <2>1, <2>2
    <3>2. f.x[r].pass = req[r].x.pass /\ f.x[r].at = req[r].x.at
      BY <1>1, <1>2, <1>5, <3>1 DEF Requests
    <3> QED BY <1>1, <1>2, <1>5, <2>1, <2>2, <3>1, <3>2 DEF Answered, f
  <2>3. CASE ~f.ok
    BY <1>3, <2>1, <2>3 DEF Rests
  <2> QED BY <2>2, <2>3
<1> QED BY <1>4, <1>5

\* Each request, at each step of the cluster.
LEMMA StepChanges ==
  ASSUME ServingInv, [ServingNext]_allVars, NEW r \in Reqs
  PROVE  Changes(r)
<1>1. CASE UNCHANGED allVars
  BY <1>1 DEF allVars, servingVars, Changes, Rests
<1>2. CASE Disturb
  BY <1>2, FutureFails DEF Disturb, Changes
<1>3. ASSUME NEW n \in Nodes, BatchStep(n)
      PROVE  Changes(r)
  BY <1>3, FutureFails DEF BatchStep, RunWindow, SendBatch, BatchTimeout, Changes
<1>4. ASSUME NEW n \in Nodes, Forward(n) \/ Reset(n)
      PROVE  Changes(r)
  BY <1>4, FutureFails DEF Forward, Reset, Changes
<1> QED BY <1>1, <1>2, <1>3, <1>4, RequestChanges, AnswerChanges
        DEF ServingNext, ServingStep, Changes

-----------------------------------------------------------------------------
(***************************************************************************)
(* Where the copy of a request goes.                                       *)
(***************************************************************************)

\* A copy of r is on its way to n, or on its way back.
AtNode(n, r) == Has(toNode[n], r) \/ HasRow(queue[n], r) \/ Holders(sent[n], r) # {}
AtHub(n, r)  == \E c \in Conns : Has(toHub[n][c], r)

\* The frame g is what n makes of the one it reads: what its shard made of the
\* activation, or that it has none loaded.
Made(n, r, g) ==
  LET f == Head(toNode[n]) IN
    /\ Forward(n) /\ toNode[n] # <<>> /\ Carries(f, r)
    /\ g.ok => /\ shard[n] # NoRange /\ g.x[r] = Applied(n, r, f.x[r])
               /\ cache'[n][r] = cache[n][r] + 1

\* A copy comes from where one was.
Flows(r) ==
  /\ \A n \in Nodes : AtNode(n, r)' => AtNode(n, r)
  /\ \A n \in Nodes, c \in Conns : \A i \in DOMAIN toHub'[n][c] :
       LET g == toHub'[n][c][i] IN
         Carries(g, r) => Made(n, r, g) \/ \E j \in DOMAIN toHub[n][c] : toHub[n][c][j] = g

\* Nothing comes where only copies there were remain.
LEMMA LessenedFlows ==
  ASSUME NEW r \in Reqs, Lessens(r)
  PROVE  Flows(r)
<1>1. \A n \in Nodes : AtNode(n, r)' => AtNode(n, r)
  BY DEF Lessens, Fewer, FewerRows, FewerRuns, AtNode, Has
<1>2. \A n \in Nodes, c \in Conns : \A i \in DOMAIN toHub'[n][c] :
        Carries(toHub'[n][c][i], r) => \E j \in DOMAIN toHub[n][c] :
                                         toHub[n][c][j] = toHub'[n][c][i]
  BY DEF Lessens, Fewer
<1> QED BY <1>1, <1>2 DEF Flows

\* A thinner queue carries r only if it did.
LEMMA ThinHas ==
  ASSUME NEW r \in Reqs, NodeQueuesThin, NEW n \in Nodes, Has(toNode'[n], r)
  PROVE  Has(toNode[n], r)
<1>1. Fewer(toNode'[n], toNode[n], r)
  BY ThinFewer DEF NodeQueuesThin
<1> QED BY <1>1 DEF Fewer, Has

\* Frames to the nodes without r add no copy of it.
LEMMA SentElsewhere ==
  ASSUME ServingInv, NEW r \in Reqs, NEW f, ~Carries(f, r),
         \A m \in Nodes : toNode'[m] \in {toNode[m], Append(toNode[m], f)},
         \A m \in Nodes : FewerRows(queue'[m], queue[m], r),
         UNCHANGED <<toHub, sent>>
  PROVE  Flows(r)
<1>1. ASSUME NEW m \in Nodes PROVE Fewer(toNode'[m], toNode[m], r)
  <2>1. toNode[m] \in Seq(ToNodeFrames)
    BY Typed
  <2> QED BY <2>1, FewerAppend, FewerSame
<1>2. Lessens(r)
  BY <1>1, FewerSame DEF Lessens, FewerRuns
<1> QED BY <1>2, LessenedFlows

\* A request that ends sends resets only.
LEMMA EndFlows ==
  ASSUME ServingInv, NEW r \in Reqs, NEW s \in Reqs, NEW how, End(s, how)
  PROVE  Flows(r)
<1> DEFINE f == [t |-> "reset", req |-> s]
<1>1. \A m \in Nodes : toNode'[m] \in {toNode[m], Append(toNode[m], f)}
  BY DEF End, Resets
<1>2. ~Carries(f, r)
  BY DEF Carries, FwdKinds
<1> HIDE DEF f
<1>3. UNCHANGED <<toHub, queue, sent>>
  BY DEF End
<1> QED BY <1>1, <1>2, <1>3, SentElsewhere DEF FewerRows

\* Another request hops.
LEMMA HopFlows ==
  ASSUME ServingInv, NEW r \in Reqs, NEW s \in Reqs, s # r, NEW q, Hop(s, q),
         UNCHANGED <<toHub, sent>>
  PROVE  Flows(r)
<1> DEFINE f == [t |-> "fwd", x |-> [u \in {s} |-> q.x], ok |-> TRUE]
<1>1. \A m \in Nodes : toNode'[m] \in {toNode[m], Append(toNode[m], f)}
  <2>1. toNode' = toNode \/ toNode' = Sent(Owner(q), ws[Owner(q)], f)
    BY DEF Hop
  <2> HIDE DEF f
  <2> QED BY <2>1, Typed DEF Sent
<1>2. ~Carries(f, r)
  BY DEF Carries
<1> HIDE DEF f
<1>3. ASSUME NEW m \in Nodes PROVE FewerRows(queue'[m], queue[m], r)
  <2>1. queue[m] \in Seq(Reqs) /\ queue'[m] \in {queue[m], Append(queue[m], s)}
    BY Typed DEF Hop
  <2> QED BY <2>1, RowAppended DEF FewerRows
<1> QED BY <1>1, <1>2, <1>3, SentElsewhere

\* The steps of one request.
LEMMA RequestFlows ==
  ASSUME ServingInv, NEW r \in Reqs, NEW s \in Reqs,
         \/ Chat(s) \/ ChatTimeout(s) \/ Leave(s) \/ Admit(s)
         \/ RequestStep(s) \/ Done(s) \/ Cancel(s)
  PROVE  Flows(r) \/ Paced(r) \/ \E q : Goes(r, q)
<1>1. CASE UNCHANGED <<toNode, toHub, queue, sent>>
  <2>1. Lessens(r)
    BY <1>1, FewerSame DEF Lessens, FewerRows, FewerRuns
  <2> QED BY <2>1, LessenedFlows
<1>2. CASE \E how : End(s, how)
  BY <1>2, EndFlows
<1>3. ASSUME NEW q, Hop(s, q), Admitted(s, q) \/ Starts(s, q) \/ Proceeds(s, q),
             UNCHANGED <<toHub, sent, cache>>
      PROVE  Flows(r) \/ \E p : Goes(r, p)
  BY <1>3, HopFlows DEF Goes
<1>4. CASE Chat(s) \/ ChatTimeout(s) \/ Leave(s)
  BY <1>1, <1>4 DEF Chat, ChatTimeout, Leave, vars, netVars
<1>5. CASE Admit(s)
  <2>1. CASE PipelineComplete
    <3> DEFINE q == [st |-> "between", gen |-> gen, pipe |-> Serving,
                     home |-> Members(Serving), x |-> FirstAct]
    <3>1. Hop(s, q) /\ Admitted(s, q)
      BY <1>5, <2>1 DEF Admit, Admitted
    <3> HIDE DEF q
    <3> QED BY <1>3, <1>5, <3>1 DEF Admit
  <2>2. CASE ~PipelineComplete
    BY <1>1, <1>5, <2>2 DEF Admit
  <2> QED BY <2>1, <2>2
<1>6. CASE StartPass(s)
  <2>1. CASE req[s].gen = gen /\ PipelineComplete
    <3> DEFINE q == [req[s] EXCEPT !.pipe = Serving, !.x.at = 0, !.x.upto = 0]
    <3>1. Hop(s, q) /\ Starts(s, q)
      BY <1>6, <2>1 DEF StartPass, Starts
    <3> HIDE DEF q
    <3> QED BY <1>3, <1>6, <2>1, <3>1 DEF StartPass
  <2>2. CASE ~(req[s].gen = gen /\ PipelineComplete)
    BY <1>2, <1>6, <2>2 DEF StartPass
  <2> QED BY <2>1, <2>2
<1>7. CASE SendHop(s) /\ ~\E how : End(s, how)
  <2>1. /\ req' = [req EXCEPT ![s].st = "waiting"] /\ fut' = fut
        /\ SendTo(Owner(req[s]), Fwd("fwd", {s})) /\ Bound(Owner(req[s]))
        /\ req[s].st = "pacing" /\ UNCHANGED <<toHub, queue, sent, cache>>
    BY <1>7 DEF SendHop
  <2>2. CASE r = s
    BY <2>1, <2>2, Typed DEF Paced, SendTo
  <2>3. CASE r # s
    <3> DEFINE f == Fwd("fwd", {s})
    <3>1. ~Carries(f, r)
      BY <2>3 DEF Carries, Fwd
    <3> HIDE DEF f
    <3>2. \A m \in Nodes : toNode'[m] \in {toNode[m], Append(toNode[m], f)}
      BY <2>1, Typed DEF SendTo, Sent, f
    <3> QED BY <2>1, <3>1, <3>2, SentElsewhere DEF FewerRows
  <2> QED BY <2>2, <2>3
<1>8. CASE HopDone(s) /\ ~\E how : End(s, how)
  <2> DEFINE end == req[s].pipe[Owner(req[s])][2]
             q   == [req[s] EXCEPT !.x.at = end]
  <2>1. CASE end < NLayers
    <3>1. Hop(s, q) /\ Proceeds(s, q) /\ UNCHANGED <<toHub, sent, cache>>
      BY <1>8, <2>1 DEF HopDone, Proceeds
    <3> HIDE DEF q
    <3> QED BY <1>3, <3>1
  <2>2. CASE ~(end < NLayers)
    BY <1>1, <1>8, <2>2 DEF HopDone, vars, netVars
  <2> QED BY <2>1, <2>2
<1>9. CASE HopFails(s) \/ HopTimeout(s) \/ Done(s) \/ Cancel(s)
  BY <1>2, <1>9 DEF HopFails, HopTimeout, Done, Cancel
<1> QED BY <1>2, <1>4, <1>5, <1>6, <1>7, <1>8, <1>9 DEF RequestStep

\* Rows move on to a runner, and from a runner into a frame.
LEMMA BatchFlows ==
  ASSUME ServingInv, NEW r \in Reqs, NEW n \in Nodes, BatchStep(n)
  PROVE  Flows(r)
<1> SUFFICES ASSUME TRUE
             PROVE  toHub' = toHub /\ \A m \in Nodes : AtNode(m, r)' => AtNode(m, r)
  BY DEF Flows
<1>1. CASE RunWindow(n)
  <2> DEFINE k == TakenOf(n)
             b == [rows |-> RowSet(SubSeq(queue[n], 1, k)), st |-> "pacing", dead |-> FALSE]
  <2>1. UNCHANGED <<toNode, toHub>>
    BY <1>1 DEF RunWindow, vars, netVars
  <2>2. queue[n] \in Seq(Reqs) /\ k \in 0 .. Len(queue[n])
    BY Typed, ServingAssumption DEF TakenOf
  <2>3. /\ \A m \in Nodes : queue'[m] = IF m = n THEN SubSeq(queue[n], k + 1, Len(queue[n]))
                                       ELSE queue[m]
        /\ \A m \in Nodes : \/ sent'[m] = sent[m]
                            \/ m = n /\ sent'[m] = sent[m] \cup {b}
    BY <1>1, Typed DEF RunWindow
  <2>4. /\ HasRow(SubSeq(queue[n], k + 1, Len(queue[n])), r) => HasRow(queue[n], r)
        /\ r \in b.rows => HasRow(queue[n], r)
    BY <2>2, RowsTaken DEF FewerRows
  <2> HIDE DEF b, k
  <2>5. ASSUME NEW m \in Nodes, Holders(sent'[m], r) # {}
        PROVE  Holders(sent[m], r) # {} \/ HasRow(queue[m], r)
    BY <2>3, <2>4, <2>5 DEF Holders
  <2> QED BY <2>1, <2>3, <2>4, <2>5 DEF AtNode
<1>2. CASE SendBatch(n)
  <2>1. PICK b \in sent[n] :
          /\ b.st = "pacing"
          /\ IF Bound(n) THEN SendTo(n, Fwd("fwd_batch", b.rows)) ELSE UNCHANGED toNode
          /\ sent' = [sent EXCEPT ![n] = (@ \ {b}) \cup {[b EXCEPT !.st = "waiting"]}]
               \/ sent' = [sent EXCEPT ![n] = @ \ {b}]
    BY <1>2 DEF SendBatch
  <2> DEFINE f == Fwd("fwd_batch", b.rows)
  <2>2. UNCHANGED <<toHub, queue>>
    BY <1>2 DEF SendBatch
  <2>3. Carries(f, r) => Holders(sent[n], r) # {}
    BY <2>1 DEF Carries, Fwd, Holders
  <2>4. \A m \in Nodes : toNode'[m] = toNode[m] \/ (m = n /\ toNode'[m] = Append(toNode[m], f))
    BY <2>1, Typed DEF SendTo, Sent
  <2>5. b \in Runs
    BY Typed
  <2>6. [b EXCEPT !.st = "waiting"].st # "pacing"
    BY <2>5 DEF Runs
  <2> HIDE DEF f
  <2>7. ASSUME NEW m \in Nodes PROVE Holders(sent'[m], r) \subseteq Holders(sent[m], r)
    <3> DEFINE d == [b EXCEPT !.st = "waiting"]
    <3> HIDE DEF d
    <3>1. sent'[m] \subseteq sent[m] \cup {d}
      BY <2>1, Typed DEF d
    <3> QED BY <2>6, <3>1 DEF Holders, d
  <2>8. ASSUME NEW m \in Nodes, Has(toNode'[m], r)
        PROVE  Has(toNode[m], r) \/ Holders(sent[m], r) # {}
    <3>1. toNode[m] \in Seq(ToNodeFrames)
      BY Typed
    <3>2. Fewer(Append(toNode[m], f), toNode[m], r) \/ Carries(f, r)
      BY <3>1, FewerAppend
    <3> QED BY <2>3, <2>4, <2>8, <3>2 DEF Fewer, Has
  <2> QED BY <2>2, <2>7, <2>8 DEF AtNode
<1>3. CASE BatchTimeout(n)
  <2>1. PICK b : sent' = [sent EXCEPT ![n] = @ \ {b}]
    BY <1>3 DEF BatchTimeout
  <2>2. \A m \in Nodes : Holders(sent'[m], r) \subseteq Holders(sent[m], r)
    BY <2>1, Typed DEF Holders
  <2> QED BY <1>3, <2>2 DEF BatchTimeout, netVars, AtNode
<1> QED BY <1>1, <1>2, <1>3 DEF BatchStep

\* A node makes its answer of the frame it reads.
LEMMA ForwardFlows ==
  ASSUME ServingInv, NEW r \in Reqs, NEW n \in Nodes, Forward(n)
  PROVE  Flows(r)
<1> DEFINE f    == Head(toNode[n])
           S    == DOMAIN f.x
           kind == IF f.t = "fwd" THEN "fwd_out" ELSE "fwd_batch_out"
           f1   == [t |-> kind, x |-> f.x, ok |-> FALSE]
           f2   == [t |-> kind, x |-> [s \in S |-> Applied(n, s, f.x[s])], ok |-> TRUE]
<1>1. /\ toNode[n] # <<>> /\ f.t \in FwdKinds
      /\ toNode' = [toNode EXCEPT ![n] = Tail(@)]
      /\ UNCHANGED <<queue, sent>>
  BY DEF Forward, NodeHears, FwdKinds
<1>2. \/ shard[n] = NoRange /\ Says(n, f1)
      \/ /\ shard[n] # NoRange /\ Says(n, f2)
         /\ cache' = [cache EXCEPT ![n] =
                         [s \in Reqs |-> IF s \in S THEN @[s] + 1 ELSE @[s]]]
  BY DEF Forward
<1>3. /\ Carries(f1, r) => Carries(f, r)
      /\ Carries(f2, r) => Carries(f, r) /\ f2.x[r] = Applied(n, r, f.x[r])
      /\ f1.ok = FALSE
  BY <1>1 DEF Carries
<1> HIDE DEF f1, f2
<1>4. PICK g : Says(n, g) /\ (Carries(g, r) => Made(n, r, g))
  <2>1. CASE shard[n] = NoRange /\ Says(n, f1)
    BY <1>1, <1>3, <2>1 DEF Made
  <2>2. CASE /\ shard[n] # NoRange /\ Says(n, f2)
             /\ cache' = [cache EXCEPT ![n] =
                            [s \in Reqs |-> IF s \in S THEN @[s] + 1 ELSE @[s]]]
    <3>1. Carries(f, r) => cache'[n][r] = cache[n][r] + 1
      BY <2>2 DEF Carries, ServingInv
    <3> QED BY <1>1, <1>3, <2>2, <3>1 DEF Made
  <2> QED BY <1>2, <2>1, <2>2
<1>5. NodeQueuesThin
  BY <1>1, NodeTail DEF ServingInv, TypeInv, TypeOK
<1>6. \A m \in Nodes : AtNode(m, r)' => AtNode(m, r)
  BY <1>1, <1>5, ThinHas DEF AtNode
<1>7. ASSUME NEW m \in Nodes, NEW c \in Conns, NEW i \in DOMAIN toHub'[m][c],
             Carries(toHub'[m][c][i], r)
      PROVE  \/ Made(m, r, toHub'[m][c][i])
             \/ \E j \in DOMAIN toHub[m][c] : toHub[m][c][j] = toHub'[m][c][i]
  <2>1. toHub[m][c] \in Seq(ToHubFrames)
    BY Typed
  <2>2. toHub'[m][c] = toHub[m][c] \/ (m = n /\ toHub'[m][c] = Append(toHub[m][c], g))
    BY <1>4, Typed DEF Says
  <2> QED BY <1>4, <1>7, <2>1, <2>2
<1> QED BY <1>6, <1>7 DEF Flows

\* A node, or the hub, reads a frame.
LEMMA ReadFlows ==
  ASSUME ServingInv, NEW r \in Reqs, NEW n \in Nodes,
         Reset(n) \/ \E c \in Conns : HubForwarded(n, c)
  PROVE  Flows(r)
<1>0. NetTyped
  BY DEF ServingInv, TypeInv, TypeOK
<1>1. CASE Reset(n)
  <2>1. NodeQueuesThin
    BY <1>0, <1>1, NodeTail DEF Reset, NodeHears
  <2>2. Lessens(r)
    BY <1>1, <2>1, ThinFewer, FewerSame
       DEF Lessens, NodeQueuesThin, FewerRows, FewerRuns, Reset
  <2> QED BY <2>2, LessenedFlows
<1>2. ASSUME NEW c \in Conns, HubForwarded(n, c)
      PROVE  Flows(r)
  <2>1. HubQueuesThin
    BY <1>0, <1>2, HubTaken DEF HubForwarded
  <2>2. \E B : sent' = sent \/ sent' = [sent EXCEPT ![n] = @ \ B]
    BY <1>2 DEF HubForwarded
  <2>3. \A m \in Nodes : Holders(sent'[m], r) \subseteq Holders(sent[m], r)
    BY <2>2, Typed DEF Holders
  <2>4. Lessens(r)
    BY <1>2, <2>1, <2>3, ThinFewer, FewerSame, FewerHolders
       DEF Lessens, HubQueuesThin, FewerRows, HubForwarded
  <2> QED BY <2>4, LessenedFlows
<1> QED BY <1>1, <1>2

\* A rebalance only loses copies.
LEMMA DisturbFlows ==
  ASSUME ServingInv, NEW r \in Reqs, Rebalancing, Disturb
  PROVE  Flows(r)
<1>1. NodeQueuesThin /\ HubQueuesThin
  BY RebalancingThins DEF ServingInv
<1> DEFINE Dead(b) == [b EXCEPT !.dead = TRUE]
<1>2. \A b \in Runs : Dead(b).st = b.st /\ Dead(b).rows = b.rows
  BY DEF Runs
<1>3. \/ sent' = sent
      \/ sent' = [n \in Nodes |-> {Dead(b) : b \in {d \in sent[n] : d.st = "pacing"}}]
  BY DEF Disturb
<1> HIDE DEF Dead
<1>4. ASSUME NEW n \in Nodes, Holders(sent'[n], r) # {}
      PROVE  Holders(sent[n], r) # {}
  <2>1. CASE sent'[n] = sent[n]
    BY <1>4, <2>1
  <2>2. CASE sent'[n] = {Dead(b) : b \in {d \in sent[n] : d.st = "pacing"}}
    <3>1. \A b \in Holders(sent'[n], r) : \E d \in Holders(sent[n], r) : b = Dead(d)
      BY <1>2, <2>2, Typed DEF Holders
    <3> QED BY <1>4, <3>1
  <2> QED BY <1>3, <2>1, <2>2
<1>5. \A n \in Nodes : AtNode(n, r)' => AtNode(n, r)
  BY <1>1, <1>4, ThinHas DEF AtNode, Disturb
<1>6. \A n \in Nodes, c \in Conns : Fewer(toHub'[n][c], toHub[n][c], r)
  BY <1>1, ThinFewer DEF HubQueuesThin
<1> QED BY <1>5, <1>6 DEF Flows, Fewer

\* Only where r is handed on does a copy of it come from nowhere.
LEMMA StepFlows ==
  ASSUME ServingInv, [ServingNext]_allVars, NEW r \in Reqs
  PROVE  Flows(r) \/ Paced(r) \/ \E q : Goes(r, q)
<1>1. CASE UNCHANGED allVars
  <2>1. Lessens(r)
    BY <1>1, FewerSame
       DEF Lessens, FewerRows, FewerRuns, allVars, vars, netVars, servingVars
  <2> QED BY <2>1, LessenedFlows
<1> QED BY <1>1, DisturbFlows, RequestFlows, BatchFlows, ForwardFlows, ReadFlows
        DEF ServingNext, ServingStep

\* A request that is handed on has one copy, with the node that is next.
LEMMA HandedOn ==
  ASSUME ServingInv, NEW r \in Reqs, Sites(r) = {}, NEW q,
         Goes(r, q) \/ (Paced(r) /\ q = req[r]), NEW m \in Nodes
  PROVE  /\ AtNode(m, r)' => m = Owner(q)
         /\ ~AtHub(m, r)'
<1> USE Typed
<1>1. /\ ~Has(toNode[m], r) /\ ~HasRow(queue[m], r) /\ Holders(sent[m], r) = {}
      /\ \A c \in Conns : ~Has(toHub[m][c], r)
  BY NoSites
<1>2. UNCHANGED <<toHub, sent>>
  BY DEF Goes, Paced
<1>3. toNode'[m] # toNode[m] => m = Owner(q)
  BY DEF Goes, Paced, Hop, Sent
<1>4. queue'[m] # queue[m] => m = Owner(q)
  BY DEF Goes, Paced, Hop
<1> QED BY <1>1, <1>2, <1>3, <1>4 DEF AtNode, AtHub

\* A copy of r is at one of its sites.
LEMMA NowhereNoSites ==
  ASSUME NEW r \in Reqs, Sites(r) = {}, NEW m \in Nodes
  PROVE  ~AtNode(m, r) /\ ~AtHub(m, r)
BY NoSites DEF AtNode, AtHub

-----------------------------------------------------------------------------
(***************************************************************************)
(* The generation of a request.                                            *)
(***************************************************************************)

\* r was admitted under the generation the cluster still has.
Fits(r) == r \in Running /\ req[r].gen = gen

\* No request is newer than the cluster, each is reset where it began, and one
\* that fits runs on the committed layout, outside the switch of a generation.
EpochOf(r) ==
  r \in Running =>
    /\ req[r].gen <= gen /\ req[r].home = Members(req[r].pipe)
    /\ Fits(r) => phase \notin Switching /\ req[r].pipe = committed
EpochInv == \A r \in Reqs : EpochOf(r)

\* The hub serves nothing less than all of the committed layout.
LEMMA ServesAll ==
  ASSUME TypeInv, LayoutInv, PipelineComplete
  PROVE  Serving = committed /\ \A n \in Members(committed) : Serves(n)
<1>1. committed \in Layouts /\ \A n \in Nodes : committed[n] \in Ranges \cup {NoRange}
  BY DEF TypeInv, TypeOK, ApplyTyped, Layouts
<1>2. Held(NoRange) = {}
  BY DEF Held, NoRange
<1>3. \A n \in Nodes : Serving[n] = IF Serves(n) THEN committed[n] ELSE NoRange
  BY DEF Serving
<1>4. 0 \in LayerIds
  BY NLayersAssumption DEF LayerIds
<1>5. PICK k \in Nodes : 0 \in Held(Serving[k])
  BY <1>4 DEF PipelineComplete, Tiles
<1>6. Tiles(committed)
  BY <1>2, <1>3, <1>5 DEF LayoutInv, CommittedTiles, NoLayout
<1>7. ASSUME NEW n \in Nodes, committed[n] # NoRange
      PROVE  Serves(n)
  <2> DEFINE l == committed[n][1]
  <2>1. l \in LayerIds /\ l \in Held(committed[n])
    BY <1>1, <1>7, NLayersAssumption DEF Ranges, LayerIds, Held
  <2>2. PICK m \in Nodes : l \in Held(Serving[m])
    BY <2>1 DEF PipelineComplete, Tiles
  <2>3. Serves(m) /\ l \in Held(committed[m])
    BY <1>2, <1>3, <2>2
  <2>4. m = n
    BY <1>6, <2>1, <2>3 DEF Tiles
  <2> QED BY <2>3, <2>4
<1>8. Serving = committed
  BY <1>1, <1>3, <1>7 DEF Serving, Layouts
<1> QED BY <1>7, <1>8 DEF Members

\* A rebalance ends a generation in one step, and commits in the next one only.
LEMMA EpochMoves ==
  ASSUME TypeInv, [Next]_vars
  PROVE  \/ gen' = gen + 1 /\ committed' = committed
         \/ /\ gen' = gen
            /\ phase \notin Switching => phase' \notin Switching /\ committed' = committed
<1>1. CASE UNCHANGED vars
  BY <1>1 DEF vars, applyVars
<1>2. CASE \E n \in Nodes : NodeStep(n) \/ Drop(n) \/ FailLoad(n)
  BY <1>2 DEF NodeStep, Connect, SeesClose, Drop, Disconnect, Receive, SkipAssign,
     KeepShard, StartLoad, FinishLoad, FailLoad, Prefetch, applyVars
<1>3. CASE \E n \in Nodes, c \in Conns : HubHears(n, c)
  BY <1>3 DEF HubHears, HubHello, HubReady, HubError, HubPrefetched, HandlerEnds, applyVars
<1>4. CASE \E n \in Nodes : StaleLeft(n) \/ HeartbeatLate(n) \/ Heartbeat(n) \/ Timeout(n)
  BY <1>4 DEF StaleLeft, HeartbeatLate, Heartbeat, Timeout, applyVars
<1>5. CASE Begin \/ Finish
  BY <1>5 DEF Begin, Finish, applyVars
<1>6. CASE ReplanApplies \/ ReplanParks \/ ManualReplan \/ ManualApplies
  BY <1>6 DEF ReplanApplies, ReplanParks, ManualReplan, ManualApplies, StartApply,
     Switching, applyVars
<1>7. CASE EndPrefetch \/ EndPrefetch2
  BY <1>7 DEF EndPrefetch, EndPrefetch2, StartDrain, Abandon, Switching
<1>8. CASE Drained
  BY <1>8 DEF Drained
<1>9. CASE EndSwitch \/ \E n \in Nodes : SwitchSend(n)
  BY <1>9 DEF EndSwitch, SwitchSend
<1> QED BY <1>1, <1>2, <1>3, <1>4, <1>5, <1>6, <1>7, <1>8, <1>9
        DEF Next, Rebalancing, ApplyStep

\* A request that runs was admitted by this step, or ran before it, under the same
\* generation and on the same layout or on the one served now.
LEMMA RunsOn ==
  ASSUME ServingInv, NEW r \in Reqs, Changes(r), r \in Running'
  PROVE  \/ \E q : Goes(r, q) /\ Admitted(r, q)
         \/ /\ r \in Running
            /\ req'[r].gen = req[r].gen /\ req'[r].home = req[r].home
            /\ \/ req'[r].pipe = req[r].pipe
               \/ req[r].gen = gen /\ PipelineComplete /\ req'[r].pipe = Serving
<1>0. req[r] \in Requests /\ req \in [Reqs -> Requests]
  BY Typed
<1>1. CASE Rests(r)
  BY <1>1 DEF Rests, Running
<1>2. CASE Passes(r)
  <2>1. req'[r].gen = req[r].gen /\ req'[r].home = req[r].home /\ req'[r].pipe = req[r].pipe
    BY <1>0, <1>2 DEF Passes, Requests
  <2> QED BY <1>2, <2>1 DEF Passes, Running
<1>3. CASE Paced(r)
  BY <1>0, <1>3 DEF Paced, Requests, Running
<1>4. CASE Answered(r)
  <2>1. PICK x : req'[r] = [req[r] EXCEPT !.x = x]
    BY <1>4 DEF Answered
  <2>2. r \in Running
    BY <1>4 DEF Answered, Pends, Running
  <2> QED BY <1>0, <2>1, <2>2 DEF Requests
<1>5. ASSUME NEW q, Goes(r, q)
      PROVE  \/ Admitted(r, q)
             \/ /\ r \in Running
                /\ req'[r].gen = req[r].gen /\ req'[r].home = req[r].home
                /\ \/ req'[r].pipe = req[r].pipe
                   \/ req[r].gen = gen /\ PipelineComplete /\ req'[r].pipe = Serving
  <2>1. PICK st : req'[r] = [q EXCEPT !.st = st]
    BY <1>0, <1>5 DEF Goes, Hop
  <2>2. CASE Starts(r, q)
    BY <1>0, <2>1, <2>2 DEF Starts, Requests, Running
  <2>3. CASE Proceeds(r, q)
    BY <1>0, <2>1, <2>3 DEF Proceeds, Requests, Running
  <2> QED BY <1>5, <2>2, <2>3 DEF Goes
<1> QED BY <1>1, <1>2, <1>3, <1>4, <1>5 DEF Changes, Gone

\* A request that is admitted.
LEMMA AdmittedAs ==
  ASSUME ServingInv, NEW r \in Reqs, NEW q, Goes(r, q), Admitted(r, q)
  PROVE  /\ req'[r].gen = gen /\ req'[r].pipe = Serving
         /\ req'[r].home = Members(Serving) /\ req'[r].x = FirstAct
         /\ fut'[r] = "open" /\ gate /\ PipelineComplete /\ req[r].st = "called"
<1>1. PICK st : req'[r] = [q EXCEPT !.st = st]
  BY Typed DEF Goes, Hop
<1> QED BY <1>1, Typed DEF Goes, Hop, Admitted

\* Requests keep to their generation and its layout.
LEMMA StepEpoch ==
  ASSUME RoutedInv, EpochInv, [ServingNext]_allVars
  PROVE  EpochInv'
<1> SUFFICES ASSUME NEW r \in Reqs, r \in Running' PROVE EpochOf(r)'
  BY DEF EpochInv, EpochOf
<1>0. TypeInv /\ ServingInv /\ LayoutInv
  BY DEF RoutedInv, ServingInv
<1>1. Changes(r)
  BY <1>0, StepChanges
<1>2. req[r] \in Requests /\ gen \in Nat
  BY <1>0, Typed DEF TypeInv, TypeOK, ApplyTyped
<1>3. CASE ServingStep
  <2>1. UNCHANGED <<gen, committed, phase>>
    BY <1>3, ServingApply DEF applyVars
  <2>2. ASSUME NEW q, Goes(r, q), Admitted(r, q)
        PROVE  EpochOf(r)'
    <3>1. phase \notin Switching
      BY <1>0, <2>2 DEF Admitted, RoutedInv, GateInv, Stage
    <3>2. Serving = committed
      BY <1>0, <2>2, ServesAll DEF Admitted
    <3> QED BY <1>0, <1>2, <2>1, <2>2, <3>1, <3>2, AdmittedAs DEF EpochOf, Fits
  <2>3. CASE /\ r \in Running
             /\ req'[r].gen = req[r].gen /\ req'[r].home = req[r].home
             /\ \/ req'[r].pipe = req[r].pipe
                \/ req[r].gen = gen /\ PipelineComplete /\ req'[r].pipe = Serving
    <3>1. EpochOf(r)
      BY DEF EpochInv
    <3>2. req'[r].pipe = req[r].pipe
      BY <1>0, <2>3, <3>1, ServesAll DEF EpochOf, Fits
    <3> QED BY <2>1, <2>3, <3>1, <3>2 DEF EpochOf, Fits
  <2> QED BY <1>0, <1>1, <2>2, <2>3, RunsOn
<1>4. CASE [Next]_vars /\ req' = req
  <2>1. r \in Running /\ EpochOf(r)
    BY <1>4 DEF Running, EpochInv
  <2>2. \/ gen' = gen + 1
        \/ /\ gen' = gen
           /\ phase \notin Switching => phase' \notin Switching /\ committed' = committed
    BY <1>0, <1>4, EpochMoves
  <2>3. req[r].gen \in Nat
    BY <1>2 DEF Requests
  <2> QED BY <1>2, <1>4, <2>1, <2>2, <2>3 DEF EpochOf, Fits
<1> QED BY <1>3, <1>4, StepIs

\* A request fits after a step if it did before, or was admitted by it.
LEMMA FitsOn ==
  ASSUME RoutedInv, EpochInv, [ServingNext]_allVars, NEW r \in Reqs, Fits(r)'
  PROVE  /\ \/ Fits(r)
            \/ ServingStep /\ \E q : Goes(r, q) /\ Admitted(r, q)
         /\ UNCHANGED <<gen, committed>> /\ phase \notin Switching
<1>0. ServingInv /\ TypeInv /\ gen \in Nat /\ req[r] \in Requests
  BY Typed DEF RoutedInv, ServingInv, TypeInv, TypeOK, ApplyTyped
<1>1. Changes(r) /\ r \in Running'
  BY <1>0, StepChanges DEF Fits
<1>2. CASE ServingStep
  <2>1. UNCHANGED <<gen, committed, phase>>
    BY <1>2, ServingApply DEF applyVars
  <2>2. CASE \E q : Goes(r, q) /\ Admitted(r, q)
    BY <1>2, <2>1, <2>2 DEF Admitted, RoutedInv, GateInv, Stage
  <2>3. CASE r \in Running /\ req'[r].gen = req[r].gen
    <3>1. Fits(r)
      BY <2>1, <2>3 DEF Fits
    <3> QED BY <1>1, <2>1, <2>3, <3>1 DEF EpochInv, EpochOf
  <2> QED BY <1>0, <1>1, <2>2, <2>3, RunsOn
<1>3. CASE [Next]_vars /\ req' = req
  <2>1. r \in Running /\ req[r].gen = gen' /\ req[r].gen \in Nat /\ EpochOf(r)
    BY <1>0, <1>3 DEF Running, EpochInv, Fits, Requests
  <2>2. \/ gen' = gen + 1
        \/ /\ gen' = gen
           /\ phase \notin Switching => phase' \notin Switching /\ committed' = committed
    BY <1>0, <1>3, EpochMoves
  <2> QED BY <1>0, <2>1, <2>2 DEF EpochOf, Fits
<1> QED BY <1>2, <1>3, StepIs

\* No request runs at first.
LEMMA InitEpoch == ServingInit => EpochInv
BY DEF ServingInit, EpochInv, EpochOf, Running

-----------------------------------------------------------------------------
(***************************************************************************)
(* The nodes go along.                                                     *)
(***************************************************************************)

\* n holds the committed range or none, and is on the way to no other.
OfRange(v) == {f \in Tasks : f.range = v}
Steady(n) ==
  /\ shard[n] \in {NoRange, committed[n]}
  /\ AllIn(toNode[n], Asg, OfRange(committed[n]))
  /\ AllIn(tasks[n], Asg, OfRange(committed[n]))

\* So it is with every member that requests of this generation reach, or have.
SteadyFor(n, r) ==
  n \in Members(committed) /\ Fits(r) /\ (Linked(n) \/ Has(toNode[n], r)) => Steady(n)
SteadyInv == \A n \in Nodes, r \in Reqs : SteadyFor(n, r)

\* A member the hub routes to: nothing is on its way that would change its belief.
LEMMA ServesSteady ==
  ASSUME RouteInv, LinkInv, NEW n \in Nodes, Serves(n), Linked(n)
  PROVE  Steady(n) /\ shard[n] = committed[n]
<1>1. OrderOf(n) /\ ChainOf(n)
  BY DEF RouteInv, RouteOf, LinkInv, LinkOf
<1>2. ready[n] /\ layers[n] = committed[n]
  BY DEF Serves, Live
<1>3. ClearOf(n)
  BY <1>1, <1>2 DEF OrderOf, Ordered, ClearOf
<1>4. shard[n] = committed[n]
  BY <1>1, <1>2, <1>3 DEF ChainOf, Chain, ClearOf, Clear
<1> QED BY <1>3, <1>4, FreeQueue DEF ClearOf, Clear, Steady

\* What requests send or take is no assign.
LEMMA TrafficSteady ==
  ASSUME TypeInv, NEW n \in Nodes, Steady(n), TrafficOn(n),
         UNCHANGED <<nodeVars, committed>>
  PROVE  Steady(n)'
<1>1. toNode[n] \in Seq(ToNodeFrames)
  BY RouteTypes
<1>2. CASE toNode'[n] = toNode[n]
  BY <1>2 DEF Steady, nodeVars
<1>3. CASE \E f \in ToNodeFrames : f.t \in ServingKinds /\ toNode'[n] = Append(toNode[n], f)
  BY <1>1, <1>3, AppendOther, OwnKinds DEF Steady, nodeVars
<1>4. CASE toNode[n] # <<>> /\ toNode'[n] = Tail(toNode[n])
  BY <1>1, <1>4, TakeHead DEF Steady, nodeVars
<1> QED BY <1>2, <1>3, <1>4 DEF TrafficOn

\* A request that comes to a node only comes to one it reaches.
LEMMA TrafficHas ==
  ASSUME TypeInv, NEW n \in Nodes, TrafficOn(n), NEW r \in Reqs, Has(toNode'[n], r)
  PROVE  Linked(n) \/ Has(toNode[n], r)
<1>1. CASE toNode[n] # <<>> /\ toNode'[n] = Tail(toNode[n])
  <2>1. toNode[n] \in Seq(ToNodeFrames)
    BY RouteTypes
  <2> QED BY <1>1, <2>1, Shifted DEF Has
<1> QED BY <1>1 DEF TrafficOn

\* A node works on what it was assigned.
LEMMA WorkSteady ==
  ASSUME TypeInv, NEW n \in Nodes, NodeStep(n) \/ Drop(n) \/ FailLoad(n),
         NEW m \in Nodes, committed[m] # NoRange, Steady(m), RouteInv, committed' = committed
  PROVE  Steady(m)'
<1>1. CASE m # n
  <2>1. /\ toNode'[m] = toNode[m] /\ tasks'[m] = tasks[m] /\ shard'[m] = shard[m]
    BY <1>1, RouteTypes DEF NodeStep, Connect, SeesClose, Drop, Disconnect, Receive,
       SkipAssign, KeepShard, StartLoad, FinishLoad, FailLoad, Prefetch, netVars,
       TypeInv, TypeOK, NodesTyped, NetTyped
  <2> QED BY <2>1 DEF Steady
<1>2. CASE m = n
  <2>0. /\ tasks \in [Nodes -> Seq(Tasks)] /\ toNode \in [Nodes -> Seq(ToNodeFrames)]
        /\ shard \in [Nodes -> Ranges \cup {NoRange}]
    BY DEF TypeInv, TypeOK, NodesTyped, NetTyped
  <2>1. CASE Connect(n)
    BY <1>2, <2>1 DEF Connect, Steady
  <2>2. CASE \E k : Disconnect(n, k)
    <3>1. shard'[n] = NoRange /\ tasks'[n] = <<>> /\ toNode'[n] = <<>>
      BY <2>0, <2>2 DEF Disconnect
    <3> QED BY <1>2, <3>1, EmptyQueue DEF Steady
  <2>3. CASE Receive(n)
    <3>1. /\ toNode[n] # <<>> /\ Head(toNode[n]).t \in TaskKinds /\ shard'[n] = shard[n]
          /\ toNode'[n] = Tail(toNode[n]) /\ tasks'[n] = Append(tasks[n], Head(toNode[n]))
      BY <2>0, <2>3 DEF Receive
    <3>2. Head(toNode[n]) \in Tasks
      BY <2>0, <3>1, TaskFrames, Shifted
    <3>3. /\ AllIn(Tail(toNode[n]), Asg, OfRange(committed[n]))
          /\ Head(toNode[n]).t \in Asg => Head(toNode[n]) \in OfRange(committed[n])
      BY <1>2, <2>0, <3>1, TakeHead DEF Steady
    <3>4. AllIn(Append(tasks[n], Head(toNode[n])), Asg, OfRange(committed[n]))
      BY <1>2, <2>0, <3>2, <3>3, AppendOther, AppendLast DEF Steady
    <3> QED BY <1>2, <3>1, <3>3, <3>4 DEF Steady
  <2>4. CASE SkipAssign(n) \/ KeepShard(n) \/ Prefetch(n) \/ FailLoad(n) \/ FinishLoad(n)
    <3>1. /\ tasks'[n] = Tail(tasks[n]) /\ toNode'[n] = toNode[n]
          /\ \/ shard'[n] = shard[n]
             \/ FinishLoad(n) /\ shard'[n] = Head(tasks[n]).range
      BY <2>0, <2>4 DEF SkipAssign, KeepShard, Prefetch, FailLoad, FinishLoad, netVars
    <3>2. tasks[n] # <<>>
      BY <2>4 DEF SkipAssign, KeepShard, Prefetch, FailLoad, FinishLoad, HeadIs, TypeInv, BusyHasAssign
    <3>3. AllIn(Tail(tasks[n]), Asg, OfRange(committed[n]))
      BY <1>2, <2>0, <3>2, TakeHead DEF Steady
    <3>4. FinishLoad(n) => Head(tasks[n]).range = committed[n]
      <4>1. FinishLoad(n) => Head(tasks[n]).t \in Asg
        BY DEF FinishLoad, TypeInv, BusyHasAssign, Asg
      <4> QED BY <1>2, <2>0, <3>2, <4>1, TakeHead DEF Steady, OfRange
    <3> QED BY <1>2, <3>1, <3>3, <3>4 DEF Steady
  <2>5. CASE StartLoad(n)
    <3>1. shard'[n] = NoRange /\ tasks'[n] = tasks[n] /\ toNode'[n] = toNode[n]
      BY <2>0, <2>5 DEF StartLoad, netVars
    <3> QED BY <1>2, <3>1 DEF Steady
  <2> QED BY <2>1, <2>2, <2>3, <2>4, <2>5 DEF NodeStep, SeesClose, Drop
<1> QED BY <1>1, <1>2

\* Until the next switch the hub assigns nothing but committed ranges.
LEMMA HubSteady ==
  ASSUME TypeInv, NEW m \in Nodes, Steady(m), committed[m] # NoRange, committed' = committed,
         UNCHANGED nodeVars,
         \/ toNode'[m] = toNode[m]
         \/ toNode'[m] = Append(toNode[m], [t |-> "assign", range |-> committed[m], gen |-> gen])
         \/ \E f \in Tasks : f.t \notin Asg /\ toNode'[m] = Append(toNode[m], f)
  PROVE  Steady(m)'
<1>0. toNode[m] \in Seq(ToNodeFrames) /\ committed[m] \in Ranges /\ gen \in Nat
  BY RouteTypes DEF TypeInv, TypeOK, ApplyTyped, Layouts
<1>1. CASE toNode'[m] = toNode[m]
  BY <1>1 DEF Steady, nodeVars
<1>2. CASE toNode'[m] = Append(toNode[m], [t |-> "assign", range |-> committed[m], gen |-> gen])
  <2> DEFINE f == [t |-> "assign", range |-> committed[m], gen |-> gen]
  <2>1. f \in Tasks /\ f \in ToNodeFrames /\ f \in OfRange(committed[m])
    BY <1>0 DEF Tasks, TaskKinds, ToNodeFrames, OfRange
  <2>2. f.t \in Asg
    BY DEF Asg
  <2> HIDE DEF f
  <2>3. AllIn(Append(toNode[m], f), Asg, OfRange(committed[m]))
    BY <1>0, <2>1, <2>2, AppendLast DEF Steady
  <2> QED BY <1>2, <2>3 DEF Steady, nodeVars, f
<1>3. CASE \E f \in Tasks : f.t \notin Asg /\ toNode'[m] = Append(toNode[m], f)
  <2>1. PICK f \in Tasks : f.t \notin Asg /\ toNode'[m] = Append(toNode[m], f)
    BY <1>3
  <2>2. f \in ToNodeFrames
    BY DEF ToNodeFrames
  <2> QED BY <1>0, <2>1, <2>2, AppendOther DEF Steady, nodeVars
<1> QED BY <1>1, <1>2, <1>3

\* What the hub asks of a node, but for the assigns of a hello and of a switch.
LEMMA HubAsks ==
  ASSUME TypeInv, NEW m \in Nodes,
         \/ \E n \in Nodes : StaleLeft(n) \/ HeartbeatLate(n) \/ Heartbeat(n) \/ Timeout(n)
         \/ ReplanApplies \/ ReplanParks \/ ManualReplan \/ ManualApplies
         \/ EndPrefetch \/ EndPrefetch2 \/ Drained \/ EndSwitch
  PROVE  /\ UNCHANGED nodeVars
         /\ \/ toNode'[m] = toNode[m]
            \/ \E f \in Tasks : f.t \notin Asg /\ toNode'[m] = Append(toNode[m], f)
<1>0. toNode \in [Nodes -> Seq(ToNodeFrames)] /\ gen \in Nat
  BY DEF TypeInv, TypeOK, NetTyped, ApplyTyped
<1>1. ASSUME NEW n \in Nodes, StaleLeft(n) \/ HeartbeatLate(n) \/ Heartbeat(n) \/ Timeout(n)
      PROVE  UNCHANGED nodeVars /\ toNode'[m] = toNode[m]
  BY <1>1 DEF StaleLeft, HeartbeatLate, Heartbeat, Timeout, netVars
<1>2. ASSUME NEW p \in Plans, NEW S \in SUBSET Members(p.at), PrefetchFor(p, S)
      PROVE  \/ toNode'[m] = toNode[m]
             \/ \E f \in Tasks : f.t \notin Asg /\ toNode'[m] = Append(toNode[m], f)
  <2> DEFINE f == [t |-> "prefetch", range |-> p.at[m], gen |-> gen + 1]
  <2>1. \/ toNode'[m] = toNode[m]
        \/ m \in S /\ toNode'[m] = Append(toNode[m], f)
    BY <1>2 DEF PrefetchFor, Unfetched
  <2>2. m \in S => f \in Tasks /\ f.t \notin Asg
    BY <1>0 DEF Tasks, TaskKinds, Asg, Members, Plans, Layouts
  <2> QED BY <2>1, <2>2
<1>3. ASSUME NEW p \in Plans, StartApply(p)
      PROVE  /\ UNCHANGED nodeVars
             /\ \/ toNode'[m] = toNode[m]
                \/ \E f \in Tasks : f.t \notin Asg /\ toNode'[m] = Append(toNode[m], f)
  <2>1. Changed(p.at) \subseteq Members(p.at)
    BY DEF Changed
  <2> QED BY <1>2, <1>3, <2>1 DEF StartApply
<1>4. CASE ReplanApplies
  <2>1. PICK A \in ComputePlan({}) : StartApply([at |-> A, known |-> Known])
    BY <1>4 DEF ReplanApplies
  <2>2. [at |-> A, known |-> Known] \in Plans
    BY ComputePlanTiles, PlanTyped
  <2> QED BY <1>3, <2>1, <2>2
<1>5. CASE ReplanParks \/ ManualReplan
  BY <1>5 DEF ReplanParks, ManualReplan, netVars
<1>6. CASE ManualApplies
  BY <1>3, <1>6 DEF ManualApplies, TypeInv, TypeOK, ApplyTyped
<1>7. CASE EndPrefetch \/ EndPrefetch2 \/ Drained \/ EndSwitch
  <2>1. CASE EndPrefetch
    <3>1. \/ toNode' = toNode
          \/ \E A \in ComputePlan(Failed \cup {n \in todo : ws[n] = 0}) :
               PrefetchFor([at |-> A, known |-> Known], {n \in Changed(A) : ws[n] # 0})
      BY <2>1 DEF EndPrefetch, StartDrain, Abandon
    <3>2. ASSUME NEW A \in ComputePlan(Failed \cup {n \in todo : ws[n] = 0}),
                 PrefetchFor([at |-> A, known |-> Known], {n \in Changed(A) : ws[n] # 0})
          PROVE  \/ toNode'[m] = toNode[m]
                 \/ \E f \in Tasks : f.t \notin Asg /\ toNode'[m] = Append(toNode[m], f)
      <4> DEFINE p == [at |-> A, known |-> Known]
                 S == {n \in Changed(A) : ws[n] # 0}
      <4>1. p \in Plans
        BY ComputePlanTiles, PlanTyped
      <4>2. S \in SUBSET Members(p.at) /\ PrefetchFor(p, S)
        BY <3>2 DEF Changed
      <4> HIDE DEF p, S
      <4> QED BY <1>2, <4>1, <4>2
    <3> QED BY <2>1, <3>1, <3>2 DEF EndPrefetch
  <2>2. CASE EndPrefetch2
    BY <2>2 DEF EndPrefetch2, StartDrain, Abandon
  <2>3. CASE Drained \/ EndSwitch
    BY <2>3 DEF Drained, EndSwitch, netVars
  <2> QED BY <1>7, <2>1, <2>2, <2>3
<1> QED BY <1>1, <1>4, <1>5, <1>6, <1>7

\* What the hub puts on its sockets, but for the assigns of a switch.
LEMMA HubSends ==
  ASSUME TypeInv, NEW m \in Nodes,
         \/ \E n \in Nodes, c \in Conns : HubHears(n, c)
         \/ \E n \in Nodes : StaleLeft(n) \/ HeartbeatLate(n) \/ Heartbeat(n) \/ Timeout(n)
         \/ ReplanApplies \/ ReplanParks \/ ManualReplan \/ ManualApplies
         \/ EndPrefetch \/ EndPrefetch2 \/ Drained \/ EndSwitch
  PROVE  /\ UNCHANGED nodeVars
         /\ \/ toNode'[m] = toNode[m]
            \/ committed[m] # NoRange /\
               toNode'[m] = Append(toNode[m], [t |-> "assign", range |-> committed[m], gen |-> gen])
            \/ \E f \in Tasks : f.t \notin Asg /\ toNode'[m] = Append(toNode[m], f)
<1>0. toNode \in [Nodes -> Seq(ToNodeFrames)] /\ gen \in Nat
  BY DEF TypeInv, TypeOK, NetTyped, ApplyTyped
<1>1. ASSUME NEW n \in Nodes, NEW c \in Conns, HubHears(n, c)
      PROVE  /\ UNCHANGED nodeVars
             /\ \/ toNode'[m] = toNode[m]
                \/ committed[m] # NoRange /\
                   toNode'[m] = Append(toNode[m], [t |-> "assign", range |-> committed[m], gen |-> gen])
  <2>1. CASE HubHello(n, c)
    BY <1>0, <2>1 DEF HubHello, Sent
  <2>2. CASE ~HubHello(n, c)
    BY <1>1, <2>2 DEF HubHears, HubReady, HubError, HubPrefetched, HandlerEnds
  <2> QED BY <2>1, <2>2
<1> QED BY <1>1, HubAsks

\* What is steady stays so, outside a switch.
LEMMA SteadyKept ==
  ASSUME TypeInv, RouteInv, NEW n \in Nodes, [Next]_vars, phase \notin Switching,
         committed[n] # NoRange, committed' = committed, Steady(n)
  PROVE  Steady(n)'
<1>1. CASE UNCHANGED vars \/ Begin \/ Finish
  BY <1>1 DEF vars, Begin, Finish, nodeVars, netVars, Steady
<1>2. CASE \E m \in Nodes : NodeStep(m) \/ Drop(m) \/ FailLoad(m)
  BY <1>2, WorkSteady
<1>3. CASE \/ \E m \in Nodes, c \in Conns : HubHears(m, c)
           \/ \E m \in Nodes : StaleLeft(m) \/ HeartbeatLate(m) \/ Heartbeat(m) \/ Timeout(m)
           \/ ReplanApplies \/ ReplanParks \/ ManualReplan \/ ManualApplies
           \/ EndPrefetch \/ EndPrefetch2 \/ Drained \/ EndSwitch
  BY <1>3, HubSends, HubSteady
<1> QED BY <1>1, <1>2, <1>3 DEF Next, Rebalancing, ApplyStep, SwitchSend

\* A node is linked to the hub by its hello.
LEMMA Links ==
  ASSUME TypeInv, RouteInv, NEW n \in Nodes, [Next]_vars, ~Linked(n), Linked(n)'
  PROVE  conn[n] \in Conns /\ up[n] /\ HubHello(n, conn[n])
<1>0. /\ ws \in [Nodes -> 0 .. MaxConn] /\ conn \in [Nodes -> 0 .. MaxConn]
      /\ up \in [Nodes -> BOOLEAN] /\ SocketOf(n)
  BY DEF TypeInv, TypeOK, RecordsTyped, NodesTyped, RouteInv, RouteOf
<1>1. CASE UNCHANGED <<ws, conn, up>>
  BY <1>1 DEF Linked
<1>2. CASE \E m \in Nodes : NodeStep(m) \/ Drop(m) \/ FailLoad(m)
  <2>1. ws' = ws
    BY <1>2 DEF NodeStep, Connect, SeesClose, Drop, Disconnect, Receive,
       SkipAssign, KeepShard, StartLoad, FinishLoad, FailLoad, Prefetch, recordVars
  <2>2. CASE conn'[n] = conn[n] /\ (up'[n] => up[n])
    BY <2>1, <2>2 DEF Linked
  <2>3. CASE conn'[n] = conn[n] + 1
    <3>1. ws[n] <= conn[n]
      BY <1>0 DEF SocketOf, Socket
    <3> QED BY <1>0, <2>1, <2>3, <3>1 DEF Linked
  <2>4. \/ conn'[n] = conn[n] /\ (up'[n] => up[n])
        \/ conn'[n] = conn[n] + 1
    BY <1>0, <1>2 DEF NodeStep, Connect, SeesClose, Drop, Disconnect, Receive,
       SkipAssign, KeepShard, StartLoad, FinishLoad, FailLoad, Prefetch
  <2> QED BY <2>2, <2>3, <2>4
<1>3. ASSUME NEW m \in Nodes, NEW c \in Conns, HubHears(m, c)
      PROVE  conn[n] \in Conns /\ up[n] /\ HubHello(n, conn[n])
  <2>1. UNCHANGED <<conn, up>>
    BY <1>3 DEF HubHears, HubHello, HubReady, HubError, HubPrefetched, HandlerEnds, nodeVars
  <2>2. up[n] /\ conn[n] # 0 /\ ws'[n] = conn[n] /\ ws[n] # conn[n] /\ conn[n] \in Conns
    BY <1>0, <2>1, OnAConnection DEF Linked, SocketOf, Socket
  <2>3. HubHello(m, c)
    BY <1>0, <1>3, <2>2 DEF HubHears, HubReady, HubError, HubPrefetched, HandlerEnds, Left,
       recordVars
  <2>4. m = n /\ c = conn[n]
    BY <1>0, <2>2, <2>3 DEF HubHello
  <2> QED BY <2>2, <2>3, <2>4
<1>4. CASE \E m \in Nodes : StaleLeft(m)
  <2>1. UNCHANGED <<conn, up>> /\ ws'[n] \in {ws[n], 0}
    BY <1>0, <1>4 DEF StaleLeft, Left, nodeVars
  <2> QED BY <1>0, <2>1 DEF Linked, SocketOf, Socket
<1>5. CASE \/ \E m \in Nodes : HeartbeatLate(m) \/ Heartbeat(m) \/ Timeout(m)
           \/ ReplanApplies \/ ReplanParks \/ ManualReplan \/ ManualApplies
           \/ ApplyStep \/ Begin \/ Finish
  BY <1>1, <1>5 DEF HeartbeatLate, Heartbeat, Timeout, ReplanApplies, ReplanParks,
     ManualReplan, ManualApplies, StartApply, ApplyStep, EndPrefetch, EndPrefetch2,
     Drained, EndSwitch, SwitchSend, Begin, Finish, recordVars, nodeVars
<1> QED BY <1>1, <1>2, <1>3, <1>4, <1>5 DEF Next, Rebalancing, vars, recordVars, nodeVars

\* A member that is linked anew has nothing, and is told its range at most.
LEMMA LinksSteady ==
  ASSUME TypeInv, RouteInv, ~Linger, NEW n \in Nodes, committed[n] # NoRange,
         committed' = committed, up[n], conn[n] \in Conns, HubHello(n, conn[n])
  PROVE  Steady(n)' /\ shard'[n] = NoRange
<1>0. /\ toNode \in [Nodes -> Seq(ToNodeFrames)] /\ gen \in Nat /\ committed[n] \in Ranges
      /\ SocketOf(n)
  BY DEF TypeInv, TypeOK, NetTyped, ApplyTyped, Layouts, RouteInv, RouteOf
<1>1. tasks'[n] = <<>> /\ UNCHANGED nodeVars
  BY HelloLinks DEF HubHello
<1>2. ~Free(toHub[n][conn[n]], Hello)
  <2>1. /\ toHub[n][conn[n]] # <<>> /\ Head(toHub[n][conn[n]]).t = "hello"
        /\ toHub[n][conn[n]] \in Seq(ToHubFrames)
    BY RouteTypes DEF HubHello, Hears
  <2> QED BY <2>1, Shifted DEF Free, Hello
<1>3. shard[n] = NoRange /\ toNode[n] = <<>> /\ tasks[n] = <<>>
  BY <1>0, <1>2 DEF SocketOf, Socket
<1>4. Steady(n)
  BY <1>3, EmptyQueue DEF Steady
<1>5. \/ toNode'[n] = toNode[n]
      \/ toNode'[n] = Append(toNode[n], [t |-> "assign", range |-> committed[n], gen |-> gen])
  BY <1>0 DEF HubHello, Sent
<1> QED BY <1>1, <1>3, <1>4, <1>5, HubSteady DEF nodeVars

\* Members that a request of the present generation reaches are steady.
LEMMA StepSteady ==
  ASSUME RoutedInv, RoutedInv', LinkInv, EpochInv, SteadyInv, ~Linger,
         [ServingNext]_allVars
  PROVE  SteadyInv'
<1> SUFFICES ASSUME NEW n \in Nodes, NEW r \in Reqs, n \in Members(committed'), Fits(r)',
                    Linked(n)' \/ Has(toNode'[n], r)
             PROVE  Steady(n)'
  BY DEF SteadyInv, SteadyFor, Members
<1>0. /\ TypeInv /\ ServingInv /\ ServingInv' /\ RouteInv /\ LayoutInv
  BY DEF RoutedInv, ServingInv
<1>1. /\ \/ Fits(r)
         \/ ServingStep /\ \E q : Goes(r, q) /\ Admitted(r, q)
      /\ committed' = committed /\ phase \notin Switching
  BY FitsOn
<1>2. committed[n] # NoRange /\ n \in Members(committed)
  BY <1>1 DEF Members
<1>3. CASE ServingStep
  <2>1. UNCHANGED <<recordVars, nodeVars>> /\ TrafficOn(n)
    BY <1>0, <1>3, ServingTraffic
  <2>2. Linked(n)' <=> Linked(n)
    BY <2>1 DEF Linked, recordVars, nodeVars
  <2>3. Linked(n) \/ Has(toNode[n], r)
    BY <1>0, <2>1, <2>2, TrafficHas
  <2>4. Steady(n)
    <3>1. CASE Fits(r)
      BY <1>2, <2>3, <3>1 DEF SteadyInv, SteadyFor
    <3>2. CASE \E q : Goes(r, q) /\ Admitted(r, q)
      <4>1. PipelineComplete /\ req[r].st = "called"
        BY <3>2 DEF Admitted
      <4>2. Serves(n)
        BY <1>0, <1>2, <4>1, ServesAll
      <4>3. Sites(r) = {}
        BY <1>0, <4>1 DEF ServingInv, Copies, Idles
      <4>4. Linked(n)
        BY <2>3, <4>3, NoSites
      <4> QED BY <1>0, <4>2, <4>4, ServesSteady
    <3> QED BY <1>1, <3>1, <3>2
  <2> QED BY <1>0, <1>1, <2>1, <2>4, TrafficSteady
<1>4. CASE ~ServingStep
  <2>1. Fits(r) /\ [Next]_vars
    BY <1>1, <1>4, StepIs
  <2>2. CASE Linked(n) \/ Has(toNode[n], r)
    <3>1. Steady(n)
      BY <1>2, <2>1, <2>2 DEF SteadyInv, SteadyFor
    <3> QED BY <1>0, <1>1, <1>2, <2>1, <3>1, SteadyKept
  <2>3. CASE ~Linked(n) /\ ~Has(toNode[n], r)
    <3>1. CASE Linked(n)'
      BY <1>0, <1>1, <1>2, <2>1, <2>3, <3>1, Links, LinksSteady
    <3>2. CASE Has(toNode'[n], r)
      <4>1. NodeQueuesThin
        <5>1. CASE Rebalancing
          BY <1>0, <5>1, RebalancingThins
        <5>2. CASE UNCHANGED allVars
          BY <5>2, NodeSame DEF allVars, vars, netVars
        <5> QED BY <1>4, <5>1, <5>2 DEF ServingNext
      <4> QED BY <2>3, <3>2, <4>1, ThinHas
    <3> QED BY <3>1, <3>2
  <2> QED BY <2>2, <2>3
<1> QED BY <1>3, <1>4

\* No request runs at first.
LEMMA InitSteady == ServingInit => SteadyInv
BY DEF ServingInit, SteadyInv, SteadyFor, Fits, Running

-----------------------------------------------------------------------------
(***************************************************************************)
(* Every pass goes once through every layer.                               *)
(***************************************************************************)

\* The copy of a request that waits is with the node it waits for, or on its way
\* to it or back.
PlaceOf(r) ==
  Pends(req[r], fut[r]) =>
    \A n \in Nodes : AtNode(n, r) \/ AtHub(n, r) => n = Owner(req[r])
PlaceInv == \A r \in Reqs : PlaceOf(r)

\* What r will have of the layers once its hop is done.
HopEnd(r) == req[r].pipe[Owner(req[r])][2]

\* An activation of this generation went through the layers before its hop, and an
\* answer is of those of the hop too.
PassOf(r) ==
  Fits(r) =>
    /\ req[r].st = "between" => req[r].x.at = NLayers /\ req[r].x.upto = NLayers
    /\ req[r].st \in Hopping /\ fut[r] = "open" => req[r].x.upto = req[r].x.at
    /\ req[r].st \in Hopping /\ fut[r] = "ok" => req[r].x.upto = HopEnd(r)
    /\ Pends(req[r], fut[r]) =>
         \A n \in Nodes, c \in Conns : \A i \in DOMAIN toHub[n][c] :
           LET f == toHub[n][c][i] IN
             Carries(f, r) /\ f.ok => f.x[r].upto = HopEnd(r)
PassInv == \A r \in Reqs : PassOf(r)

\* A request that is handed on had no copy, and waits for the node that is next.
LEMMA GoesOn ==
  ASSUME ServingInv, NEW r \in Reqs, NEW q, Goes(r, q)
  PROVE  /\ Sites(r) = {} /\ fut'[r] = "open" /\ req'[r].st \in Hopping
         /\ req'[r].x = q.x /\ req'[r].pipe = q.pipe /\ Owner(req'[r]) = Owner(q)
<1>1. Idles(req[r], fut[r])
  BY DEF Goes, Admitted, Starts, Proceeds, Idles
<1>2. req[r] \in Requests /\ req \in [Reqs -> Requests] /\ fut \in [Reqs -> Futures]
  BY Typed
<1>3. PICK st \in Hopping : req' = [req EXCEPT ![r] = [q EXCEPT !.st = st]]
  BY DEF Goes, Hop, Hopping
<1>4. \E a, g, p, h, x : q = [st |-> a, gen |-> g, pipe |-> p, home |-> h, x |-> x]
  BY <1>2 DEF Goes, Admitted, Starts, Proceeds, Requests
<1>5. req'[r].st \in Hopping /\ req'[r].x = q.x /\ req'[r].pipe = q.pipe
  BY <1>2, <1>3, <1>4
<1> QED BY <1>1, <1>2, <1>5 DEF Goes, Hop, ServingInv, Copies, Owner

\* So is one whose pace is over.
LEMMA PacedOn ==
  ASSUME ServingInv, NEW r \in Reqs, Paced(r)
  PROVE  /\ fut[r] = "open" => Sites(r) = {}
         /\ fut'[r] = fut[r] /\ fut[r] # "ok" /\ req'[r].st = "waiting"
         /\ req'[r].x = req[r].x /\ req'[r].pipe = req[r].pipe
         /\ Owner(req'[r]) = Owner(req[r])
<1>1. fut[r] = "open" => Idles(req[r], fut[r])
  BY DEF Paced, Idles
<1>2. req[r] \in Requests /\ fut[r] # "ok"
  BY Typed DEF Paced, ServingInv, RequestsSound, Sound
<1>3. req'[r].st = "waiting" /\ req'[r].x = req[r].x /\ req'[r].pipe = req[r].pipe
  BY <1>2 DEF Paced, Requests
<1> QED BY <1>1, <1>2, <1>3 DEF Paced, ServingInv, Copies, Owner

\* A copy goes back and forth between the hub and one node.
LEMMA FlowsWithin ==
  ASSUME ServingInv, NEW r \in Reqs, Flows(r), NEW n \in Nodes, AtNode(n, r)' \/ AtHub(n, r)'
  PROVE  AtNode(n, r) \/ AtHub(n, r)
<1>1. CASE AtNode(n, r)'
  BY <1>1 DEF Flows
<1>2. CASE AtHub(n, r)'
  <2>1. PICK c \in Conns : \E k \in DOMAIN toHub'[n][c] : Carries(toHub'[n][c][k], r)
    BY <1>2 DEF AtHub, Has
  <2> PICK i \in DOMAIN toHub'[n][c] : Carries(toHub'[n][c][i], r)
    BY <2>1
  <2>2. CASE \E j \in DOMAIN toHub[n][c] : toHub[n][c][j] = toHub'[n][c][i]
    BY <2>1, <2>2 DEF AtHub, Has
  <2>3. CASE Made(n, r, toHub'[n][c][i])
    <3>1. toNode[n] \in Seq(ToNodeFrames)
      BY Typed
    <3>2. 1 \in DOMAIN toNode[n] /\ Carries(toNode[n][1], r)
      BY <2>3, <3>1, Shifted DEF Made
    <3> QED BY <3>2 DEF AtNode, Has
  <2> QED BY <2>1, <2>2, <2>3 DEF Flows
<1> QED BY <1>1, <1>2

\* Requests wait for copies that are where they should be.
LEMMA StepPlace ==
  ASSUME ServingInv, PlaceInv, [ServingNext]_allVars
  PROVE  PlaceInv'
<1> SUFFICES ASSUME NEW r \in Reqs, Pends(req'[r], fut'[r]), NEW n \in Nodes,
                    AtNode(n, r)' \/ AtHub(n, r)'
             PROVE  n = Owner(req'[r])
  BY DEF PlaceInv, PlaceOf
<1>1. ASSUME NEW q, Goes(r, q)
      PROVE  n = Owner(req'[r])
  BY <1>1, GoesOn, HandedOn
<1>2. CASE Paced(r)
  <2>1. Sites(r) = {}
    BY <1>2, PacedOn DEF Pends
  <2> QED BY <1>2, <2>1, PacedOn, HandedOn
<1>3. CASE Flows(r) /\ Rests(r)
  <2>1. Pends(req[r], fut[r]) /\ req'[r] = req[r]
    BY <1>3 DEF Rests, Pends
  <2> QED BY <1>3, <2>1, FlowsWithin DEF PlaceInv, PlaceOf
<1>4. ~Passes(r)
  BY DEF Passes, Pends
<1>5. ~Answered(r)
  BY DEF Answered, Pends
<1>6. ~Gone(r)
  BY DEF Gone, Pends, Running
<1> QED BY <1>1, <1>2, <1>3, <1>4, <1>5, <1>6, StepChanges, StepFlows DEF Changes

\* What the node makes of the activation of a request it is routed for.
LEMMA MadeRight ==
  ASSUME RoutedInv, EpochInv, SteadyInv, PlaceInv, PassInv, NEW r \in Reqs, Fits(r),
         Pends(req[r], fut[r]), NEW n \in Nodes, NEW g, Made(n, r, g), g.ok
  PROVE  /\ n = Owner(req[r]) /\ shard[n] = committed[n] /\ g.x[r].upto = HopEnd(r)
         /\ g.x[r].whole = (req[r].x.whole /\ cache[n][r] = req[r].x.pass)
         /\ cache'[n][r] = cache[n][r] + 1
<1> DEFINE f == Head(toNode[n])
<1>0. ServingInv /\ toNode[n] \in Seq(ToNodeFrames) /\ req[r] \in Requests
  BY Typed DEF RoutedInv
<1>1. /\ toNode[n] # <<>> /\ Carries(f, r) /\ shard[n] # NoRange
      /\ g.x[r] = Applied(n, r, f.x[r]) /\ cache'[n][r] = cache[n][r] + 1
  BY DEF Made
<1>2. 1 \in DOMAIN toNode[n] /\ f = toNode[n][1] /\ Has(toNode[n], r)
  BY <1>0, <1>1, Shifted DEF Has
<1>3. n = Owner(req[r])
  BY <1>2 DEF PlaceInv, PlaceOf, AtNode
<1>4. f.x[r] = req[r].x
  BY <1>0, <1>1, <1>2 DEF ServingInv, Copies, Match
<1>5. req[r].st \in Hopping
  BY DEF Pends, Hopping
<1>6. req[r].pipe[n] # NoRange /\ req[r].pipe[n][1] = req[r].x.at
  BY <1>0, <1>3, <1>5, OnHop
<1>7. req[r].pipe = committed
  BY DEF EpochInv, EpochOf, Fits
<1>8. shard[n] = committed[n]
  BY <1>1, <1>2, <1>6, <1>7 DEF SteadyInv, SteadyFor, Steady, Members
<1>9. req[r].x.upto = req[r].x.at
  BY <1>5 DEF PassInv, PassOf, Pends
<1>10. req[r].x \in Acts
  BY <1>0 DEF Requests
<1> HIDE DEF f
<1>11. g.x[r].upto = committed[n][2]
  BY <1>1, <1>4, <1>6, <1>7, <1>8, <1>9, <1>10 DEF Applied, Acts
<1>12. g.x[r].whole = (req[r].x.whole /\ cache[n][r] = req[r].x.pass)
  BY <1>1, <1>4, <1>10 DEF Applied, Acts
<1> QED BY <1>1, <1>3, <1>7, <1>8, <1>11, <1>12 DEF HopEnd

Over(q, e) == [q EXCEPT !.x.at = e, !.st = "between", !.x.pass = @ + 1]

\* What is left of the last hop when the pass is over.
LEMMA PassOver ==
  ASSUME NEW q \in Requests, NEW e
  PROVE  /\ Over(q, e).st = "between" /\ Over(q, e).x.at = e
         /\ Over(q, e).x.upto = q.x.upto /\ Over(q, e).x.whole = q.x.whole
         /\ Over(q, e).x.pass = q.x.pass + 1 /\ Over(q, e).pipe = q.pipe
<1> DEFINE y == [q.x EXCEPT !.at = e]
           z == [y EXCEPT !.pass = @ + 1]
<1>1. Over(q, e) = [q EXCEPT !.x = z, !.st = "between"]
  BY DEF Over, Requests, Acts
<1>2. z.at = e /\ z.upto = q.x.upto /\ z.whole = q.x.whole /\ z.pass = q.x.pass + 1
  BY DEF Requests, Acts
<1> HIDE DEF z
<1> QED BY <1>1, <1>2 DEF Requests

\* Passes of the present generation go through its layers in order.
LEMMA StepPass ==
  ASSUME RoutedInv, EpochInv, SteadyInv, PlaceInv, PassInv, [ServingNext]_allVars
  PROVE  PassInv'
<1> SUFFICES ASSUME NEW r \in Reqs, Fits(r)' PROVE PassOf(r)'
  BY DEF PassInv, PassOf
<1>0. ServingInv /\ req[r] \in Requests
  BY Typed DEF RoutedInv
<1>1. Fits(r) \/ \E q : Goes(r, q) /\ Admitted(r, q)
  BY FitsOn
<1>2. ASSUME NEW q, Goes(r, q)
      PROVE  PassOf(r)'
  <2>1. q.x.upto = q.x.at
    <3>1. CASE Admitted(r, q)
      BY <3>1 DEF Admitted, FirstAct
    <3>2. CASE Starts(r, q)
      BY <1>0, <3>2 DEF Starts, Requests, Acts
    <3>3. CASE Proceeds(r, q)
      <4>1. Fits(r)
        BY <1>1, <3>3 DEF Goes, Proceeds, Admitted
      <4>2. req[r].x.upto = HopEnd(r)
        BY <3>3, <4>1 DEF Proceeds, PassInv, PassOf, Hopping
      <4> QED BY <1>0, <3>3, <4>2 DEF Proceeds, HopEnd, Requests, Acts
    <3> QED BY <1>2, <3>1, <3>2, <3>3 DEF Goes
  <2>2. /\ Sites(r) = {} /\ fut'[r] = "open" /\ req'[r].st \in Hopping /\ req'[r].x = q.x
    BY <1>0, <1>2, GoesOn
  <2>3. \A m \in Nodes : ~AtHub(m, r)'
    BY <1>0, <1>2, <2>2, HandedOn
  <2> QED BY <2>1, <2>2, <2>3 DEF PassOf, AtHub, Has, Hopping
<1>3. CASE Paced(r)
  <2>1. Fits(r) /\ req[r].st \in Hopping
    BY <1>1, <1>2, <1>3 DEF Paced, Hopping, Goes, Admitted, Starts, Proceeds
  <2>2. /\ fut[r] = "open" => Sites(r) = {}
        /\ fut'[r] = fut[r] /\ fut[r] # "ok" /\ req'[r].st = "waiting"
        /\ req'[r].x = req[r].x
    BY <1>0, <1>3, PacedOn
  <2>3. fut[r] = "open" => \A m \in Nodes : ~AtHub(m, r)'
    BY <1>0, <1>3, <2>2, HandedOn
  <2>4. fut[r] = "open" => req[r].x.upto = req[r].x.at
    BY <2>1 DEF PassInv, PassOf
  <2> QED BY <2>2, <2>3, <2>4 DEF PassOf, AtHub, Has, Pends
<1>4. CASE Fits(r) /\ Passes(r)
  <2>1. req[r].st \in Hopping /\ fut[r] = "ok" /\ ~(HopEnd(r) < NLayers)
    BY <1>4 DEF Passes, Hopping, HopEnd
  <2>2. req[r].x.upto = HopEnd(r)
    BY <1>4, <2>1 DEF PassInv, PassOf
  <2>3. Owner(req[r]) \in Nodes /\ req[r].pipe \in Layouts
    BY <1>0, <2>1, OnHop DEF Requests
  <2>4. HopEnd(r) \in 0 .. NLayers
    BY <2>3, NLayersAssumption DEF HopEnd, Layouts, Ranges, NoRange
  <2>5. HopEnd(r) = NLayers
    BY <2>1, <2>4, NLayersAssumption
  <2>6. req'[r].st = "between" /\ req'[r].x.at = HopEnd(r) /\ req'[r].x.upto = req[r].x.upto
    <3>1. req'[r] = Over(req[r], HopEnd(r))
      BY <1>4 DEF Passes, HopEnd, Over
    <3> QED BY <1>0, <3>1, PassOver
  <2> QED BY <2>2, <2>5, <2>6 DEF PassOf, Hopping, Pends
<1>5. CASE Fits(r) /\ Answered(r)
  <2>1. PICK n \in Nodes, c \in Conns :
          LET f == Head(toHub[n][c]) IN
            /\ toHub[n][c] # <<>> /\ f.ok
            /\ Carries(f, r) /\ Pends(req[r], fut[r])
            /\ f.x[r].pass = req[r].x.pass /\ f.x[r].at = req[r].x.at
            /\ req'[r] = [req[r] EXCEPT !.x = f.x[r]] /\ fut'[r] = "ok"
    BY <1>5 DEF Answered
  <2> DEFINE f == Head(toHub[n][c])
  <2>2. 1 \in DOMAIN toHub[n][c] /\ f = toHub[n][c][1]
    <3>1. toHub[n][c] \in Seq(ToHubFrames)
      BY <1>0, Typed
    <3> QED BY <2>1, <3>1, Shifted
  <2>3. f.x[r].upto = HopEnd(r)
    BY <1>5, <2>1, <2>2 DEF PassInv, PassOf
  <2>4. /\ req'[r].x = f.x[r] /\ req'[r].pipe = req[r].pipe /\ req'[r].st = req[r].st
        /\ fut'[r] = "ok" /\ f.x[r].at = req[r].x.at
    BY <1>0, <2>1 DEF Requests
  <2> HIDE DEF f
  <2>5. HopEnd(r)' = HopEnd(r)
    BY <2>4 DEF HopEnd, Owner
  <2> QED BY <2>1, <2>3, <2>4, <2>5 DEF PassOf, Pends
<1>6. CASE Fits(r) /\ Rests(r) /\ Flows(r)
  <2>1. req'[r] = req[r] /\ fut'[r] \in {fut[r], "failed"} /\ PassOf(r)
    BY <1>6 DEF Rests, PassInv
  <2>2. HopEnd(r)' = HopEnd(r)
    BY <2>1 DEF HopEnd
  <2>3. ASSUME Pends(req'[r], fut'[r]), NEW n \in Nodes, NEW c \in Conns,
               NEW i \in DOMAIN toHub'[n][c], Carries(toHub'[n][c][i], r), toHub'[n][c][i].ok
        PROVE  toHub'[n][c][i].x[r].upto = HopEnd(r)
    <3> DEFINE g == toHub'[n][c][i]
    <3>1. Pends(req[r], fut[r])
      BY <2>1, <2>3 DEF Pends
    <3>2. Made(n, r, g) \/ \E j \in DOMAIN toHub[n][c] : toHub[n][c][j] = g
      BY <1>6, <2>3 DEF Flows
    <3>3. CASE Made(n, r, g)
      BY <1>6, <2>3, <3>1, <3>3, MadeRight
    <3>4. CASE \E j \in DOMAIN toHub[n][c] : toHub[n][c][j] = g
      BY <1>6, <2>1, <2>3, <3>1, <3>4 DEF PassOf
    <3> QED BY <3>2, <3>3, <3>4
  <2> QED BY <1>6, <2>1, <2>2, <2>3 DEF PassOf
<1>7. ~Gone(r)
  BY DEF Gone, Fits
<1>8. Fits(r) \/ \E q : Goes(r, q)
  BY <1>1
<1>9. Changes(r)
  BY <1>0, StepChanges
<1>10. Flows(r) \/ Paced(r) \/ \E q : Goes(r, q)
  BY <1>0, StepFlows
<1> QED BY <1>2, <1>3, <1>4, <1>5, <1>6, <1>7, <1>8, <1>9, <1>10 DEF Changes

\* Nothing is between nodes at first.
LEMMA InitPass == ServingInit => PlaceInv /\ PassInv
BY DEF ServingInit, PlaceInv, PlaceOf, PassInv, PassOf, Fits, Running, Pends

PassesInv ==
  RoutedInv /\ GenInv /\ LinkInv /\ EpochInv /\ SteadyInv /\ PlaceInv /\ PassInv

\* Passes stay on one layout in every step ...
LEMMA StepPasses == PassesInv /\ Prompt /\ [ServingNext]_allVars => PassesInv'
<1> SUFFICES ASSUME PassesInv, Prompt, [ServingNext]_allVars PROVE PassesInv'
  OBVIOUS
<1>1. RoutedInv' /\ GenInv' /\ LinkInv'
  BY StepPrompt DEF PassesInv
<1>2. EpochInv'
  BY StepEpoch DEF PassesInv
<1>3. SteadyInv'
  BY <1>1, StepSteady DEF PassesInv, Prompt
<1>4. PlaceInv'
  BY StepPlace DEF PassesInv, RoutedInv
<1>5. PassInv'
  BY StepPass DEF PassesInv
<1> QED BY <1>1, <1>2, <1>3, <1>4, <1>5 DEF PassesInv

\* ... and so always.
LEMMA PassesInvariant ==
  ASSUME ~Linger, ~RejoinMidSwitch, ~LateAnswers
  PROVE  ServingSpec => []PassesInv
<1>1. Init /\ ServingInit => PassesInv
  BY InitRouted, InitEpoch, InitSteady, InitPass DEF PassesInv
<1>2. PassesInv /\ [ServingNext]_allVars => PassesInv'
  BY StepPasses DEF Prompt
<1> QED BY <1>1, <1>2, PTL DEF ServingSpec

\* A request whose generation is still the cluster's went once through every layer,
\* in order, in every pass it finished (forward_all and gen_gate in hub.py),
\* whatever rebalances, reconnects, cancellations and late answers of other
\* requests crossed it; for switches whose answers come in time.
THEOREM PassesKeepOneLayout ==
  ASSUME ~Linger, ~RejoinMidSwitch, ~LateAnswers
  PROVE  ServingSpec => []SameGenerationSameLayout
<1>1. PassesInv => SameGenerationSameLayout
  <2> SUFFICES ASSUME PassesInv, NEW r \in Running, Finished(r), req[r].gen = gen
               PROVE  req[r].x.upto = NLayers
    BY DEF SameGenerationSameLayout
  <2>1. r \in Reqs /\ req[r].st = "between"
    BY DEF Running, Finished
  <2> QED BY <2>1 DEF PassesInv, PassInv, PassOf, Fits
<1> QED BY <1>1, PassesInvariant, PTL

-----------------------------------------------------------------------------
(***************************************************************************)
(* A request that is over leaves no cache behind.                          *)
(***************************************************************************)

\* Without batching no row waits for a runner: a request that is cancelled has no
\* copy at the hub that could still be sent.
NoBatch == \A n \in Nodes : queue[n] = <<>> /\ sent[n] = {}

\* n is told to drop the cache of r, after all that it still gets of r.
IsReset(f, r)  == f.t = "reset" /\ f.req = r
Released(q, r) ==
  \E i \in DOMAIN q : IsReset(q[i], r) /\ \A j \in DOMAIN q : j > i => ~Carries(q[j], r)

\* A node the hub reaches has a cache of r, or gets a forward that makes one, only
\* while r runs and will tell it to drop the cache, or has told it.
ReleaseOf(n, r) ==
  Linked(n) /\ (cache[n][r] > 0 \/ Has(toNode[n], r)) =>
    (r \in Running /\ n \in req[r].home) \/ Released(toNode[n], r)
EmptyWithoutShard == \A n \in Nodes : shard[n] = NoRange => cache[n] = EmptyCache
ReleaseInv ==
  NoBatch /\ EmptyWithoutShard /\ \A n \in Nodes, r \in Reqs : ReleaseOf(n, r)

\* A reset in a queue stays the last word on its request.
LEMMA ReleasedAppend ==
  ASSUME NEW S, NEW q \in Seq(S), NEW r, NEW f
  PROVE  /\ Released(q, r) /\ ~Carries(f, r) => Released(Append(q, f), r)
         /\ IsReset(f, r) => Released(Append(q, f), r)
         /\ Has(Append(q, f), r) /\ ~Carries(f, r) => Has(q, r)
<1> DEFINE p == Append(q, f)
           k == Len(q) + 1
<1>1. /\ DOMAIN q = 1 .. Len(q) /\ Len(q) \in Nat
      /\ DOMAIN p = 1 .. k /\ p[k] = f /\ \A i \in DOMAIN q : p[i] = q[i]
  OBVIOUS
<1> HIDE DEF p
<1>2. ASSUME Released(q, r), ~Carries(f, r)
      PROVE  Released(p, r)
  <2>1. PICK i \in DOMAIN q : IsReset(q[i], r) /\ \A j \in DOMAIN q : j > i => ~Carries(q[j], r)
    BY <1>2 DEF Released
  <2>2. i \in DOMAIN p /\ IsReset(p[i], r)
    BY <1>1, <2>1
  <2>3. \A j \in DOMAIN p : j > i => ~Carries(p[j], r)
    BY <1>1, <1>2, <2>1
  <2> QED BY <2>2, <2>3 DEF Released
<1>3. IsReset(f, r) => Released(p, r)
  <2>1. k \in DOMAIN p /\ \A j \in DOMAIN p : ~(j > k)
    BY <1>1
  <2> QED BY <1>1, <2>1 DEF Released
<1>4. Has(p, r) /\ ~Carries(f, r) => Has(q, r)
  BY <1>1 DEF Has
<1> QED BY <1>2, <1>3, <1>4 DEF p

\* A frame is read: another one, or the reset itself with nothing of r after it.
LEMMA ReleasedTail ==
  ASSUME NEW S, NEW q \in Seq(S), q # <<>>, NEW r, Released(q, r)
  PROVE  /\ Released(Tail(q), r) \/ (IsReset(Head(q), r) /\ ~Has(Tail(q), r))
         /\ Has(Tail(q), r) => Has(q, r)
<1> DEFINE p == Tail(q)
<1>1. /\ DOMAIN q = 1 .. Len(q) /\ Len(q) \in Nat \ {0} /\ Head(q) = q[1]
      /\ DOMAIN p = 1 .. Len(q) - 1 /\ \A i \in DOMAIN p : p[i] = q[i + 1]
  BY Shifted
<1> HIDE DEF p
<1>2. PICK i \in DOMAIN q : IsReset(q[i], r) /\ \A j \in DOMAIN q : j > i => ~Carries(q[j], r)
  BY DEF Released
<1>3. CASE i = 1
  BY <1>1, <1>2, <1>3 DEF Has, p
<1>4. CASE i # 1
  <2>1. i - 1 \in DOMAIN p /\ p[i - 1] = q[i]
    BY <1>1, <1>4
  <2>2. \A j \in DOMAIN p : j > i - 1 => ~Carries(p[j], r)
    BY <1>1, <1>2
  <2> QED BY <1>1, <1>2, <2>1, <2>2 DEF Released, Has, p
<1> QED BY <1>3, <1>4

\* A frame is read.
LEMMA TailHas ==
  ASSUME NEW S, NEW q \in Seq(S), q # <<>>, NEW r
  PROVE  /\ Has(Tail(q), r) => Has(q, r)
         /\ Carries(Head(q), r) => Has(q, r)
BY Shifted DEF Has

\* A frame that is not of r is sent, or lost, and no cache of r made.
LEMMA ReleaseKept ==
  ASSUME NEW n \in Nodes, NEW r \in Reqs, toNode[n] \in Seq(ToNodeFrames),
         ReleaseOf(n, r), Linked(n)' => Linked(n),
         cache'[n][r] = cache[n][r],
         r \in Running /\ n \in req[r].home => r \in Running' /\ n \in req'[r].home,
         NEW f, ~Carries(f, r), toNode'[n] \in {toNode[n], Append(toNode[n], f)}
  PROVE  ReleaseOf(n, r)'
<1>1. Released(toNode[n], r) => Released(toNode'[n], r)
  BY ReleasedAppend
<1>2. Has(toNode'[n], r) => Has(toNode[n], r)
  BY ReleasedAppend
<1> QED BY <1>1, <1>2 DEF ReleaseOf

\* A request that ends tells the nodes it began on.
LEMMA EndReleases ==
  ASSUME ServingInv, RouteInv, NEW s \in Running, NEW how, End(s, how),
         NEW n \in Nodes, NEW r \in Reqs, ReleaseOf(n, r)
  PROVE  ReleaseOf(n, r)'
<1> DEFINE f == [t |-> "reset", req |-> s]
<1>0. toNode[n] \in Seq(ToNodeFrames) /\ req \in [Reqs -> Requests] /\ s \in Reqs
  BY Typed DEF Running
<1>1. toNode'[n] = IF n \in req[s].home /\ Bound(n) /\ Reaches(n, ws[n])
                   THEN Append(toNode[n], f) ELSE toNode[n]
  BY DEF End, Resets
<1>2. ~Carries(f, r) /\ IsReset(f, s)
  BY DEF Carries, FwdKinds, IsReset
<1> HIDE DEF f
<1>3. req' = [req EXCEPT ![s].st = "over"] /\ UNCHANGED <<cache, ws, conn, up>>
  BY DEF End, recordVars, nodeVars
<1>4. CASE r # s
  <2>1. req'[r] = req[r]
    BY <1>0, <1>3, <1>4
  <2> QED BY <1>0, <1>1, <1>2, <1>3, <2>1, ReleaseKept DEF Running, Linked
<1>5. CASE r = s
  <2>1. CASE Linked(n) /\ n \in req[s].home
    <3>1. Bound(n) /\ Reaches(n, ws[n])
      BY <2>1 DEF Bound, Reaches, Linked, RouteInv, RouteOf, SocketOf, Socket
    <3>2. Released(toNode'[n], r)
      BY <1>0, <1>1, <1>2, <1>5, <2>1, <3>1, ReleasedAppend
    <3> QED BY <3>2 DEF ReleaseOf
  <2>2. CASE ~(Linked(n) /\ n \in req[s].home)
    <3>1. (Linked(n)' <=> Linked(n)) /\ cache'[n][r] = cache[n][r]
      BY <1>3 DEF Linked
    <3>2. toNode'[n] \in {toNode[n], Append(toNode[n], f)}
      BY <1>1
    <3>3. Released(toNode[n], r) => Released(toNode'[n], r)
      BY <1>0, <1>2, <3>2, ReleasedAppend
    <3>4. Has(toNode'[n], r) => Has(toNode[n], r)
      BY <1>0, <1>2, <3>2, ReleasedAppend
    <3> QED BY <1>5, <2>2, <3>1, <3>3, <3>4 DEF ReleaseOf
  <2> QED BY <2>1, <2>2
<1> QED BY <1>4, <1>5

\* What a step of a request may be to the nodes.
LEMMA RequestDoes ==
  ASSUME ServingInv, NEW s \in Reqs,
         \/ Chat(s) \/ ChatTimeout(s) \/ Leave(s) \/ Admit(s)
         \/ RequestStep(s) \/ Done(s) \/ Cancel(s)
  PROVE  \/ s \in Running /\ \E how : End(s, how)
         \/ \E q : Goes(s, q)
         \/ Paced(s)
         \/ UNCHANGED <<toNode, cache>>
<1>1. CASE Chat(s) \/ ChatTimeout(s) \/ Leave(s)
  BY <1>1 DEF Chat, ChatTimeout, Leave, vars, netVars
<1>2. CASE Admit(s)
  <2>1. CASE PipelineComplete
    <3> DEFINE q == [st |-> "between", gen |-> gen, pipe |-> Serving,
                     home |-> Members(Serving), x |-> FirstAct]
    <3>1. Hop(s, q) /\ Admitted(s, q) /\ UNCHANGED <<toHub, sent, cache>>
      BY <1>2, <2>1 DEF Admit, Admitted
    <3> HIDE DEF q
    <3> QED BY <3>1 DEF Goes
  <2>2. CASE ~PipelineComplete
    BY <1>2, <2>2 DEF Admit
  <2> QED BY <2>1, <2>2
<1>3. CASE StartPass(s)
  <2>1. CASE req[s].gen = gen /\ PipelineComplete
    <3> DEFINE q == [req[s] EXCEPT !.pipe = Serving, !.x.at = 0, !.x.upto = 0]
    <3>1. Hop(s, q) /\ Starts(s, q) /\ UNCHANGED <<toHub, sent, cache>>
      BY <1>3, <2>1 DEF StartPass, Starts
    <3> HIDE DEF q
    <3> QED BY <3>1 DEF Goes
  <2>2. CASE ~(req[s].gen = gen /\ PipelineComplete)
    BY <1>3, <2>2 DEF StartPass, Running
  <2> QED BY <2>1, <2>2
<1>4. CASE SendHop(s)
  <2>1. CASE Bound(Owner(req[s]))
    BY <1>4, <2>1, Typed DEF SendHop, Paced, SendTo
  <2>2. CASE ~Bound(Owner(req[s]))
    BY <1>4, <2>2 DEF SendHop, Running
  <2> QED BY <2>1, <2>2
<1>5. CASE HopDone(s) /\ ~\E how : End(s, how)
  <2> DEFINE end == req[s].pipe[Owner(req[s])][2]
             q   == [req[s] EXCEPT !.x.at = end]
  <2>1. CASE end < NLayers
    <3>1. Hop(s, q) /\ Proceeds(s, q) /\ UNCHANGED <<toHub, sent, cache>>
      BY <1>5, <2>1 DEF HopDone, Proceeds
    <3> HIDE DEF q
    <3> QED BY <3>1 DEF Goes
  <2>2. CASE ~(end < NLayers)
    BY <1>5, <2>2 DEF HopDone, vars, netVars
  <2> QED BY <2>1, <2>2
<1>6. CASE HopDone(s) /\ \E how : End(s, how)
  BY <1>6 DEF HopDone, Running
<1>7. CASE HopFails(s) \/ HopTimeout(s) \/ Done(s) \/ Cancel(s)
  BY <1>7 DEF HopFails, HopTimeout, Done, Cancel, Running
<1> QED BY <1>1, <1>2, <1>3, <1>4, <1>5, <1>6, <1>7 DEF RequestStep

\* A request that runs ends or runs on, where it began.
LEMMA RunsStill ==
  ASSUME ServingInv, NEW r \in Running, Changes(r), ~\E how : End(r, how)
  PROVE  r \in Running' /\ req'[r].home = req[r].home
<1>0. r \in Reqs /\ req[r] \in Requests /\ req \in [Reqs -> Requests]
  BY Typed DEF Running
<1>1. CASE Rests(r)
  BY <1>0, <1>1 DEF Rests, Running
<1>2. CASE Passes(r)
  <2>1. req'[r].st = "between" /\ req'[r].home = req[r].home
    BY <1>0, <1>2 DEF Passes, Requests
  <2> QED BY <1>0, <2>1 DEF Running
<1>3. CASE Paced(r)
  BY <1>0, <1>3 DEF Paced, Requests, Running
<1>4. CASE Answered(r)
  <2>1. PICK x : req'[r] = [req[r] EXCEPT !.x = x]
    BY <1>4 DEF Answered
  <2> QED BY <1>0, <2>1 DEF Requests, Running
<1>5. ASSUME NEW q, Goes(r, q)
      PROVE  r \in Running' /\ req'[r].home = req[r].home
  <2>1. PICK st : req'[r] = [q EXCEPT !.st = st] /\ req'[r].st \in Hopping
    BY <1>0, <1>5, GoesOn DEF Goes, Hop
  <2>2. ~Admitted(r, q)
    BY DEF Admitted, Running
  <2>3. req'[r].home = req[r].home
    BY <1>0, <1>5, <2>1, <2>2 DEF Goes, Starts, Proceeds, Requests
  <2> QED BY <1>0, <2>1, <2>3 DEF Running, Hopping
<1> QED BY <1>1, <1>2, <1>3, <1>4, <1>5 DEF Changes, Gone

\* A request is handed to a node it began on.
LEMMA HandsReleases ==
  ASSUME ServingInv, ServingInv', EpochInv, EpochInv', NEW r \in Reqs,
         Paced(r) \/ \E q : Goes(r, q), r \in Running => ~\E how : End(r, how),
         NEW n \in Nodes, ReleaseOf(n, r), Linked(n)' => Linked(n)
  PROVE  ReleaseOf(n, r)'
<1>1. PICK q : (Goes(r, q) \/ (Paced(r) /\ q = req[r])) /\ req'[r].st \in Hopping
               /\ Owner(req'[r]) = Owner(q)
  BY GoesOn, PacedOn DEF Hopping
<1>2. r \in Running'
  BY <1>1 DEF Running, Hopping
<1>3. CASE n = Owner(q)
  <2>1. req'[r].pipe[n] # NoRange
    <3> DEFINE p == req'[r]
    <3>1. Sound(p, fut'[r]) /\ p.st \in Hopping
      BY <1>1 DEF ServingInv, RequestsSound
    <3> HIDE DEF p
    <3>2. p.pipe[Owner(p)] # NoRange
      BY <3>1, OwnerOf DEF Sound
    <3> QED BY <1>1, <1>3, <3>2 DEF p
  <2>2. req'[r].home = Members(req'[r].pipe)
    BY <1>2 DEF EpochInv, EpochOf
  <2> QED BY <1>2, <2>1, <2>2 DEF ReleaseOf, Members
<1>4. CASE n # Owner(q)
  <2>1. toNode'[n] = toNode[n] /\ cache'[n][r] = cache[n][r]
    BY <1>1, <1>4, Typed DEF Goes, Paced, Hop, Sent
  <2>2. r \in Running /\ n \in req[r].home => r \in Running' /\ n \in req'[r].home
    BY <1>1, RunsStill DEF Changes
  <2> QED BY <2>1, <2>2 DEF ReleaseOf
<1> QED BY <1>3, <1>4

\* A node reads a frame of a request.
LEMMA NodeReleases ==
  ASSUME ServingInv, NEW m \in Nodes, Forward(m) \/ Reset(m),
         NEW n \in Nodes, NEW r \in Reqs, ReleaseOf(n, r)
  PROVE  ReleaseOf(n, r)'
<1> DEFINE f == Head(toNode[n])
<1>0. /\ toNode \in [Nodes -> Seq(ToNodeFrames)]
      /\ toNode[m] # <<>> /\ toNode' = [toNode EXCEPT ![m] = Tail(@)]
      /\ UNCHANGED <<ws, conn, up, req>> /\ cache \in [Nodes -> [Reqs -> Nat]]
  BY Typed DEF Forward, Reset, NodeHears, recordVars, nodeVars, ServingInv
<1>1. (Linked(n)' <=> Linked(n)) /\ (r \in Running' <=> r \in Running)
  BY <1>0 DEF Linked, Running
<1>2. CASE m # n
  <2>1. toNode'[n] = toNode[n] /\ cache'[n][r] = cache[n][r]
    BY <1>0, <1>2 DEF Forward, Reset
  <2> QED BY <1>0, <1>1, <2>1 DEF ReleaseOf
<1>3. CASE m = n
  <2>1. /\ Has(Tail(toNode[n]), r) => Has(toNode[n], r)
        /\ Carries(f, r) => Has(toNode[n], r)
    BY <1>0, <1>3, TailHas
  <2>2. toNode'[n] = Tail(toNode[n])
    BY <1>0, <1>3
  <2>3. IsReset(f, r) => cache'[n][r] = 0
    <3>1. IsReset(f, r) => Reset(n)
      BY <1>3 DEF IsReset, Forward, NodeHears
    <3> QED BY <1>0, <3>1 DEF Reset, IsReset
  <2>4. cache'[n][r] > 0 => cache[n][r] > 0 \/ Carries(f, r)
    <3>1. CASE Reset(n)
      <4>1. cache'[n][r] \in {cache[n][r], 0}
        BY <1>0, <3>1 DEF Reset
      <4> QED BY <4>1
    <3>2. CASE Forward(n)
      <4>1. \/ cache' = cache
            \/ cache' = [cache EXCEPT ![n] =
                 [s \in Reqs |-> IF s \in DOMAIN f.x THEN @[s] + 1 ELSE @[s]]]
        BY <3>2 DEF Forward
      <4>2. f.t \in FwdKinds
        BY <3>2 DEF Forward, NodeHears, FwdKinds
      <4>3. r \notin DOMAIN f.x => cache'[n][r] = cache[n][r]
        BY <1>0, <4>1
      <4> QED BY <4>2, <4>3 DEF Carries
    <3> QED BY <1>3, <3>1, <3>2
  <2>5. Released(toNode[n], r) =>
          Released(Tail(toNode[n]), r) \/ (IsReset(f, r) /\ ~Has(Tail(toNode[n]), r))
    BY <1>0, <1>3, ReleasedTail
  <2> QED BY <1>0, <1>1, <2>1, <2>2, <2>3, <2>4, <2>5 DEF ReleaseOf
<1> QED BY <1>2, <1>3

\* A rebalance only adds or takes tasks on a link that stays.
LEMMA LinkedQueue ==
  ASSUME TypeInv, NEW n \in Nodes, [Next]_vars, Linked(n), Linked(n)'
  PROVE  \/ toNode'[n] = toNode[n]
         \/ /\ toNode[n] # <<>> /\ Head(toNode[n]).t \in TaskKinds
            /\ toNode'[n] = Tail(toNode[n])
         \/ \E f : f.t \in TaskKinds /\ toNode'[n] = Append(toNode[n], f)
<1>0. /\ toNode \in [Nodes -> Seq(ToNodeFrames)] /\ up \in [Nodes -> BOOLEAN]
      /\ up[n] /\ up'[n]
  BY DEF TypeInv, TypeOK, NetTyped, NodesTyped, Linked
<1>1. CASE UNCHANGED vars \/ Begin \/ Finish
  BY <1>1 DEF vars, Begin, Finish, netVars
<1>2. ASSUME NEW m \in Nodes, NodeStep(m) \/ Drop(m) \/ FailLoad(m)
      PROVE  \/ toNode'[n] = toNode[n]
             \/ /\ toNode[n] # <<>> /\ Head(toNode[n]).t \in TaskKinds
                /\ toNode'[n] = Tail(toNode[n])
  <2>1. CASE m # n
    BY <1>0, <1>2, <2>1 DEF NodeStep, Connect, SeesClose, Drop, Disconnect, Receive,
       SkipAssign, KeepShard, StartLoad, FinishLoad, FailLoad, Prefetch, netVars
  <2>2. CASE m = n
    <3>1. ~Connect(n) /\ ~\E k : Disconnect(n, k)
      BY <1>0 DEF Connect, Disconnect
    <3> QED BY <1>0, <1>2, <2>2, <3>1 DEF NodeStep, SeesClose, Drop, Receive,
         SkipAssign, KeepShard, StartLoad, FinishLoad, FailLoad, Prefetch, netVars
  <2> QED BY <2>1, <2>2
<1>3. CASE \/ \E m \in Nodes, c \in Conns : HubHears(m, c)
           \/ \E m \in Nodes : StaleLeft(m) \/ HeartbeatLate(m) \/ Heartbeat(m) \/ Timeout(m)
           \/ ReplanApplies \/ ReplanParks \/ ManualReplan \/ ManualApplies
           \/ EndPrefetch \/ EndPrefetch2 \/ Drained \/ EndSwitch
  <2>1. \/ toNode'[n] = toNode[n]
        \/ committed[n] # NoRange /\
           toNode'[n] = Append(toNode[n], [t |-> "assign", range |-> committed[n], gen |-> gen])
        \/ \E f \in Tasks : f.t \notin Asg /\ toNode'[n] = Append(toNode[n], f)
    BY <1>3, HubSends
  <2>2. CASE toNode'[n] = Append(toNode[n], [t |-> "assign", range |-> committed[n], gen |-> gen])
    <3> DEFINE f == [t |-> "assign", range |-> committed[n], gen |-> gen]
    <3>1. f.t \in TaskKinds
      BY DEF TaskKinds
    <3> HIDE DEF f
    <3> QED BY <2>2, <3>1 DEF f
  <2>3. \A f \in Tasks : f.t \in TaskKinds
    BY DEF Tasks
  <2> QED BY <2>1, <2>2, <2>3
<1>4. ASSUME NEW m \in Nodes, SwitchSend(m)
      PROVE  \/ toNode'[n] = toNode[n]
             \/ \E f : f.t \in TaskKinds /\ toNode'[n] = Append(toNode[n], f)
  <2> DEFINE f == [t |-> "assign", range |-> plan.at[m], gen |-> gen]
  <2>1. f.t \in TaskKinds
    BY DEF TaskKinds
  <2>2. toNode'[n] \in {toNode[n], Append(toNode[n], f)}
    BY <1>0, <1>4 DEF SwitchSend, Sent
  <2> HIDE DEF f
  <2> QED BY <2>1, <2>2
<1> QED BY <1>1, <1>2, <1>3, <1>4 DEF Next, Rebalancing, ApplyStep

\* So it takes caches away, never a reset.
LEMMA RebalanceReleases ==
  ASSUME TypeInv, RouteInv, ~Linger, EmptyWithoutShard', [Next]_vars, UNCHANGED req,
         NEW n \in Nodes, NEW r \in Reqs, ReleaseOf(n, r),
         cache'[n][r] = cache[n][r] \/ cache'[n] = EmptyCache
  PROVE  ReleaseOf(n, r)'
<1> SUFFICES ASSUME Linked(n)', cache'[n][r] > 0 \/ Has(toNode'[n], r)
             PROVE  (r \in Running /\ n \in req[r].home) \/ Released(toNode'[n], r)
  BY DEF ReleaseOf, Running
<1>1. cache'[n][r] > 0 => cache[n][r] > 0
  BY DEF EmptyCache
<1>2. toNode[n] \in Seq(ToNodeFrames)
  BY RouteTypes
<1>3. CASE ~Linked(n)
  <2>1. conn[n] \in Conns /\ up[n] /\ HubHello(n, conn[n])
    BY <1>3, Links
  <2>2. shard'[n] = NoRange
    <3>1. toHub[n][conn[n]] # <<>> /\ Head(toHub[n][conn[n]]).t = "hello"
      BY <2>1 DEF HubHello, Hears
    <3>2. ~Free(toHub[n][conn[n]], Hello)
      BY <2>1, <3>1, RouteTypes, Shifted DEF Free, Hello
    <3> QED BY <2>1, <3>2 DEF HubHello, nodeVars, RouteInv, RouteOf, SocketOf, Socket
  <2>3. ~(cache'[n][r] > 0)
    BY <2>2 DEF EmptyWithoutShard, EmptyCache
  <2>4. \/ toNode'[n] = <<>>
        \/ \E f \in Tasks : f.t = "assign" /\ toNode'[n] = Append(<<>>, f)
    BY <2>1, HelloLinks
  <2>5. ~Has(toNode'[n], r)
    BY <2>4 DEF Has, Carries, FwdKinds
  <2> QED BY <2>3, <2>5
<1>4. CASE Linked(n)
  <2>1. CASE toNode'[n] = toNode[n]
    BY <1>1, <1>4, <2>1 DEF ReleaseOf
  <2>2. CASE /\ toNode[n] # <<>> /\ Head(toNode[n]).t \in TaskKinds
             /\ toNode'[n] = Tail(toNode[n])
    <3>1. ~IsReset(Head(toNode[n]), r)
      BY <2>2 DEF IsReset, TaskKinds
    <3>2. Has(Tail(toNode[n]), r) => Has(toNode[n], r)
      BY <1>2, <2>2, TailHas
    <3>3. Released(toNode[n], r) => Released(Tail(toNode[n]), r)
      BY <1>2, <2>2, <3>1, ReleasedTail
    <3> QED BY <1>1, <1>4, <2>2, <3>2, <3>3 DEF ReleaseOf
  <2>3. CASE \E f : f.t \in TaskKinds /\ toNode'[n] = Append(toNode[n], f)
    <3>1. PICK f : f.t \in TaskKinds /\ toNode'[n] = Append(toNode[n], f)
      BY <2>3
    <3>2. ~Carries(f, r)
      BY <3>1 DEF Carries, FwdKinds, TaskKinds
    <3>3. /\ Has(toNode'[n], r) => Has(toNode[n], r)
          /\ Released(toNode[n], r) => Released(toNode'[n], r)
      BY <1>2, <3>1, <3>2, ReleasedAppend
    <3> QED BY <1>1, <1>4, <3>3 DEF ReleaseOf
  <2> QED BY <1>4, <2>1, <2>2, <2>3, LinkedQueue
<1> QED BY <1>3, <1>4

\* Without batching no row is ever queued.
LEMMA StepNoBatch ==
  ASSUME ServingInv, NoBatch, ~Batched, [ServingNext]_allVars
  PROVE  NoBatch' /\ \A n \in Nodes : ~BatchStep(n)
<1>1. \A n \in Nodes : ~BatchStep(n)
  BY DEF NoBatch, BatchStep, RunWindow, SendBatch, BatchTimeout, ServingInv, BatchingSound
<1>2. CASE UNCHANGED <<queue, sent>>
  BY <1>1, <1>2 DEF NoBatch
<1>3. CASE Rebalancing /\ Disturb
  BY <1>1, <1>3 DEF Disturb, NoBatch
<1>4. ASSUME NEW s \in Reqs, NEW q, Hop(s, q)
      PROVE  queue' = queue
  BY <1>4 DEF Hop
<1>5. ASSUME NEW s \in Reqs,
             \/ Chat(s) \/ ChatTimeout(s) \/ Leave(s) \/ Admit(s)
             \/ RequestStep(s) \/ Done(s) \/ Cancel(s)
      PROVE  UNCHANGED <<queue, sent>>
  <2>1. CASE \E how : End(s, how)
    BY <2>1 DEF End
  <2>2. CASE Chat(s) \/ ChatTimeout(s) \/ Leave(s) \/ Admit(s)
    BY <1>4, <2>2 DEF Chat, ChatTimeout, Leave, Admit
  <2>3. CASE ~\E how : End(s, how)
    <3>1. CASE RequestStep(s)
      BY <1>4, <2>3, <3>1 DEF RequestStep, StartPass, SendHop, HopDone, HopFails, HopTimeout
    <3>2. ~Done(s) /\ ~Cancel(s)
      BY <2>3 DEF Done, Cancel
    <3> QED BY <1>5, <2>2, <3>1, <3>2
  <2> QED BY <2>1, <2>3
<1>6. ASSUME NEW m \in Nodes,
             Forward(m) \/ Reset(m) \/ \E c \in Conns : HubForwarded(m, c)
      PROVE  NoBatch'
  <2>1. queue' = queue /\ \E B : sent' = sent \/ sent' = [sent EXCEPT ![m] = @ \ B]
    BY <1>6 DEF Forward, Reset, HubForwarded
  <2> QED BY <2>1, Typed DEF NoBatch
<1> QED BY <1>1, <1>2, <1>3, <1>5, <1>6 DEF ServingNext, ServingStep, allVars, servingVars

\* Caches live and die with their shard.
LEMMA StepEmpty ==
  ASSUME ServingInv, ServingInv', RouteInv, EmptyWithoutShard, [ServingNext]_allVars
  PROVE  EmptyWithoutShard'
<1> SUFFICES ASSUME NEW n \in Nodes, shard'[n] = NoRange PROVE cache'[n] = EmptyCache
  BY DEF EmptyWithoutShard
<1>1. CASE UNCHANGED allVars
  BY <1>1 DEF EmptyWithoutShard, allVars, vars, nodeVars, servingVars
<1>2. CASE Rebalancing /\ Disturb
  BY <1>2 DEF Disturb, EmptyWithoutShard
<1>3. CASE ServingStep
  <2>1. shard' = shard
    BY <1>3, ServingTraffic DEF nodeVars
  <2>2. cache[n] = EmptyCache /\ cache \in [Nodes -> [Reqs -> Nat]]
    BY <2>1 DEF EmptyWithoutShard, ServingInv
  <2>3. CASE cache' = cache
    BY <2>2, <2>3
  <2>4. ASSUME NEW s \in Reqs,
               \/ Chat(s) \/ ChatTimeout(s) \/ Leave(s) \/ Admit(s)
               \/ RequestStep(s) \/ Done(s) \/ Cancel(s)
        PROVE  cache' = cache
    BY <2>4, RequestDoes DEF End, Goes, Paced
  <2>5. ASSUME NEW m \in Nodes, BatchStep(m) \/ \E c \in Conns : HubForwarded(m, c)
        PROVE  cache' = cache
    BY <2>5 DEF BatchStep, RunWindow, SendBatch, BatchTimeout, HubForwarded
  <2>6. ASSUME NEW m \in Nodes, Forward(m)
        PROVE  cache'[n] = EmptyCache
    <3>1. m # n => cache'[n] = cache[n]
      BY <2>2, <2>6 DEF Forward
    <3>2. m = n => cache' = cache
      BY <2>1, <2>6 DEF Forward
    <3> QED BY <2>2, <3>1, <3>2
  <2>7. ASSUME NEW m \in Nodes, Reset(m)
        PROVE  cache'[n] = EmptyCache
    <3>1. PICK s : cache' = [cache EXCEPT ![m][s] = 0]
      BY <2>7 DEF Reset
    <3>2. cache'[n] = IF m = n THEN [cache[n] EXCEPT ![s] = 0] ELSE cache[n]
      BY <2>2, <3>1
    <3> QED BY <2>2, <3>2 DEF EmptyCache
  <2> QED BY <1>3, <2>2, <2>4, <2>5, <2>6, <2>7 DEF ServingStep
<1> QED BY <1>1, <1>2, <1>3 DEF ServingNext

\* Nothing happens to a node and to what r is.
LEMMA ReleaseStays ==
  ASSUME ServingInv, NEW n \in Nodes, NEW r \in Reqs, ReleaseOf(n, r),
         Linked(n)' => Linked(n), toNode'[n] = toNode[n], cache'[n][r] = cache[n][r],
         r \in Running /\ n \in req[r].home => r \in Running' /\ n \in req'[r].home
  PROVE  ReleaseOf(n, r)'
BY DEF ReleaseOf

\* A request hands over another one than r.
LEMMA OthersRelease ==
  ASSUME ServingInv, NEW n \in Nodes, NEW r \in Reqs, ReleaseOf(n, r),
         Linked(n)' => Linked(n),
         r \in Running /\ n \in req[r].home => r \in Running' /\ n \in req'[r].home,
         NEW s \in Reqs, s # r, Paced(s) \/ \E q : Goes(s, q)
  PROVE  ReleaseOf(n, r)'
<1>0. toNode \in [Nodes -> Seq(ToNodeFrames)] /\ cache' = cache
  BY Typed DEF Paced, Goes
<1>1. CASE Paced(s)
  <2>1. ~Carries(Fwd("fwd", {s}), r)
    BY DEF Carries, Fwd
  <2>2. toNode'[n] \in {toNode[n], Append(toNode[n], Fwd("fwd", {s}))}
    BY <1>0, <1>1 DEF Paced, Sent
  <2> QED BY <1>0, <2>1, <2>2, ReleaseKept
<1>2. ASSUME NEW q, Goes(s, q)
      PROVE  ReleaseOf(n, r)'
  <2> DEFINE f == [t |-> "fwd", x |-> [u \in {s} |-> q.x], ok |-> TRUE]
  <2>1. ~Carries(f, r)
    BY DEF Carries
  <2>2. toNode' = toNode \/ toNode' = Sent(Owner(q), ws[Owner(q)], f)
    BY <1>2 DEF Goes, Hop
  <2> HIDE DEF f
  <2>3. toNode'[n] \in {toNode[n], Append(toNode[n], f)}
    BY <1>0, <2>2 DEF Sent
  <2> QED BY <1>0, <2>1, <2>3, ReleaseKept
<1> QED BY <1>1, <1>2

\* Caches are released in every step ...
LEMMA StepRelease ==
  ASSUME RoutedInv, RoutedInv', EpochInv, EpochInv', ReleaseInv, ~Linger, ~Batched,
         [ServingNext]_allVars
  PROVE  ReleaseInv'
<1>0. /\ ServingInv /\ ServingInv' /\ RouteInv /\ TypeInv
      /\ NoBatch /\ EmptyWithoutShard /\ cache \in [Nodes -> [Reqs -> Nat]]
  BY DEF RoutedInv, ServingInv, ReleaseInv
<1>1. NoBatch' /\ \A n \in Nodes : ~BatchStep(n)
  BY <1>0, StepNoBatch
<1>2. EmptyWithoutShard'
  BY <1>0, StepEmpty
<1> SUFFICES ASSUME NEW n \in Nodes, NEW r \in Reqs PROVE ReleaseOf(n, r)'
  BY <1>1, <1>2 DEF ReleaseInv
<1>3. ReleaseOf(n, r)
  BY DEF ReleaseInv
<1>4. CASE ServingStep
  <2>1. Linked(n)' <=> Linked(n)
    BY <1>0, <1>4, ServingTraffic DEF Linked, recordVars, nodeVars
  <2>2. ASSUME NEW m \in Nodes, Forward(m) \/ Reset(m)
        PROVE  ReleaseOf(n, r)'
    BY <1>0, <1>3, <2>2, NodeReleases
  <2>3. ASSUME NEW s \in Running, NEW how, End(s, how)
        PROVE  ReleaseOf(n, r)'
    BY <1>0, <1>3, <2>3, EndReleases
  <2>4. CASE ~\E s \in Running : \E how : End(s, how)
    <3>1. r \in Running => ~\E how : End(r, how)
      BY <2>4
    <3>2. r \in Running /\ n \in req[r].home => r \in Running' /\ n \in req'[r].home
      BY <1>0, <3>1, StepChanges, RunsStill
    <3>3. ASSUME NEW s \in Reqs,
                 \/ Chat(s) \/ ChatTimeout(s) \/ Leave(s) \/ Admit(s)
                 \/ RequestStep(s) \/ Done(s) \/ Cancel(s)
          PROVE  ReleaseOf(n, r)'
      <4>1. CASE UNCHANGED <<toNode, cache>>
        BY <1>0, <1>3, <2>1, <3>2, <4>1, ReleaseStays
      <4>2. CASE s # r /\ (Paced(s) \/ \E q : Goes(s, q))
        BY <1>0, <1>3, <2>1, <3>2, <4>2, OthersRelease
      <4>3. CASE s = r /\ (Paced(s) \/ \E q : Goes(s, q))
        BY <1>0, <1>3, <2>1, <3>1, <4>3, HandsReleases
      <4>4. ~(s \in Running /\ \E how : End(s, how))
        BY <2>4
      <4>5. \/ s \in Running /\ \E how : End(s, how)
            \/ \E q : Goes(s, q)
            \/ Paced(s)
            \/ UNCHANGED <<toNode, cache>>
        BY <1>0, <3>3, RequestDoes
      <4> QED BY <4>1, <4>2, <4>3, <4>4, <4>5
    <3>4. ASSUME NEW m \in Nodes, NEW c \in Conns, HubForwarded(m, c)
          PROVE  ReleaseOf(n, r)'
      <4>1. UNCHANGED <<toNode, cache>>
        BY <3>4 DEF HubForwarded
      <4> QED BY <1>0, <1>3, <2>1, <3>2, <4>1, ReleaseStays
    <3> QED BY <1>1, <1>4, <2>2, <3>3, <3>4 DEF ServingStep
  <2> QED BY <2>3, <2>4
<1>5. CASE ~ServingStep
  <2>1. [Next]_vars /\ req' = req
    BY <1>5, StepIs
  <2>2. cache'[n][r] = cache[n][r] \/ cache'[n] = EmptyCache
    BY <1>5 DEF ServingNext, Disturb, allVars, servingVars
  <2> QED BY <1>0, <1>2, <1>3, <2>1, <2>2, RebalanceReleases
<1> QED BY <1>4, <1>5

\* ... and there are none at first.
LEMMA InitRelease == Init /\ ServingInit => ReleaseInv
<1> SUFFICES ASSUME Init, ServingInit PROVE ReleaseInv
  OBVIOUS
<1>1. NoBatch /\ \A n \in Nodes : cache[n] = EmptyCache
  BY DEF ServingInit, NoBatch
<1>2. \A n \in Nodes : ~up[n]
  BY DEF Init
<1> QED BY <1>1, <1>2 DEF ReleaseInv, EmptyWithoutShard, ReleaseOf, Linked

\* Once no request runs and the sockets are quiet, no node the hub reaches keeps a
\* KV cache (the resets of generate in hub.py and the handling of reset in node.py):
\* whatever was cancelled, failed or timed out, and whichever nodes came, went or
\* moved to another range meanwhile.  With batching a frame whose request was
\* cancelled while its runner paced is sent all the same, after the reset.
THEOREM CachesGoWithRequests ==
  ASSUME ~Linger, ~Batched
  PROVE  ServingSpec => []CachesReleased
<1> DEFINE I == RoutedInv /\ EpochInv /\ ReleaseInv
<1>1. Init /\ ServingInit => I
  BY InitRouted, InitEpoch, InitRelease
<1>2. I /\ [ServingNext]_allVars => I'
  <2> SUFFICES ASSUME I, [ServingNext]_allVars PROVE I'
    OBVIOUS
  <2>1. RoutedInv'
    BY StepRouted
  <2>2. EpochInv'
    BY StepEpoch
  <2> QED BY <2>1, <2>2, StepRelease
<1>3. I => CachesReleased
  <2> SUFFICES ASSUME I, Quiet, NEW n \in Nodes, Bound(n) /\ Reaches(n, ws[n])
               PROVE  cache[n] = EmptyCache
    BY DEF CachesReleased
  <2>1. ServingInv /\ inflight = 0 /\ toNode[n] = <<>>
    BY DEF RoutedInv, Quiet
  <2>2. Running = {}
    <3>1. Cardinality(Running) = 0 /\ IsFiniteSet(Running)
      BY <2>1, RunningFinite DEF ServingInv, BooksKept, InflightCounts
    <3> QED BY <3>1, FS_EmptySet
  <2>3. Linked(n)
    BY DEF Reaches, Linked, Bound
  <2>4. ASSUME NEW r \in Reqs PROVE cache[n][r] = 0
    <3>1. ~Released(toNode[n], r) /\ r \notin Running
      BY <2>1, <2>2 DEF Released
    <3>2. ~(cache[n][r] > 0)
      BY <2>3, <3>1 DEF ReleaseInv, ReleaseOf
    <3> QED BY <2>1, <3>2 DEF ServingInv
  <2>5. cache[n] \in [Reqs -> Nat]
    BY <2>1 DEF ServingInv
  <2> QED BY <2>4, <2>5 DEF EmptyCache
<1> QED BY <1>1, <1>2, <1>3, PTL DEF ServingSpec

-----------------------------------------------------------------------------
(***************************************************************************)
(* Every pass finds all earlier passes, while no node reconnects.          *)
(***************************************************************************)

\* n, while it is up, holds the committed range, and neither an assign nor a hello
\* is on its way that would make it load or lose its shard.
Fixed(n) ==
  /\ conn[n] = 1
  /\ up[n] => /\ shard[n] = committed[n]
              /\ Free(toNode[n], Asg) /\ Free(tasks[n], Asg)
              /\ Free(toHub[n][1], Hello)
FixedFor(n, r) == n \in Members(committed) /\ Fits(r) => Fixed(n)
FixedInv == \A n \in Nodes, r \in Reqs : FixedFor(n, r)

\* Frames of other kinds come and go.
LEMMA FreeAppend ==
  ASSUME NEW S, NEW q \in Seq(S), NEW f \in S, NEW K, f.t \notin K, Free(q, K)
  PROVE  Free(Append(q, f), K)
BY Appended DEF Free

\* One is read.
LEMMA FreeTail ==
  ASSUME NEW S, NEW q \in Seq(S), q # <<>>, NEW K, Free(q, K)
  PROVE  Free(Tail(q), K)
BY Shifted DEF Free

\* A member that serves, and has never reconnected.
LEMMA ServesFixed ==
  ASSUME TypeInv, RouteInv, LinkInv, MaxConn = 1, NEW n \in Nodes, Serves(n)
  PROVE  Fixed(n)
<1>1. SocketOf(n) /\ ws[n] # 0
  BY DEF Serves, Live, RouteInv, RouteOf
<1>2. conn[n] = 1 /\ ws[n] = 1
  BY <1>1 DEF SocketOf, Socket
<1>3. CASE up[n]
  <2>1. Linked(n)
    BY <1>2, <1>3 DEF Linked
  <2>2. shard[n] = committed[n]
    BY <2>1, ServesSteady
  <2>3. ClearOf(n)
    BY <2>1 DEF LinkInv, LinkOf, OrderOf, Ordered, ClearOf, Serves, Live
  <2>4. Free(toHub[n][1], Hello)
    BY <1>1, <1>2, <1>3 DEF SocketOf, Socket
  <2> QED BY <1>2, <2>2, <2>3, <2>4 DEF Fixed, ClearOf, Clear
<1> QED BY <1>2, <1>3 DEF Fixed

\* The node has no work that would take its shard.
LEMMA WorkFixed ==
  ASSUME TypeInv, RouteInv, MaxConn = 1, NEW n \in Nodes,
         NodeStep(n) \/ Drop(n) \/ FailLoad(n),
         NEW m \in Nodes, Fixed(m), committed' = committed
  PROVE  Fixed(m)' /\ (up'[m] => up[m] /\ shard'[m] = shard[m])
<1>0. /\ tasks \in [Nodes -> Seq(Tasks)] /\ toNode \in [Nodes -> Seq(ToNodeFrames)]
      /\ toHub \in [Nodes -> [Conns -> Seq(ToHubFrames)]] /\ 1 \in Conns
      /\ up \in [Nodes -> BOOLEAN] /\ conn \in [Nodes -> 0 .. MaxConn]
      /\ shard \in [Nodes -> Ranges \cup {NoRange}]
  BY DEF TypeInv, TypeOK, NodesTyped, NetTyped, Conns
<1>1. CASE m # n
  <2>1. /\ toNode'[m] = toNode[m] /\ tasks'[m] = tasks[m] /\ shard'[m] = shard[m]
        /\ toHub'[m] = toHub[m] /\ up'[m] = up[m] /\ conn'[m] = conn[m]
    <3>1. CASE Connect(n) \/ SeesClose(n) \/ Drop(n)
      BY <1>0, <1>1, <3>1 DEF Connect, SeesClose, Drop, Disconnect
    <3>2. CASE Receive(n) \/ SkipAssign(n) \/ StartLoad(n)
      BY <1>0, <1>1, <3>2 DEF Receive, SkipAssign, StartLoad, netVars
    <3>3. CASE KeepShard(n) \/ FinishLoad(n) \/ FailLoad(n)
      BY <1>0, <1>1, <3>3 DEF KeepShard, FinishLoad, FailLoad, Says
    <3>4. CASE Prefetch(n)
      BY <1>0, <1>1, <3>4 DEF Prefetch, Says
    <3> QED BY <3>1, <3>2, <3>3, <3>4 DEF NodeStep
  <2> QED BY <2>1 DEF Fixed
<1>2. CASE m = n
  <2>1. ~Connect(n)
    BY <1>2 DEF Connect, Fixed
  <2>2. CASE \E k : Disconnect(n, k)
    BY <1>0, <1>2, <2>2 DEF Disconnect, Fixed
  <2>3. CASE Receive(n)
    <3>1. /\ toNode[n] # <<>> /\ toNode'[n] = Tail(toNode[n])
          /\ tasks'[n] = Append(tasks[n], Head(toNode[n]))
          /\ UNCHANGED <<shard, up, conn, toHub>> /\ Head(toNode[n]).t \in TaskKinds
      BY <1>0, <2>3 DEF Receive
    <3>2. Head(toNode[n]) \in Tasks /\ up[n]
      BY <1>0, <3>1, TaskFrames, Shifted, WorkersAreUp DEF RouteInv, RouteOf
    <3>3. Free(Tail(toNode[n]), Asg) /\ Head(toNode[n]).t \notin Asg
      BY <1>0, <1>2, <3>1, <3>2, TakeHead DEF Fixed
    <3>4. Free(Append(tasks[n], Head(toNode[n])), Asg)
      BY <1>0, <1>2, <3>2, <3>3, AppendOther DEF Fixed
    <3> QED BY <1>2, <3>1, <3>3, <3>4 DEF Fixed
  <2>4. CASE tasks[n] # <<>> /\ ~Receive(n) /\ ~\E k : Disconnect(n, k)
    <3>1. up[n]
      BY <1>0, <2>4, WorkersAreUp DEF RouteInv, RouteOf
    <3>2. Head(tasks[n]).t \notin Asg /\ Free(Tail(tasks[n]), Asg)
      BY <1>0, <1>2, <2>4, <3>1, TakeHead DEF Fixed
    <3>3. ~busy[n] /\ ~HeadIs(n, "assign")
      BY <3>2 DEF TypeInv, BusyHasAssign, HeadIs, Asg
    <3>4. Prefetch(n)
      BY <2>1, <2>4, <3>3 DEF NodeStep, SeesClose, Drop, SkipAssign, KeepShard, StartLoad,
         FinishLoad, FailLoad
    <3>5. /\ UNCHANGED <<shard, up, conn, toNode>> /\ tasks'[n] = Tail(tasks[n])
          /\ \/ toHub' = toHub
             \/ \E f : f.t \in {"prefetched", "unfetched"} /\ Says(n, f)
      <4> DEFINE a  == Head(tasks[n])
                 f1 == Frame("prefetched", a.range, a.gen, {})
                 f2 == Frame("unfetched", a.range, a.gen, {})
      <4>1. f1.t \in {"prefetched", "unfetched"} /\ f2.t \in {"prefetched", "unfetched"}
        BY DEF Frame
      <4>2. /\ UNCHANGED <<shard, up, conn, toNode>> /\ tasks' = [tasks EXCEPT ![n] = Tail(@)]
            /\ \/ toHub' = toHub
               \/ Says(n, f1) \/ Says(n, f2)
        BY <3>4 DEF Prefetch
      <4> HIDE DEF f1, f2
      <4> QED BY <1>0, <4>1, <4>2
    <3>6. Free(toHub'[n][1], Hello)
      <4>1. CASE toHub' = toHub
        BY <1>2, <3>1, <4>1 DEF Fixed
      <4>2. ASSUME NEW f, f.t \in {"prefetched", "unfetched"}, Says(n, f)
            PROVE  Free(toHub'[n][1], Hello)
        <5>1. toHub'[n][1] = Append(toHub[n][1], f)
          BY <1>0, <1>2, <4>2 DEF Says, Fixed
        <5>2. Free(toHub[n][1], Hello) /\ f.t \notin Hello /\ toHub[n][1] \in Seq(ToHubFrames)
          BY <1>0, <1>2, <3>1, <4>2 DEF Fixed, Hello
        <5>3. \A i \in DOMAIN Append(toHub[n][1], f) :
                 \/ i \in DOMAIN toHub[n][1] /\ Append(toHub[n][1], f)[i] = toHub[n][1][i]
                 \/ Append(toHub[n][1], f)[i] = f
          BY <5>2
        <5> QED BY <5>1, <5>2, <5>3 DEF Free
      <4> QED BY <3>5, <4>1, <4>2
    <3> QED BY <1>2, <3>1, <3>2, <3>5, <3>6 DEF Fixed
  <2>5. tasks[n] = <<>> /\ ~Receive(n) => \E k : Disconnect(n, k)
    BY <2>1 DEF NodeStep, SeesClose, Drop, SkipAssign, KeepShard, StartLoad,
       FinishLoad, FailLoad, Prefetch, HeadIs, TypeInv, BusyHasAssign
  <2> QED BY <2>2, <2>3, <2>4, <2>5
<1> QED BY <1>1, <1>2

\* The hub has no hello to answer, and outside a switch nothing to assign.
LEMMA HubFixed ==
  ASSUME TypeInv, RouteInv, MaxConn = 1, NEW n \in Nodes, Fixed(n), committed' = committed,
         \/ \E m \in Nodes, c \in Conns : HubHears(m, c)
         \/ \E m \in Nodes : StaleLeft(m) \/ HeartbeatLate(m) \/ Heartbeat(m) \/ Timeout(m)
         \/ ReplanApplies \/ ReplanParks \/ ManualReplan \/ ManualApplies
         \/ EndPrefetch \/ EndPrefetch2 \/ Drained \/ EndSwitch
  PROVE  Fixed(n)' /\ UNCHANGED nodeVars
<1>0. /\ toNode \in [Nodes -> Seq(ToNodeFrames)] /\ 1 \in Conns /\ SocketOf(n)
      /\ toHub \in [Nodes -> [Conns -> Seq(ToHubFrames)]] /\ up \in [Nodes -> BOOLEAN]
  BY DEF TypeInv, TypeOK, NetTyped, NodesTyped, Conns, RouteInv, RouteOf
<1>1. /\ UNCHANGED nodeVars
      /\ up[n] => \/ toNode'[n] = toNode[n]
                  \/ \E f \in Tasks : f.t \notin Asg /\ toNode'[n] = Append(toNode[n], f)
  <2>1. ASSUME NEW m \in Nodes, NEW c \in Conns, HubHears(m, c)
        PROVE  UNCHANGED nodeVars /\ (up[n] => toNode'[n] = toNode[n])
    <3>1. CASE HubHello(m, c) /\ m = n /\ up[n]
      <4>1. c \in open[n] /\ toHub[n][c] # <<>> /\ Head(toHub[n][c]).t \in Hello
        BY <3>1 DEF HubHello, Hears, Hello
      <4>2. c = 1
        BY <1>0, <4>1 DEF SocketOf, Socket, Fixed
      <4>3. ~Free(toHub[n][1], Hello)
        BY <1>0, <4>1, <4>2, Shifted DEF Free
      <4> QED BY <3>1, <4>3 DEF Fixed
    <3>2. CASE HubHello(m, c) /\ ~(m = n /\ up[n])
      BY <1>0, <3>2 DEF HubHello, Sent
    <3>3. CASE ~HubHello(m, c)
      BY <2>1, <3>3 DEF HubHears, HubReady, HubError, HubPrefetched, HandlerEnds
    <3> QED BY <3>1, <3>2, <3>3
  <2> QED BY <2>1, HubAsks
<1>2. up[n] => Free(toNode'[n], Asg)
  <2>1. ASSUME NEW f \in Tasks, f.t \notin Asg, toNode'[n] = Append(toNode[n], f), up[n]
        PROVE  Free(toNode'[n], Asg)
    <3>1. f \in ToNodeFrames
      BY DEF ToNodeFrames
    <3> QED BY <1>0, <2>1, <3>1, FreeAppend DEF Fixed
  <2> QED BY <1>1, <2>1 DEF Fixed
<1>3. toHub'[n][1] \in {toHub[n][1], <<>>} \/ (toHub[n][1] # <<>> /\ toHub'[n][1] = Tail(toHub[n][1]))
  <2>1. ASSUME NEW m \in Nodes, NEW c \in Conns, HubHears(m, c)
        PROVE  \/ toHub'[n][1] \in {toHub[n][1], <<>>}
               \/ toHub[n][1] # <<>> /\ toHub'[n][1] = Tail(toHub[n][1])
    <3>1. CASE HubHello(m, c)
      <4>1. toHub'[n][1] = IF n # m THEN toHub[n][1]
                           ELSE IF c = 1 THEN Tail(toHub[n][1])
                           ELSE IF Linger \/ 1 > c THEN toHub[n][1] ELSE <<>>
        BY <1>0, <3>1 DEF HubHello, TakeAndClose
      <4> QED BY <3>1, <4>1 DEF HubHello, Hears
    <3>2. CASE HubReady(m, c) \/ HubError(m, c) \/ HubPrefetched(m, c)
      <4>1. Take(m, c) /\ toHub[m][c] # <<>>
        BY <3>2 DEF HubReady, HubError, HubPrefetched, Hears
      <4> QED BY <1>0, <4>1 DEF Take
    <3>3. CASE HandlerEnds(m, c)
      BY <1>0, <3>3 DEF HandlerEnds
    <3> QED BY <2>1, <3>1, <3>2, <3>3 DEF HubHears
  <2>2. ASSUME NEW m \in Nodes, StaleLeft(m)
        PROVE  toHub'[n][1] \in {toHub[n][1], <<>>}
    BY <1>0, <2>2 DEF StaleLeft
  <2>3. ASSUME NEW m \in Nodes, HeartbeatLate(m) \/ Heartbeat(m) \/ Timeout(m)
        PROVE  toHub' = toHub
    BY <2>3 DEF HeartbeatLate, Heartbeat, Timeout, netVars
  <2>4. CASE \/ ReplanApplies \/ ReplanParks \/ ManualReplan \/ ManualApplies
             \/ EndPrefetch \/ EndPrefetch2 \/ Drained \/ EndSwitch
    BY <2>4 DEF ReplanApplies, ReplanParks, ManualReplan, ManualApplies, StartApply,
       EndPrefetch, EndPrefetch2, StartDrain, Abandon, Drained, EndSwitch, netVars
  <2> QED BY <2>1, <2>2, <2>3, <2>4
<1>4. Free(toHub[n][1], Hello) => Free(toHub'[n][1], Hello)
  <2>1. Free(<<>>, Hello) /\ toHub[n][1] \in Seq(ToHubFrames)
    BY <1>0 DEF Free
  <2> QED BY <1>3, <2>1, FreeTail
<1> QED BY <1>1, <1>2, <1>4 DEF Fixed, nodeVars

\* A fixed member stays so, outside a switch.
LEMMA FixedKept ==
  ASSUME TypeInv, RouteInv, MaxConn = 1, NEW n \in Nodes, [Next]_vars, phase \notin Switching,
         committed' = committed, Fixed(n)
  PROVE  Fixed(n)' /\ (up'[n] => up[n] /\ shard'[n] = shard[n])
<1>1. CASE UNCHANGED vars \/ Begin \/ Finish
  BY <1>1 DEF vars, Begin, Finish, nodeVars, netVars, Fixed
<1>2. CASE \E m \in Nodes : NodeStep(m) \/ Drop(m) \/ FailLoad(m)
  BY <1>2, WorkFixed
<1>3. CASE \/ \E m \in Nodes, c \in Conns : HubHears(m, c)
           \/ \E m \in Nodes : StaleLeft(m) \/ HeartbeatLate(m) \/ Heartbeat(m) \/ Timeout(m)
           \/ ReplanApplies \/ ReplanParks \/ ManualReplan \/ ManualApplies
           \/ EndPrefetch \/ EndPrefetch2 \/ Drained \/ EndSwitch
  BY <1>3, HubFixed DEF nodeVars
<1> QED BY <1>1, <1>2, <1>3 DEF Next, Rebalancing, ApplyStep, SwitchSend

\* Nor does a request disturb it.
LEMMA TrafficFixed ==
  ASSUME TypeInv, RouteInv, NEW n \in Nodes, MaxConn = 1, Fixed(n), TrafficOn(n),
         UNCHANGED <<nodeVars, committed>>
  PROVE  Fixed(n)'
<1>0. /\ toNode[n] \in Seq(ToNodeFrames) /\ 1 \in Conns
      /\ toHub[n] \in [Conns -> Seq(ToHubFrames)]
  BY RouteTypes DEF Conns
<1>1. Free(toNode[n], Asg) => Free(toNode'[n], Asg)
  <2>1. ASSUME NEW f \in ToNodeFrames, f.t \in ServingKinds, toNode'[n] = Append(toNode[n], f)
        PROVE  Free(toNode[n], Asg) => Free(toNode'[n], Asg)
    BY <1>0, <2>1, FreeAppend, OwnKinds
  <2>2. CASE toNode[n] # <<>> /\ toNode'[n] = Tail(toNode[n])
    BY <1>0, <2>2, FreeTail
  <2> QED BY <2>1, <2>2 DEF TrafficOn
<1>2. Free(toHub[n][1], Hello) => Free(toHub'[n][1], Hello)
  <2>1. CASE toHub'[n] = toHub[n]
    BY <2>1
  <2>2. ASSUME NEW f \in ToHubFrames, f.t \in ServingKinds,
               toHub'[n] = [toHub[n] EXCEPT ![conn[n]] = Append(@, f)]
        PROVE  Free(toHub[n][1], Hello) => Free(toHub'[n][1], Hello)
    <3>1. toHub'[n][1] = Append(toHub[n][1], f)
      BY <1>0, <2>2 DEF Fixed
    <3> QED BY <1>0, <2>2, <3>1, FreeAppend, OwnKinds
  <2>3. ASSUME NEW c \in open[n], toHub[n][c] # <<>>,
               toHub'[n] = [toHub[n] EXCEPT ![c] = Tail(@)]
        PROVE  Free(toHub[n][1], Hello) => Free(toHub'[n][1], Hello)
    <3>1. toHub'[n][1] = toHub[n][1] \/ (toHub[n][1] # <<>> /\ toHub'[n][1] = Tail(toHub[n][1]))
      BY <1>0, <2>3
    <3> QED BY <1>0, <3>1, FreeTail
  <2> QED BY <2>1, <2>2, <2>3 DEF TrafficOn
<1> QED BY <1>1, <1>2 DEF Fixed, nodeVars

\* The members of requests of the present generation are fixed.
LEMMA StepFixed ==
  ASSUME RoutedInv, RoutedInv', LinkInv, EpochInv, FixedInv, MaxConn = 1,
         [ServingNext]_allVars, NEW n \in Nodes, NEW r \in Reqs,
         n \in Members(committed), Fits(r)'
  PROVE  /\ Fixed(n)'
         /\ Fits(r) => Fixed(n) /\ (up'[n] => up[n] /\ shard'[n] = shard[n])
<1>0. /\ TypeInv /\ ServingInv /\ ServingInv' /\ RouteInv /\ LayoutInv
  BY DEF RoutedInv, ServingInv
<1>1. /\ \/ Fits(r)
         \/ ServingStep /\ \E q : Goes(r, q) /\ Admitted(r, q)
      /\ committed' = committed /\ phase \notin Switching
  BY FitsOn
<1>2. Fixed(n)
  <2>1. CASE Fits(r)
    BY <2>1 DEF FixedInv, FixedFor
  <2>2. CASE \E q : Goes(r, q) /\ Admitted(r, q)
    <3>1. Serves(n)
      BY <1>0, <2>2, ServesAll DEF Admitted
    <3> QED BY <1>0, <3>1, ServesFixed
  <2> QED BY <1>1, <2>1, <2>2
<1>3. CASE ServingStep
  <2>1. UNCHANGED nodeVars /\ TrafficOn(n)
    BY <1>0, <1>3, ServingTraffic
  <2> QED BY <1>0, <1>1, <1>2, <2>1, TrafficFixed DEF nodeVars
<1>4. CASE ~ServingStep
  <2>1. [Next]_vars
    BY <1>4, StepIs
  <2> QED BY <1>0, <1>1, <1>2, <2>1, FixedKept
<1> QED BY <1>3, <1>4

\* A reset is on its way only when its request is over, and a request that has not
\* been admitted is in no cache.
ResetsOver == \A n \in Nodes, r \in Reqs : \A i \in DOMAIN toNode[n] :
                IsReset(toNode[n][i], r) => req[r].st = "over"
Unmet == \A r \in Reqs : req[r].st \in {"new", "called"} => \A n \in Nodes : cache[n][r] = 0

\* What a step does to the cache of a request.
LEMMA CacheMoves ==
  ASSUME ServingInv, [ServingNext]_allVars, NEW n \in Nodes, NEW r \in Reqs
  PROVE  \/ cache'[n][r] = cache[n][r]
         \/ shard'[n] # shard[n] /\ cache'[n] = EmptyCache
         \/ toNode[n] # <<>> /\ IsReset(Head(toNode[n]), r) /\ cache'[n][r] = 0
         \/ /\ Forward(n) /\ toNode[n] # <<>> /\ Carries(Head(toNode[n]), r)
            /\ cache'[n][r] = cache[n][r] + 1
<1>0. cache \in [Nodes -> [Reqs -> Nat]]
  BY DEF ServingInv
<1>1. CASE cache' = cache
  BY <1>1
<1>2. CASE Disturb
  BY <1>2 DEF Disturb
<1>3. ASSUME NEW s \in Reqs,
             \/ Chat(s) \/ ChatTimeout(s) \/ Leave(s) \/ Admit(s)
             \/ RequestStep(s) \/ Done(s) \/ Cancel(s)
      PROVE  cache' = cache
  BY <1>3, RequestDoes DEF End, Goes, Paced
<1>4. ASSUME NEW m \in Nodes, BatchStep(m) \/ \E c \in Conns : HubForwarded(m, c)
      PROVE  cache' = cache
  BY <1>4 DEF BatchStep, RunWindow, SendBatch, BatchTimeout, HubForwarded
<1>5. ASSUME NEW m \in Nodes, Forward(m)
      PROVE  \/ cache'[n][r] = cache[n][r]
             \/ /\ Forward(n) /\ toNode[n] # <<>> /\ Carries(Head(toNode[n]), r)
                /\ cache'[n][r] = cache[n][r] + 1
  <2> DEFINE f == Head(toNode[m])
  <2>1. \/ cache' = cache
        \/ cache' = [cache EXCEPT ![m] =
             [s \in Reqs |-> IF s \in DOMAIN f.x THEN @[s] + 1 ELSE @[s]]]
    BY <1>5 DEF Forward
  <2>2. toNode[m] # <<>> /\ f.t \in FwdKinds
    BY <1>5 DEF Forward, NodeHears, FwdKinds
  <2>3. CASE m = n /\ r \in DOMAIN f.x /\ cache' # cache
    BY <1>0, <1>5, <2>1, <2>2, <2>3 DEF Carries
  <2>4. CASE ~(m = n /\ r \in DOMAIN f.x)
    BY <1>0, <2>1, <2>4
  <2> QED BY <2>3, <2>4
<1>6. ASSUME NEW m \in Nodes, Reset(m)
      PROVE  \/ cache'[n][r] = cache[n][r]
             \/ toNode[n] # <<>> /\ IsReset(Head(toNode[n]), r) /\ cache'[n][r] = 0
  BY <1>0, <1>6 DEF Reset, NodeHears, IsReset
<1> QED BY <1>1, <1>2, <1>3, <1>4, <1>5, <1>6
        DEF ServingNext, ServingStep, allVars, servingVars

\* What a queue holds after a frame is added.
LEMMA AddedFrame ==
  ASSUME NEW S, NEW q \in Seq(S), NEW f, NEW i \in DOMAIN Append(q, f)
  PROVE  \/ i \in DOMAIN q /\ Append(q, f)[i] = q[i]
         \/ Append(q, f)[i] = f
OBVIOUS

\* A reset comes from the end of its request.
LEMMA ResetsFrom ==
  ASSUME ServingInv, [ServingNext]_allVars, NEW n \in Nodes, NEW r \in Reqs,
         NEW i \in DOMAIN toNode'[n], IsReset(toNode'[n][i], r)
  PROVE  \/ \E j \in DOMAIN toNode[n] : IsReset(toNode[n][j], r)
         \/ r \in Running /\ \E how : End(r, how)
<1>0. toNode \in [Nodes -> Seq(ToNodeFrames)] /\ TypeInv
  BY Typed DEF ServingInv
<1>1. ASSUME NEW f, ~IsReset(f, r), toNode'[n] \in {toNode[n], Append(toNode[n], f)}
      PROVE  \E j \in DOMAIN toNode[n] : IsReset(toNode[n][j], r)
  BY <1>0, <1>1, AddedFrame
<1>2. CASE toNode'[n] = toNode[n]
  BY <1>2
<1>3. CASE Rebalancing
  <2>1. Thin(toNode'[n], toNode[n])
    BY <1>0, <1>3, RebalancingThins DEF NodeQueuesThin
  <2>2. toNode'[n][i].t \in ServingKinds
    BY DEF IsReset, ServingKinds
  <2>3. PICK j \in DOMAIN toNode[n] : toNode[n][j] = toNode'[n][i]
    BY <2>1, <2>2 DEF Thin
  <2> QED BY <2>3
<1>4. ASSUME NEW t \in FwdKinds, NEW x, NEW ok, NEW m,
             toNode' = Sent(m, ws[m], [t |-> t, x |-> x, ok |-> ok])
      PROVE  \E j \in DOMAIN toNode[n] : IsReset(toNode[n][j], r)
  <2> DEFINE f == [t |-> t, x |-> x, ok |-> ok]
  <2>1. ~IsReset(f, r)
    BY DEF IsReset, FwdKinds
  <2> HIDE DEF f
  <2>2. toNode'[n] \in {toNode[n], Append(toNode[n], f)}
    BY <1>0, <1>4 DEF Sent, f
  <2> QED BY <1>1, <2>1, <2>2
<1>5. ASSUME NEW s \in Reqs,
             \/ Chat(s) \/ ChatTimeout(s) \/ Leave(s) \/ Admit(s)
             \/ RequestStep(s) \/ Done(s) \/ Cancel(s)
      PROVE  \/ \E j \in DOMAIN toNode[n] : IsReset(toNode[n][j], r)
             \/ r \in Running /\ \E how : End(r, how)
  <2>1. CASE s # r /\ \E how : End(s, how)
    <3> DEFINE f == [t |-> "reset", req |-> s]
    <3>1. toNode'[n] \in {toNode[n], Append(toNode[n], f)} /\ ~IsReset(f, r)
      BY <2>1 DEF End, Resets, IsReset
    <3> HIDE DEF f
    <3> QED BY <1>1, <3>1
  <2>2. ASSUME NEW q, Goes(s, q)
        PROVE  \E j \in DOMAIN toNode[n] : IsReset(toNode[n][j], r)
    <3>1. \/ toNode' = toNode
          \/ toNode' = Sent(Owner(q), ws[Owner(q)],
                            [t |-> "fwd", x |-> [u \in {s} |-> q.x], ok |-> TRUE])
      BY <2>2 DEF Goes, Hop
    <3> QED BY <1>2, <1>4, <3>1 DEF FwdKinds
  <2>3. CASE Paced(s)
    BY <1>4, <2>3 DEF Paced, Fwd, FwdKinds
  <2>4. CASE UNCHANGED <<toNode, cache>>
    BY <1>2, <2>4
  <2>5. CASE s = r /\ s \in Running /\ \E how : End(s, how)
    BY <2>5
  <2>6. \/ s \in Running /\ \E how : End(s, how)
        \/ \E q : Goes(s, q)
        \/ Paced(s)
        \/ UNCHANGED <<toNode, cache>>
    BY <1>5, RequestDoes
  <2> QED BY <2>1, <2>2, <2>3, <2>4, <2>5, <2>6
<1>6. ASSUME NEW m \in Nodes, BatchStep(m)
      PROVE  \E j \in DOMAIN toNode[n] : IsReset(toNode[n][j], r)
  <2>1. toNode' = toNode \/ \E B : toNode' = Sent(m, ws[m], Fwd("fwd_batch", B))
    BY <1>6 DEF BatchStep, RunWindow, SendBatch, BatchTimeout, SendTo, vars, netVars
  <2> QED BY <1>2, <1>4, <2>1 DEF Fwd, FwdKinds
<1>7. ASSUME NEW m \in Nodes, Forward(m) \/ Reset(m)
      PROVE  \E j \in DOMAIN toNode[n] : IsReset(toNode[n][j], r)
  <2>1. toNode[m] # <<>> /\ toNode' = [toNode EXCEPT ![m] = Tail(@)]
    BY <1>7 DEF Forward, Reset, NodeHears
  <2>2. CASE m = n
    <3>1. toNode'[n] = Tail(toNode[n]) /\ toNode[n] # <<>>
      BY <1>0, <2>1, <2>2
    <3>2. i + 1 \in DOMAIN toNode[n] /\ toNode[n][i + 1] = toNode'[n][i]
      BY <1>0, <3>1, Shifted
    <3> QED BY <3>2
  <2>3. CASE m # n
    BY <1>0, <1>2, <2>1, <2>3
  <2> QED BY <2>2, <2>3
<1>8. ASSUME NEW m \in Nodes, NEW c \in Conns, HubForwarded(m, c)
      PROVE  toNode' = toNode
  BY <1>8 DEF HubForwarded
<1> QED BY <1>2, <1>3, <1>5, <1>6, <1>7, <1>8
        DEF ServingNext, ServingStep, allVars, vars, netVars

\* A request that is over, or has not begun, in the next state.
LEMMA OverAndUnmet ==
  ASSUME ServingInv, NEW r \in Reqs, Changes(r)
  PROVE  /\ req[r].st = "over" => req'[r].st = "over"
         /\ req'[r].st \in {"new", "called"} => req[r].st \in {"new", "called"}
<1>0. req[r] \in Requests
  BY Typed
<1>1. CASE Rests(r) \/ Gone(r)
  BY <1>1 DEF Rests, Gone
<1>2. CASE Passes(r)
  <2>1. req'[r].st = "between" /\ req[r].st # "over"
    BY <1>0, <1>2 DEF Passes, Requests
  <2> QED BY <2>1
<1>3. CASE Paced(r)
  <2>1. req'[r].st = "waiting" /\ req[r].st # "over"
    BY <1>0, <1>3 DEF Paced, Requests
  <2> QED BY <2>1
<1>4. CASE Answered(r)
  <2>1. PICK x : req'[r] = [req[r] EXCEPT !.x = x]
    BY <1>4 DEF Answered
  <2>2. req'[r].st = req[r].st
    BY <1>0, <2>1 DEF Requests
  <2> QED BY <2>2
<1>5. ASSUME NEW q, Goes(r, q)
      PROVE  req'[r].st \in Hopping /\ req[r].st # "over"
  BY <1>5, GoesOn DEF Goes, Admitted, Starts, Proceeds
<1> QED BY <1>1, <1>2, <1>3, <1>4, <1>5 DEF Changes, Hopping

\* Both hold on.
LEMMA StepUnmet ==
  ASSUME ServingInv, ServingInv', ResetsOver, Unmet, [ServingNext]_allVars
  PROVE  ResetsOver' /\ Unmet'
<1>0. \A r \in Reqs : Changes(r)
  BY StepChanges
<1>1. ResetsOver'
  <2> SUFFICES ASSUME NEW n \in Nodes, NEW r \in Reqs, NEW i \in DOMAIN toNode'[n],
                      IsReset(toNode'[n][i], r)
               PROVE  req'[r].st = "over"
    BY DEF ResetsOver
  <2>1. CASE \E j \in DOMAIN toNode[n] : IsReset(toNode[n][j], r)
    BY <1>0, <2>1, OverAndUnmet DEF ResetsOver
  <2>2. CASE \E how : End(r, how)
    BY <2>2, Typed DEF End, Requests
  <2> QED BY <2>1, <2>2, ResetsFrom
<1>2. Unmet'
  <2> SUFFICES ASSUME NEW r \in Reqs, req'[r].st \in {"new", "called"}, NEW n \in Nodes
               PROVE  cache'[n][r] = 0
    BY DEF Unmet
  <2>1. req[r].st \in {"new", "called"}
    BY <1>0, OverAndUnmet
  <2>2. cache[n][r] = 0
    BY <2>1 DEF Unmet
  <2>3. Sites(r) = {}
    BY <2>1 DEF ServingInv, Copies, Idles
  <2>4. ~(toNode[n] # <<>> /\ Carries(Head(toNode[n]), r))
    <3>1. toNode[n] \in Seq(ToNodeFrames)
      BY Typed
    <3> QED BY <2>3, <3>1, NoSites, TailHas
  <2> QED BY <2>2, <2>4, CacheMoves DEF EmptyCache
<1> QED BY <1>1, <1>2

\* Passes of r in the cache of n: one more behind the hop than ahead of it, and at
\* the hop itself one more once the shard has run it.
CacheAt(r, n) ==
  LET q == req[r]
      h == q.pipe[n][1]
  IN /\ q.st = "between" => cache[n][r] = q.x.pass
     /\ q.st \in Hopping /\ fut[r] \in {"open", "ok"} =>
          /\ h < q.x.at => cache[n][r] = q.x.pass + 1
          /\ h > q.x.at => cache[n][r] = q.x.pass
          /\ h = q.x.at =>
               /\ fut[r] = "ok" => cache[n][r] = q.x.pass + 1
               /\ q.st = "pacing" => cache[n][r] = q.x.pass
               /\ Pends(q, fut[r]) =>
                    /\ AtNode(n, r) => cache[n][r] = q.x.pass
                    /\ \A c \in Conns : \A i \in DOMAIN toHub[n][c] :
                         Carries(toHub[n][c][i], r) /\ toHub[n][c][i].ok
                           => cache[n][r] = q.x.pass + 1
CacheOf(r) == Fits(r) => \A n \in Members(committed) : up[n] => CacheAt(r, n)

\* The activation met them all.
WholeOf(r) ==
  Fits(r) =>
    /\ req[r].st = "between" => req[r].x.whole
    /\ req[r].st \in Hopping /\ fut[r] \in {"open", "ok"} => req[r].x.whole
    /\ Pends(req[r], fut[r]) =>
         \A n \in Nodes, c \in Conns : \A i \in DOMAIN toHub[n][c] :
           Carries(toHub[n][c][i], r) /\ toHub[n][c][i].ok => toHub[n][c][i].x[r].whole
WholeInv == \A r \in Reqs : CacheOf(r) /\ WholeOf(r)

CachesInv == PassesInv /\ FixedInv /\ ResetsOver /\ Unmet /\ WholeInv

\* No other range begins inside the one of a hop.
LEMMA HopsApart ==
  ASSUME NEW A \in Layouts, Tiles(A), NEW m \in Nodes, NEW n \in Nodes,
         A[m] # NoRange, A[n] # NoRange, A[m][1] <= A[n][1], A[n][1] < A[m][2]
  PROVE  m = n
<1>1. A[m] \in Ranges /\ A[n] \in Ranges
  BY DEF Layouts
<1>2. /\ A[n][1] \in LayerIds /\ A[n][1] \in Held(A[n]) /\ A[n][1] \in Held(A[m])
  BY <1>1, NLayersAssumption DEF Ranges, LayerIds, Held
<1> QED BY <1>2 DEF Tiles

\* A copy is at the node or on its way back, never both.
LEMMA OneSideOnly ==
  ASSUME 1 \in Conns, NEW r \in Reqs, NEW n \in Nodes, Unique(r)', AtNode(n, r)',
         AtHub(n, r)'
  PROVE  FALSE
<1>1. PICK c \in Conns : Has(toHub'[n][c], r)
  BY DEF AtHub
<1>2. <<"hub", n, c>> \in Sites(r)'
  BY <1>1 DEF Sites, Places
<1>3. \E k \in {"node", "queue", "run"} : <<k, n, 1>> \in Sites(r)'
  BY DEF AtNode, Sites, Places
<1> QED BY <1>2, <1>3 DEF Unique

\* Where the hops of a request that fits are, and what its caches hold once its
\* present hop is done.
LEMMA HopIsDone ==
  ASSUME RoutedInv, EpochInv, NEW r \in Reqs, Fits(r), req[r].st \in Hopping, fut[r] = "ok",
         NEW n \in Members(committed), CacheAt(r, n)
  PROVE  /\ req[r].pipe[n][1] < HopEnd(r) => cache[n][r] = req[r].x.pass + 1
         /\ req[r].pipe[n][1] >= HopEnd(r) => cache[n][r] = req[r].x.pass
         /\ req[r].pipe[n][1] < NLayers /\ HopEnd(r) <= NLayers /\ HopEnd(r) \in Nat
<1> DEFINE A == req[r].pipe
           o == Owner(req[r])
<1>0. ServingInv /\ n \in Nodes /\ A \in Layouts /\ A = committed /\ A[n] # NoRange
  BY Typed DEF RoutedInv, Requests, EpochInv, EpochOf, Fits, Members
<1>1. o \in Nodes /\ A[o] # NoRange /\ A[o][1] = req[r].x.at /\ Tiles(A)
  BY <1>0, OnHop
<1>2. A[n] \in Ranges /\ A[o] \in Ranges
  BY <1>0, <1>1 DEF Layouts
<1>3. /\ A[n][1] \in Nat /\ A[o][1] \in Nat /\ A[o][2] \in Nat /\ A[o][1] < A[o][2]
      /\ A[n][1] < NLayers /\ A[o][2] <= NLayers
  BY <1>2, NLayersAssumption DEF Ranges
<1>4. A[n][1] < A[o][2] /\ A[o][1] < A[n][1] => FALSE
  BY <1>0, <1>1, <1>3, HopsApart
<1> QED BY <1>1, <1>3, <1>4 DEF CacheAt, HopEnd

\* A node that runs a hop answers.
LEMMA ForwardAnswers ==
  ASSUME ServingInv, RouteInv, NEW n \in Nodes, NEW r \in Reqs, Forward(n),
         Carries(Head(toNode[n]), r)
  PROVE  AtHub(n, r)'
<1> DEFINE f    == Head(toNode[n])
           kind == IF f.t = "fwd" THEN "fwd_out" ELSE "fwd_batch_out"
           f1   == [t |-> kind, x |-> f.x, ok |-> FALSE]
           f2   == [t |-> kind, x |-> [s \in DOMAIN f.x |-> Applied(n, s, f.x[s])], ok |-> TRUE]
<1>1. toNode[n] # <<>> /\ (Says(n, f1) \/ Says(n, f2))
  BY DEF Forward, NodeHears
<1>2. Carries(f1, r) /\ Carries(f2, r)
  BY DEF Carries, FwdKinds
<1> HIDE DEF f1, f2
<1>3. PICK g : Says(n, g) /\ Carries(g, r)
  BY <1>1, <1>2
<1>4. conn[n] \in Conns /\ TypeInv
  BY <1>1, WorkersAreUp DEF ServingInv, RouteInv, RouteOf
<1>5. toHub'[n][conn[n]] = Append(toHub[n][conn[n]], g)
  BY <1>3, <1>4, SaysToOne
<1>6. toHub[n][conn[n]] \in Seq(ToHubFrames)
  BY <1>4, RouteTypes
<1>7. Has(toHub'[n][conn[n]], r)
  <2>1. /\ Len(toHub[n][conn[n]]) + 1 \in DOMAIN Append(toHub[n][conn[n]], g)
        /\ Append(toHub[n][conn[n]], g)[Len(toHub[n][conn[n]]) + 1] = g
    BY <1>6
  <2> QED BY <1>3, <1>5, <2>1 DEF Has
<1> QED BY <1>4, <1>7 DEF AtHub

\* A request that is handed on finds the caches as its last hop left them.
LEMMA HandedCaches ==
  ASSUME CachesInv, NEW r \in Reqs, NEW q, Goes(r, q), Fits(r) \/ Admitted(r, q),
         NEW n \in Members(committed), Fits(r) => CacheAt(r, n)
  PROVE  CacheAt(r, n)'
<1>0. /\ RoutedInv /\ ServingInv /\ TypeInv /\ LayoutInv /\ EpochInv /\ n \in Nodes
      /\ cache' = cache /\ req[r] \in Requests /\ cache \in [Nodes -> [Reqs -> Nat]]
  BY Typed DEF CachesInv, PassesInv, RoutedInv, ServingInv, Goes, Members
<1>1. /\ Sites(r) = {} /\ fut'[r] = "open" /\ req'[r].st \in Hopping
      /\ req'[r].x = q.x /\ req'[r].pipe = q.pipe
  BY <1>0, GoesOn
<1>2. ~AtHub(n, r)'
  BY <1>0, <1>1, HandedOn
<1>3. q.pipe = committed /\ q.pipe[n][1] \in Nat
  <2>1. Admitted(r, q) => q.pipe = committed
    BY <1>0, ServesAll DEF Admitted
  <2>2. Starts(r, q) => q.pipe = committed
    BY <1>0, ServesAll DEF Starts, Requests
  <2>3. Proceeds(r, q) => q.pipe = req[r].pipe
    BY <1>0 DEF Proceeds, Requests
  <2>4. Fits(r) => req[r].pipe = committed
    BY <1>0 DEF EpochInv, EpochOf, Fits
  <2>5. Proceeds(r, q) => Fits(r)
    BY DEF Proceeds, Admitted
  <2>6. committed[n][1] \in Nat
    BY <1>0, NLayersAssumption DEF TypeInv, TypeOK, ApplyTyped, Layouts, Ranges, NoRange
  <2> QED BY <2>1, <2>2, <2>3, <2>4, <2>5, <2>6 DEF Goes
<1>4. /\ q.pipe[n][1] < q.x.at => cache[n][r] = q.x.pass + 1
      /\ q.pipe[n][1] > q.x.at => cache[n][r] = q.x.pass
      /\ q.pipe[n][1] = q.x.at => cache[n][r] = q.x.pass
  <2>1. CASE Admitted(r, q)
    <3>1. q.x = FirstAct /\ cache[n][r] = 0
      BY <1>0, <2>1 DEF Admitted, CachesInv, Unmet
    <3> QED BY <1>3, <3>1 DEF FirstAct
  <2>2. CASE Starts(r, q)
    <3>1. q.x.at = 0 /\ q.x.pass = req[r].x.pass /\ req[r].st = "between"
      BY <1>0, <2>2 DEF Starts, Requests, Acts
    <3>2. cache[n][r] = req[r].x.pass
      BY <2>2, <3>1 DEF CacheAt, Admitted
    <3> QED BY <1>3, <3>1, <3>2
  <2>3. CASE Proceeds(r, q)
    <3>1. /\ q.x.at = HopEnd(r) /\ q.x.pass = req[r].x.pass /\ q.pipe = req[r].pipe
          /\ req[r].st \in Hopping /\ fut[r] = "ok"
      BY <1>0, <2>3 DEF Proceeds, Requests, Acts, HopEnd, Hopping
    <3>2. Fits(r)
      BY <2>3 DEF Proceeds, Admitted
    <3>3. /\ req[r].pipe[n][1] < HopEnd(r) => cache[n][r] = req[r].x.pass + 1
          /\ req[r].pipe[n][1] >= HopEnd(r) => cache[n][r] = req[r].x.pass
          /\ HopEnd(r) \in Nat
      BY <1>0, <3>1, <3>2, HopIsDone
    <3> QED BY <1>3, <3>1, <3>3
  <2> QED BY <2>1, <2>2, <2>3 DEF Goes
<1>5. \A c \in Conns : \A i \in DOMAIN toHub'[n][c] : ~Carries(toHub'[n][c][i], r)
  BY <1>2 DEF AtHub, Has
<1>6. req'[r].st # "between" /\ fut'[r] # "ok"
  BY <1>1 DEF Hopping
<1> QED BY <1>0, <1>1, <1>4, <1>5, <1>6 DEF CacheAt

\* A request that is not handed on finds what the nodes added.
LEMMA KeptCaches ==
  ASSUME CachesInv, ServingInv', MaxConn = 1, [ServingNext]_allVars, NEW r \in Reqs,
         Fits(r), Fits(r)', ~\E q : Goes(r, q),
         NEW n \in Members(committed), up[n], shard'[n] = shard[n], CacheAt(r, n)
  PROVE  CacheAt(r, n)'
<1> DEFINE h == req[r].pipe[n][1]
           p == req[r].x.pass
<1>0. /\ RoutedInv /\ ServingInv /\ RouteInv /\ EpochInv /\ PlaceInv /\ SteadyInv /\ PassInv
      /\ n \in Nodes /\ req[r] \in Requests /\ cache \in [Nodes -> [Reqs -> Nat]] /\ 1 \in Conns
  BY Typed DEF CachesInv, PassesInv, RoutedInv, ServingInv, Members, Conns
<1>1. h \in Nat /\ p \in Nat /\ req[r].x.at \in Nat
  <2>1. req[r].pipe \in Layouts /\ req[r].x \in Acts
    BY <1>0 DEF Requests
  <2> QED BY <1>0, <2>1, NLayersAssumption DEF Layouts, Ranges, NoRange, Acts
<1>2. \/ cache'[n][r] = cache[n][r]
      \/ /\ Forward(n) /\ toNode[n] # <<>> /\ Carries(Head(toNode[n]), r)
         /\ cache'[n][r] = cache[n][r] + 1
  <2>1. ~(toNode[n] # <<>> /\ IsReset(Head(toNode[n]), r))
    <3>1. toNode[n] \in Seq(ToNodeFrames)
      BY <1>0, Typed
    <3>2. req[r].st # "over"
      BY DEF Fits, Running
    <3>3. toNode[n] # <<>> => 1 \in DOMAIN toNode[n] /\ Head(toNode[n]) = toNode[n][1]
      BY <3>1, Shifted
    <3>4. ResetsOver
      BY DEF CachesInv
    <3> QED BY <1>0, <3>2, <3>3, <3>4 DEF ResetsOver
  <2> QED BY <1>0, <2>1, CacheMoves
<1>3. Changes(r) /\ ~Gone(r)
  BY <1>0, StepChanges DEF Gone, Fits
<1>4. Flows(r) \/ Paced(r)
  BY <1>0, StepFlows
<1>5. CASE Paced(r)
  <2>1. /\ fut'[r] = fut[r] /\ fut[r] # "ok" /\ req'[r].st = "waiting"
        /\ req'[r].x = req[r].x /\ req'[r].pipe = req[r].pipe
        /\ req[r].st = "pacing" /\ cache' = cache
    BY <1>0, <1>5, PacedOn DEF Paced
  <2>2. fut[r] = "open" =>
          \A c \in Conns : \A i \in DOMAIN toHub'[n][c] : ~Carries(toHub'[n][c][i], r)
    BY <1>0, <1>5, PacedOn, HandedOn DEF AtHub, Has
  <2> QED BY <2>1, <2>2 DEF CacheAt, Hopping, Pends
<1>6. CASE Passes(r)
  <2>1. /\ req[r].st \in Hopping /\ fut[r] = "ok" /\ ~(HopEnd(r) < NLayers)
        /\ req'[r] = Over(req[r], HopEnd(r)) /\ cache' = cache
    BY <1>6 DEF Passes, Hopping, HopEnd, Over
  <2>2. req'[r].st = "between" /\ req'[r].x.pass = p + 1
    BY <1>0, <2>1, PassOver
  <2>3. /\ h < HopEnd(r) => cache[n][r] = p + 1
        /\ h < NLayers
    BY <1>0, <2>1, HopIsDone
  <2>4. HopEnd(r) \in Nat
    <3>1. Owner(req[r]) \in Nodes /\ req[r].pipe \in Layouts
      BY <1>0, <2>1, OnHop DEF Requests
    <3> QED BY <3>1, NLayersAssumption DEF HopEnd, Layouts, Ranges, NoRange
  <2> QED BY <1>1, <2>1, <2>2, <2>3, <2>4, NLayersAssumption DEF CacheAt, Hopping
<1>7. CASE Answered(r)
  <2>1. PICK m \in Nodes, c \in Conns :
          LET f == Head(toHub[m][c]) IN
            /\ HubForwarded(m, c) /\ toHub[m][c] # <<>> /\ f.ok
            /\ Carries(f, r) /\ Pends(req[r], fut[r])
            /\ f.x[r].pass = req[r].x.pass /\ f.x[r].at = req[r].x.at
            /\ req'[r] = [req[r] EXCEPT !.x = f.x[r]] /\ fut'[r] = "ok"
    BY <1>7 DEF Answered
  <2> DEFINE f == Head(toHub[m][c])
  <2>2. 1 \in DOMAIN toHub[m][c] /\ f = toHub[m][c][1]
    <3>1. toHub[m][c] \in Seq(ToHubFrames)
      BY <1>0, Typed
    <3> QED BY <2>1, <3>1, Shifted
  <2>3. /\ req'[r].x.pass = p /\ req'[r].x.at = req[r].x.at
        /\ req'[r].st = req[r].st /\ req'[r].pipe = req[r].pipe
    BY <1>0, <2>1 DEF Requests
  <2>4. cache' = cache /\ req[r].st \in {"waiting", "queued"} /\ fut[r] = "open"
    BY <2>1 DEF HubForwarded, Pends
  <2>5. h = req[r].x.at => cache[n][r] = p + 1
    <3>1. m = Owner(req[r])
      BY <1>0, <2>1, <2>2 DEF PlaceInv, PlaceOf, AtHub, Has
    <3>2. h = req[r].x.at => m = n
      <4>1. req[r].st \in Hopping /\ req[r].pipe \in Layouts
        BY <1>0, <2>4 DEF Hopping, Requests
      <4>2. m \in Nodes /\ req[r].pipe[m] # NoRange /\ req[r].pipe[m][1] = req[r].x.at /\ Tiles(req[r].pipe)
        BY <1>0, <3>1, <4>1, OnHop
      <4>3. req[r].pipe[n] # NoRange
        BY <1>0 DEF EpochInv, EpochOf, Fits, Members
      <4>4. req[r].pipe[m][1] < req[r].pipe[m][2]
        BY <4>1, <4>2 DEF Layouts, Ranges
      <4> QED BY <1>0, <1>1, <4>1, <4>2, <4>3, <4>4, HopsApart
    <3> QED BY <2>1, <2>2, <2>4, <3>2 DEF CacheAt, Hopping
  <2> QED BY <2>1, <2>3, <2>4, <2>5 DEF CacheAt, Hopping, Pends
<1>8. CASE Rests(r) /\ Flows(r) /\ ~Forward(n)
  <2>1. req'[r] = req[r] /\ fut'[r] \in {fut[r], "failed"} /\ cache'[n][r] = cache[n][r]
    BY <1>2, <1>8 DEF Rests
  <2>2. AtNode(n, r)' => AtNode(n, r)
    BY <1>0, <1>8 DEF Flows
  <2>3. ASSUME NEW c \in Conns, NEW i \in DOMAIN toHub'[n][c], Carries(toHub'[n][c][i], r)
        PROVE  \E j \in DOMAIN toHub[n][c] : toHub[n][c][j] = toHub'[n][c][i]
    BY <1>0, <1>8, <2>3 DEF Flows, Made
  <2>4. Pends(req'[r], fut'[r]) => Pends(req[r], fut[r])
    BY <2>1 DEF Pends
  <2> QED BY <2>1, <2>2, <2>3, <2>4 DEF CacheAt, Pends, Hopping
<1>9. CASE Rests(r) /\ Flows(r) /\ Forward(n)
  <2>1. req'[r] = req[r] /\ fut'[r] \in {fut[r], "failed"}
    BY <1>9 DEF Rests
  <2>2. CASE ~(toNode[n] # <<>> /\ Carries(Head(toNode[n]), r))
    <3>1. cache'[n][r] = cache[n][r]
      BY <1>2, <2>2
    <3>2. AtNode(n, r)' => AtNode(n, r)
      BY <1>0, <1>9 DEF Flows
    <3>3. ASSUME NEW c \in Conns, NEW i \in DOMAIN toHub'[n][c], Carries(toHub'[n][c][i], r)
          PROVE  \E j \in DOMAIN toHub[n][c] : toHub[n][c][j] = toHub'[n][c][i]
      BY <1>0, <1>9, <2>2, <3>3 DEF Flows, Made
    <3>4. Pends(req'[r], fut'[r]) => Pends(req[r], fut[r])
      BY <2>1 DEF Pends
    <3> QED BY <2>1, <3>1, <3>2, <3>3, <3>4 DEF CacheAt, Pends, Hopping
  <2>3. CASE toNode[n] # <<>> /\ Carries(Head(toNode[n]), r)
    <3>1. AtNode(n, r)
      <4>1. toNode[n] \in Seq(ToNodeFrames)
        BY <1>0, Typed
      <4> QED BY <2>3, <4>1, TailHas DEF AtNode
    <3>2. ~Idles(req[r], fut[r])
      BY <1>0, <3>1, NowhereNoSites DEF ServingInv, Copies
    <3>3. req[r].st # "between" /\ ~(req[r].st = "pacing" /\ fut[r] = "open") /\ fut[r] # "ok"
      <4>1. Sound(req[r], fut[r])
        BY <1>0 DEF ServingInv, RequestsSound
      <4>2. fut[r] = "ok" => req[r].st \in {"waiting", "queued"}
        BY <4>1 DEF Sound, Hopping
      <4> QED BY <3>2, <4>2 DEF Idles
    <3>4. CASE fut'[r] = "open" /\ req[r].st \in Hopping
      <4>1. fut[r] = "open" /\ Pends(req[r], fut[r]) /\ Pends(req'[r], fut'[r])
        BY <2>1, <3>3, <3>4 DEF Pends, Hopping
      <4>2. n = Owner(req[r]) /\ h = req[r].x.at
        BY <1>0, <3>1, <3>4, <4>1, OnHop DEF PlaceInv, PlaceOf
      <4>3. cache[n][r] = p
        BY <3>1, <3>4, <4>1, <4>2 DEF CacheAt
      <4>4. AtHub(n, r)'
        BY <1>0, <1>9, <2>3, ForwardAnswers
      <4>5. ~AtNode(n, r)'
        <5>1. Unique(r)'
          BY <4>1 DEF ServingInv, Copies
        <5> QED BY <1>0, <4>4, <5>1, OneSideOnly
      <4>6. ASSUME NEW c \in Conns, NEW i \in DOMAIN toHub'[n][c],
                   Carries(toHub'[n][c][i], r), toHub'[n][c][i].ok
            PROVE  cache'[n][r] = p + 1
        <5>1. CASE Made(n, r, toHub'[n][c][i])
          BY <4>3, <4>6, <5>1 DEF Made
        <5>2. CASE \E j \in DOMAIN toHub[n][c] : toHub[n][c][j] = toHub'[n][c][i]
          <6>1. AtHub(n, r)
            BY <4>6, <5>2 DEF AtHub, Has
          <6>2. Unique(r)
            BY <1>0, <4>1 DEF ServingInv, Copies
          <6>3. PICK d \in Conns : Has(toHub[n][d], r)
            BY <6>1 DEF AtHub
          <6>4. <<"hub", n, d>> \in Sites(r)
            BY <1>0, <6>3 DEF Sites, Places
          <6>5. \E k \in {"node", "queue", "run"} : <<k, n, 1>> \in Sites(r)
            BY <1>0, <3>1 DEF AtNode, Sites, Places
          <6> QED BY <6>2, <6>4, <6>5 DEF Unique
        <5> QED BY <1>0, <1>9, <4>6, <5>1, <5>2 DEF Flows
      <4> QED BY <1>1, <2>1, <3>3, <3>4, <4>1, <4>2, <4>5, <4>6 DEF CacheAt, Pends, Hopping
    <3> QED BY <2>1, <3>3, <3>4 DEF CacheAt, Pends, Hopping
  <2> QED BY <2>2, <2>3
<1> QED BY <1>3, <1>4, <1>5, <1>6, <1>7, <1>8, <1>9 DEF Changes

\* So every member has its passes.
LEMMA StepCaches ==
  ASSUME CachesInv, PassesInv', MaxConn = 1, [ServingNext]_allVars, NEW r \in Reqs
  PROVE  CacheOf(r)'
<1> SUFFICES ASSUME Fits(r)', NEW n \in Members(committed)', up'[n] PROVE CacheAt(r, n)'
  BY DEF CacheOf
<1>0. /\ RoutedInv /\ RoutedInv' /\ LinkInv /\ EpochInv /\ FixedInv /\ ServingInv /\ ServingInv'
      /\ n \in Nodes
  BY DEF CachesInv, PassesInv, RoutedInv, Members
<1>1. /\ Fits(r) \/ \E q : Goes(r, q) /\ Admitted(r, q)
      /\ committed' = committed
  BY <1>0, FitsOn
<1>2. n \in Members(committed)
  BY <1>1 DEF Members
<1>3. Fits(r) => up[n] /\ shard'[n] = shard[n]
  BY <1>0, <1>2, StepFixed
<1>4. Fits(r) => CacheAt(r, n)
  BY <1>2, <1>3 DEF CachesInv, WholeInv, CacheOf
<1>5. CASE \E q : Goes(r, q) /\ (Fits(r) \/ Admitted(r, q))
  BY <1>2, <1>4, <1>5, HandedCaches
<1>6. CASE Fits(r) /\ ~\E q : Goes(r, q)
  BY <1>0, <1>2, <1>3, <1>4, <1>6, KeptCaches
<1> QED BY <1>1, <1>5, <1>6

\* What the node makes of the activation met them all.
LEMMA MadeWhole ==
  ASSUME CachesInv, NEW r \in Reqs, Fits(r), Pends(req[r], fut[r]), NEW n \in Nodes, NEW g,
         Made(n, r, g), g.ok
  PROVE  g.x[r].whole
<1>0. /\ RoutedInv /\ EpochInv /\ SteadyInv /\ PlaceInv /\ PassInv /\ ServingInv /\ TypeInv
      /\ RouteInv /\ toNode[n] \in Seq(ToNodeFrames)
  BY Typed DEF CachesInv, PassesInv, RoutedInv, ServingInv
<1>1. /\ toNode[n] # <<>> /\ Carries(Head(toNode[n]), r)
      /\ n = Owner(req[r]) /\ g.x[r].whole = (req[r].x.whole /\ cache[n][r] = req[r].x.pass)
  BY <1>0, MadeRight DEF Made
<1>2. up[n]
  BY <1>0, <1>1, WorkersAreUp DEF RouteInv, RouteOf
<1>3. AtNode(n, r)
  BY <1>0, <1>1, TailHas DEF AtNode
<1>4. req[r].st \in Hopping /\ fut[r] = "open"
  BY DEF Pends, Hopping
<1>5. req[r].pipe[n] # NoRange /\ req[r].pipe[n][1] = req[r].x.at /\ req[r].pipe = committed
  BY <1>0, <1>1, <1>4, OnHop DEF EpochInv, EpochOf, Fits
<1>6. CacheAt(r, n)
  BY <1>2, <1>5 DEF CachesInv, WholeInv, CacheOf, Members
<1>7. cache[n][r] = req[r].x.pass
  BY <1>3, <1>4, <1>5, <1>6 DEF CacheAt
<1>8. req[r].x.whole
  BY <1>4 DEF CachesInv, WholeInv, WholeOf
<1> QED BY <1>1, <1>7, <1>8

\* Every activation meets them.
LEMMA StepWhole ==
  ASSUME CachesInv, [ServingNext]_allVars, NEW r \in Reqs
  PROVE  WholeOf(r)'
<1> SUFFICES ASSUME Fits(r)' PROVE WholeOf(r)'
  BY DEF WholeOf
<1>0. ServingInv /\ RoutedInv /\ EpochInv /\ req[r] \in Requests
  BY Typed DEF CachesInv, PassesInv, RoutedInv
<1>1. Fits(r) \/ \E q : Goes(r, q) /\ Admitted(r, q)
  BY <1>0, FitsOn
<1>2. Fits(r) => WholeOf(r)
  BY DEF CachesInv, WholeInv
<1>3. ASSUME NEW q, Goes(r, q)
      PROVE  WholeOf(r)'
  <2>1. q.x.whole
    <3>1. CASE Admitted(r, q)
      BY <3>1 DEF Admitted, FirstAct
    <3>2. CASE Starts(r, q)
      <4>1. Fits(r) /\ req[r].st = "between"
        BY <1>1, <3>2 DEF Starts, Fits, Running
      <4>2. req[r].x.whole
        BY <1>2, <4>1 DEF WholeOf
      <4> QED BY <1>0, <3>2, <4>2 DEF Starts, Requests, Acts
    <3>3. CASE Proceeds(r, q)
      <4>1. Fits(r)
        BY <1>1, <3>3 DEF Goes, Proceeds, Admitted
      <4>2. req[r].x.whole
        BY <1>2, <3>3, <4>1 DEF Proceeds, WholeOf, Hopping
      <4> QED BY <1>0, <3>3, <4>2 DEF Proceeds, Requests, Acts
    <3> QED BY <1>3, <3>1, <3>2, <3>3 DEF Goes
  <2>2. /\ Sites(r) = {} /\ fut'[r] = "open" /\ req'[r].st \in Hopping /\ req'[r].x = q.x
    BY <1>0, <1>3, GoesOn
  <2>3. \A m \in Nodes : ~AtHub(m, r)'
    BY <1>0, <1>3, <2>2, HandedOn
  <2> QED BY <2>1, <2>2, <2>3 DEF WholeOf, AtHub, Has, Hopping
<1>4. CASE Paced(r)
  <2>1. Fits(r) /\ req[r].st \in Hopping
    BY <1>1, <1>4 DEF Paced, Hopping, Admitted
  <2>2. /\ fut[r] = "open" => Sites(r) = {}
        /\ fut'[r] = fut[r] /\ fut[r] # "ok" /\ req'[r].st = "waiting"
        /\ req'[r].x = req[r].x
    BY <1>0, <1>4, PacedOn
  <2>3. fut[r] = "open" => \A m \in Nodes : ~AtHub(m, r)'
    BY <1>0, <1>4, <2>2, HandedOn
  <2>4. fut[r] = "open" => req[r].x.whole
    BY <1>2, <2>1 DEF WholeOf
  <2> QED BY <2>2, <2>3, <2>4 DEF WholeOf, AtHub, Has, Pends
<1>5. CASE Fits(r) /\ Passes(r)
  <2>1. req[r].st \in Hopping /\ fut[r] = "ok"
    BY <1>5 DEF Passes, Hopping
  <2>2. req[r].x.whole
    BY <1>2, <1>5, <2>1 DEF WholeOf
  <2>3. req'[r].st = "between" /\ req'[r].x.whole = req[r].x.whole
    <3>1. req'[r] = Over(req[r], HopEnd(r))
      BY <1>5 DEF Passes, HopEnd, Over
    <3> QED BY <1>0, <3>1, PassOver
  <2> QED BY <2>2, <2>3 DEF WholeOf, Hopping, Pends
<1>6. CASE Fits(r) /\ Answered(r)
  <2>1. PICK n \in Nodes, c \in Conns :
          LET f == Head(toHub[n][c]) IN
            /\ toHub[n][c] # <<>> /\ f.ok
            /\ Carries(f, r) /\ Pends(req[r], fut[r])
            /\ req'[r] = [req[r] EXCEPT !.x = f.x[r]] /\ fut'[r] = "ok"
    BY <1>6 DEF Answered
  <2> DEFINE f == Head(toHub[n][c])
  <2>2. 1 \in DOMAIN toHub[n][c] /\ f = toHub[n][c][1]
    <3>1. toHub[n][c] \in Seq(ToHubFrames)
      BY <1>0, Typed
    <3> QED BY <2>1, <3>1, Shifted
  <2>3. f.x[r].whole
    BY <1>2, <1>6, <2>1, <2>2 DEF WholeOf
  <2>4. /\ req'[r].x = f.x[r] /\ req'[r].st = req[r].st /\ fut'[r] = "ok"
    BY <1>0, <2>1 DEF Requests
  <2>5. req[r].st # "between"
    BY <2>1 DEF Pends
  <2> HIDE DEF f
  <2> QED BY <2>3, <2>4, <2>5 DEF WholeOf, Pends
<1>7. CASE Fits(r) /\ Rests(r) /\ Flows(r)
  <2>1. req'[r] = req[r] /\ fut'[r] \in {fut[r], "failed"} /\ WholeOf(r)
    BY <1>2, <1>7 DEF Rests
  <2>2. ASSUME Pends(req'[r], fut'[r]), NEW n \in Nodes, NEW c \in Conns,
               NEW i \in DOMAIN toHub'[n][c], Carries(toHub'[n][c][i], r), toHub'[n][c][i].ok
        PROVE  toHub'[n][c][i].x[r].whole
    <3> DEFINE g == toHub'[n][c][i]
    <3>1. Pends(req[r], fut[r])
      BY <2>1, <2>2 DEF Pends
    <3>2. Made(n, r, g) \/ \E j \in DOMAIN toHub[n][c] : toHub[n][c][j] = g
      BY <1>7, <2>2 DEF Flows
    <3>3. CASE Made(n, r, g)
      BY <1>7, <2>2, <3>1, <3>3, MadeWhole
    <3>4. CASE \E j \in DOMAIN toHub[n][c] : toHub[n][c][j] = g
      BY <1>7, <2>1, <2>2, <3>1, <3>4 DEF WholeOf
    <3> QED BY <3>2, <3>3, <3>4
  <2>3. Fits(r)
    BY <1>7
  <2> QED BY <2>1, <2>2, <2>3 DEF WholeOf
<1>8. ~Gone(r)
  BY DEF Gone, Fits
<1>9. Fits(r) \/ \E q : Goes(r, q)
  BY <1>1
<1>10. Changes(r)
  BY <1>0, StepChanges
<1>11. Flows(r) \/ Paced(r) \/ \E q : Goes(r, q)
  BY <1>0, StepFlows
<1> QED BY <1>3, <1>4, <1>5, <1>6, <1>7, <1>8, <1>9, <1>10, <1>11 DEF Changes

\* No request has begun at first.
LEMMA InitCaches == Init /\ ServingInit => FixedInv /\ ResetsOver /\ Unmet /\ WholeInv
<1> SUFFICES ASSUME Init, ServingInit PROVE FixedInv /\ ResetsOver /\ Unmet /\ WholeInv
  OBVIOUS
<1>1. \A r \in Reqs : ~Fits(r)
  BY DEF ServingInit, Fits, Running
<1>2. ResetsOver
  BY DEF Init, ResetsOver
<1>3. Unmet
  BY DEF ServingInit, Unmet, EmptyCache
<1> QED BY <1>1, <1>2, <1>3 DEF FixedInv, FixedFor, WholeInv, CacheOf, WholeOf

\* Every step keeps what passes and caches rest on.
LEMMA StepWholeCaches ==
  CachesInv /\ Prompt /\ MaxConn = 1 /\ [ServingNext]_allVars => CachesInv'
<1> SUFFICES ASSUME CachesInv, Prompt, MaxConn = 1, [ServingNext]_allVars PROVE CachesInv'
  OBVIOUS
<1>1. PassesInv'
  BY StepPasses DEF CachesInv
<1>2. RoutedInv /\ RoutedInv' /\ LinkInv /\ EpochInv /\ FixedInv /\ ServingInv /\ ServingInv'
  BY <1>1 DEF CachesInv, PassesInv, RoutedInv
<1>3. FixedInv'
  <2> SUFFICES ASSUME NEW n \in Nodes, NEW r \in Reqs, n \in Members(committed)', Fits(r)'
               PROVE  Fixed(n)'
    BY DEF FixedInv, FixedFor
  <2>1. committed' = committed
    BY <1>2, FitsOn
  <2>2. n \in Members(committed)
    BY <2>1 DEF Members
  <2> QED BY <1>2, <2>2, StepFixed
<1>4. ResetsOver' /\ Unmet'
  BY <1>2, StepUnmet DEF CachesInv
<1>5. WholeInv'
  BY <1>1, StepCaches, StepWhole DEF WholeInv
<1> QED BY <1>1, <1>3, <1>4, <1>5 DEF CachesInv

\* A request whose generation is still the cluster's found all its earlier passes
\* in the KV cache of every node it went through (forward and reset in node.py,
\* _broadcast_reset in hub.py), whatever cancellations and timeouts of other
\* requests, moved neighbours and members that leave crossed it; while no node
\* reconnects, and for switches whose answers come in time.
THEOREM PassesFindTheirCaches ==
  ASSUME MaxConn = 1, ~Linger, ~RejoinMidSwitch, ~LateAnswers
  PROVE  ServingSpec => []SameGenerationWholeCaches
<1>1. Init /\ ServingInit => CachesInv
  BY InitRouted, InitEpoch, InitSteady, InitPass, InitCaches DEF CachesInv, PassesInv
<1>2. CachesInv /\ [ServingNext]_allVars => CachesInv'
  BY StepWholeCaches DEF Prompt
<1>3. CachesInv => SameGenerationWholeCaches
  <2> SUFFICES ASSUME CachesInv, NEW r \in Running, Finished(r), req[r].gen = gen
               PROVE  req[r].x.whole
    BY DEF SameGenerationWholeCaches
  <2>1. r \in Reqs /\ req[r].st = "between"
    BY DEF Running, Finished
  <2> QED BY <2>1 DEF CachesInv, WholeInv, WholeOf, Fits
<1> QED BY <1>1, <1>2, <1>3, PTL DEF ServingSpec
=============================================================================

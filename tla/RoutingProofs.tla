---------------------------- MODULE RoutingProofs ----------------------------
(***************************************************************************)
(* What the hub believes of a node it routes to.                           *)
(*                                                                         *)
(* Assigns go to a node, wait in its tasks, and come back as answers: one  *)
(* FIFO chain per connection, toNode, tasks, toHub, from newest to oldest. *)
(* The invariants say which answer of the chain will be believed last, and *)
(* that it names the range the node then holds.                            *)
(***************************************************************************)
EXTENDS RebalanceProofs

Asg == {"assign"}
Ans == {"ready", "error"}

\* q has no frame of the kinds K.
Free(q, K) == \A i \in DOMAIN q : q[i].t \notin K

\* The last frame of the kinds K in q, if there is one, is in V.
EndsIn(q, K, V) ==
  \A i \in DOMAIN q :
    q[i].t \in K /\ (\A j \in DOMAIN q : j > i => q[j].t \notin K) => q[i] \in V

\* All frames of the kinds K in q but the last are in V.
AllBut(q, K, V) ==
  \A i \in DOMAIN q :
    q[i].t \in K /\ (\E j \in DOMAIN q : j > i /\ q[j].t \in K) => q[i] \in V

\* All frames of the kinds K in q are in V.
AllIn(q, K, V) == \A i \in DOMAIN q : q[i].t \in K => q[i] \in V

-----------------------------------------------------------------------------
(***************************************************************************)
(* Queues that grow at the end and shrink at the head.                     *)
(***************************************************************************)

\* What is in an appended queue.
LEMMA Appended ==
  ASSUME NEW S, NEW q \in Seq(S), NEW x \in S
  PROVE  /\ Len(Append(q, x)) = Len(q) + 1
         /\ DOMAIN Append(q, x) = 1 .. Len(q) + 1
         /\ \A i \in DOMAIN q : Append(q, x)[i] = q[i]
         /\ Append(q, x)[Len(q) + 1] = x
         /\ DOMAIN q = 1 .. Len(q) /\ Len(q) \in Nat
OBVIOUS

\* What is in a queue without its head.
LEMMA Shifted ==
  ASSUME NEW S, NEW q \in Seq(S), q # <<>>
  PROVE  /\ Tail(q) \in Seq(S)
         /\ DOMAIN Tail(q) = 1 .. Len(q) - 1
         /\ \A i \in DOMAIN Tail(q) : Tail(q)[i] = q[i + 1]
         /\ Head(q) = q[1]
         /\ DOMAIN q = 1 .. Len(q) /\ Len(q) \in Nat \ {0}
OBVIOUS

\* Of one frame nothing is left once it is taken.
LEMMA OneTaken ==
  ASSUME NEW S, NEW q \in Seq(S), Len(q) = 1
  PROVE  Tail(q) = <<>>
<1>1. q # <<>>
  BY EmptySeq
<1>2. Tail(q) \in Seq(S) /\ Len(Tail(q)) = 0
  BY <1>1, HeadTailProperties
<1> QED BY <1>2, EmptySeq

\* An empty queue holds nothing.
LEMMA EmptyQueue ==
  ASSUME NEW K, NEW V
  PROVE  /\ Free(<<>>, K) /\ EndsIn(<<>>, K, V)
         /\ AllBut(<<>>, K, V) /\ AllIn(<<>>, K, V)
BY DEF Free, EndsIn, AllBut, AllIn

\* A queue that holds none satisfies what is said of them.
LEMMA FreeQueue ==
  ASSUME NEW q, NEW K, NEW V, Free(q, K)
  PROVE  EndsIn(q, K, V) /\ AllBut(q, K, V) /\ AllIn(q, K, V)
BY DEF Free, EndsIn, AllBut, AllIn

\* A frame of another kind at the end changes nothing.
LEMMA AppendOther ==
  ASSUME NEW S, NEW q \in Seq(S), NEW x \in S, NEW K, NEW V, x.t \notin K
  PROVE  /\ Free(q, K) <=> Free(Append(q, x), K)
         /\ EndsIn(q, K, V) => EndsIn(Append(q, x), K, V)
         /\ AllBut(q, K, V) => AllBut(Append(q, x), K, V)
         /\ AllIn(q, K, V) => AllIn(Append(q, x), K, V)
<1> DEFINE p == Append(q, x)
<1>0. /\ DOMAIN p = 1 .. Len(q) + 1 /\ \A i \in DOMAIN q : p[i] = q[i]
      /\ p[Len(q) + 1] = x /\ DOMAIN q = 1 .. Len(q) /\ Len(q) \in Nat
  BY Appended
<1> HIDE DEF p
<1>1. \A i \in DOMAIN p : i \in DOMAIN q \/ p[i].t \notin K
  BY <1>0
<1>2. DOMAIN q \subseteq DOMAIN p
  BY <1>0
<1>3. Free(q, K) <=> Free(p, K)
  BY <1>0, <1>1, <1>2 DEF Free
<1>4. EndsIn(q, K, V) => EndsIn(p, K, V)
  BY <1>0, <1>1, <1>2 DEF EndsIn
<1>5. AllBut(q, K, V) => AllBut(p, K, V)
  BY <1>0, <1>1, <1>2 DEF AllBut
<1>6. AllIn(q, K, V) => AllIn(p, K, V)
  BY <1>0, <1>1, <1>2 DEF AllIn
<1> QED BY <1>3, <1>4, <1>5, <1>6 DEF p

\* A frame of the kinds K at the end is the last of them.
LEMMA AppendLast ==
  ASSUME NEW S, NEW q \in Seq(S), NEW x \in S, NEW K, NEW V, x.t \in K
  PROVE  /\ ~Free(Append(q, x), K)
         /\ x \in V => EndsIn(Append(q, x), K, V)
         /\ AllIn(q, K, V) => AllBut(Append(q, x), K, V)
         /\ AllIn(q, K, V) /\ x \in V => AllIn(Append(q, x), K, V)
<1> DEFINE p == Append(q, x)
<1>0. /\ DOMAIN p = 1 .. Len(q) + 1 /\ \A i \in DOMAIN q : p[i] = q[i]
      /\ p[Len(q) + 1] = x /\ DOMAIN q = 1 .. Len(q) /\ Len(q) \in Nat
  BY Appended
<1> HIDE DEF p
<1>1. \A i \in DOMAIN p : i \in DOMAIN q \/ i = Len(q) + 1
  BY <1>0
<1>2. Len(q) + 1 \in DOMAIN p /\ \A i \in DOMAIN q : Len(q) + 1 > i
  BY <1>0
<1>3. ~Free(p, K)
  BY <1>0, <1>2 DEF Free
<1>4. x \in V => EndsIn(p, K, V)
  BY <1>0, <1>1, <1>2 DEF EndsIn
<1>5. AllIn(q, K, V) => AllBut(p, K, V)
  <2> SUFFICES ASSUME AllIn(q, K, V), NEW i \in DOMAIN p, p[i].t \in K,
                      NEW j \in DOMAIN p, j > i
               PROVE  p[i] \in V
    BY DEF AllBut
  <2>1. i \in DOMAIN q
    BY <1>0
  <2> QED BY <1>0, <2>1 DEF AllIn
<1>6. AllIn(q, K, V) /\ x \in V => AllIn(p, K, V)
  BY <1>0, <1>1 DEF AllIn
<1> QED BY <1>3, <1>4, <1>5, <1>6 DEF p

\* Without its head a queue satisfies what it did, and the head is the last of
\* its kind if no other follows.
LEMMA TakeHead ==
  ASSUME NEW S, NEW q \in Seq(S), q # <<>>, NEW K, NEW V
  PROVE  /\ Free(q, K) <=> Free(Tail(q), K) /\ Head(q).t \notin K
         /\ EndsIn(q, K, V) => EndsIn(Tail(q), K, V)
         /\ AllBut(q, K, V) => AllBut(Tail(q), K, V)
         /\ AllIn(q, K, V) => AllIn(Tail(q), K, V)
         /\ EndsIn(q, K, V) /\ Free(Tail(q), K) /\ Head(q).t \in K => Head(q) \in V
         /\ AllBut(q, K, V) /\ Head(q).t \in K => Head(q) \in V \/ Free(Tail(q), K)
         /\ AllIn(q, K, V) /\ Head(q).t \in K => Head(q) \in V
<1> DEFINE p == Tail(q)
<1>0. /\ DOMAIN p = 1 .. Len(q) - 1 /\ \A i \in DOMAIN p : p[i] = q[i + 1]
      /\ Head(q) = q[1] /\ DOMAIN q = 1 .. Len(q) /\ Len(q) \in Nat \ {0}
  BY Shifted
<1> HIDE DEF p
<1>1. /\ 1 \in DOMAIN q
      /\ \A i \in DOMAIN p : i + 1 \in DOMAIN q /\ i + 1 > 1
      /\ \A i \in DOMAIN q : i = 1 \/ (i - 1 \in DOMAIN p /\ p[i - 1] = q[i])
  BY <1>0
<1>2. \A i \in DOMAIN p : \A j \in DOMAIN q :
         j > i + 1 => j - 1 \in DOMAIN p /\ j - 1 > i /\ p[j - 1] = q[j]
  BY <1>0
<1>3. \A i, j \in DOMAIN p : j > i => j + 1 > i + 1
  BY <1>0
<1>4. Free(q, K) <=> Free(p, K) /\ Head(q).t \notin K
  BY <1>0, <1>1 DEF Free
<1>5. EndsIn(q, K, V) => EndsIn(p, K, V)
  <2> SUFFICES ASSUME EndsIn(q, K, V), NEW i \in DOMAIN p, p[i].t \in K,
                      \A j \in DOMAIN p : j > i => p[j].t \notin K
               PROVE  p[i] \in V
    BY DEF EndsIn
  <2>1. \A j \in DOMAIN q : j > i + 1 => q[j].t \notin K
    BY <1>2
  <2> QED BY <1>0, <1>1, <2>1 DEF EndsIn
<1>6. AllBut(q, K, V) => AllBut(p, K, V)
  <2> SUFFICES ASSUME AllBut(q, K, V), NEW i \in DOMAIN p, p[i].t \in K,
                      NEW j \in DOMAIN p, j > i, p[j].t \in K
               PROVE  p[i] \in V
    BY DEF AllBut
  <2> QED BY <1>0, <1>1, <1>3 DEF AllBut
<1>7. AllIn(q, K, V) => AllIn(p, K, V)
  BY <1>0, <1>1 DEF AllIn
<1>8. EndsIn(q, K, V) /\ Free(p, K) /\ Head(q).t \in K => Head(q) \in V
  <2> SUFFICES ASSUME EndsIn(q, K, V), Free(p, K), q[1].t \in K
               PROVE  q[1] \in V
    BY <1>0
  <2>1. \A j \in DOMAIN q : j > 1 => q[j].t \notin K
    BY <1>1 DEF Free
  <2> QED BY <1>1, <2>1 DEF EndsIn
<1>9. AllBut(q, K, V) /\ Head(q).t \in K => Head(q) \in V \/ Free(p, K)
  <2> SUFFICES ASSUME AllBut(q, K, V), q[1].t \in K, NEW i \in DOMAIN p, p[i].t \in K
               PROVE  q[1] \in V
    BY <1>0 DEF Free
  <2> QED BY <1>0, <1>1 DEF AllBut
<1>10. AllIn(q, K, V) /\ Head(q).t \in K => Head(q) \in V
  BY <1>0, <1>1 DEF AllIn
<1> QED BY <1>4, <1>5, <1>6, <1>7, <1>8, <1>9, <1>10 DEF p

\* All frames are known once the last one and the others are.
LEMMA LastAndOthers ==
  ASSUME NEW q, NEW K, NEW U, NEW V, EndsIn(q, K, U), AllBut(q, K, V)
  PROVE  AllIn(q, K, U \cup V)
BY DEF EndsIn, AllBut, AllIn

\* Less may be said of them.
LEMMA AllInLarger ==
  ASSUME NEW q, NEW K, NEW U, NEW V, U \subseteq V
  PROVE  /\ AllIn(q, K, U) => AllIn(q, K, V)
         /\ AllBut(q, K, U) => AllBut(q, K, V)
         /\ EndsIn(q, K, U) => EndsIn(q, K, V)
BY DEF AllIn, AllBut, EndsIn

-----------------------------------------------------------------------------
(***************************************************************************)
(* The chain of assigns and answers of one connection: the frames tn on    *)
(* their way to the node, its tasks tk, the frames w on their way back,    *)
(* with pg the generation of the last assign sent, sh the range the node   *)
(* holds, and what the hub believes: rd that it is ready, and of ly.       *)
(***************************************************************************)

OfGen(g)     == {f \in Tasks : f.gen = g}
Truths(g, r) == {f \in Answers : f.gen = g /\ (f.t = "error" \/ f.range = r)}

\* The newest assign of the chain carries pg, wherever it has got to; once it is
\* answered the answer carries pg too, and says what the node holds.
Chain(tn, tk, w, pg, sh, rd, ly) ==
  /\ EndsIn(tn, Asg, OfGen(pg))
  /\ Free(tn, Asg) => EndsIn(tk, Asg, OfGen(pg))
  /\ Free(tn, Asg) /\ Free(tk, Asg) => EndsIn(w, Ans, Truths(pg, sh))
  /\ Free(tn, Asg) /\ Free(tk, Asg) /\ Free(w, Ans) /\ rd => ly = sh

\* A task among the frames to a node is a task.
LEMMA TaskFrames ==
  ASSUME NEW f \in ToNodeFrames, f.t \in TaskKinds
  PROVE  f \in Tasks
BY OtherFramesAssumption DEF ToNodeFrames

\* An answer among the frames to the hub is an answer.
LEMMA AnswerFrames ==
  ASSUME NEW f \in ToHubFrames, f.t \in AnswerKinds
  PROVE  f \in Answers
BY OtherFramesAssumption DEF ToHubFrames

\* A new connection starts with an empty chain.
LEMMA ChainEmpty ==
  ASSUME NEW pg, NEW sh, NEW ly
  PROVE  Chain(<<>>, <<>>, <<>>, pg, sh, FALSE, ly)
BY EmptyQueue DEF Chain

\* The message loop takes a frame.
LEMMA ChainReceive ==
  ASSUME NEW tn \in Seq(ToNodeFrames), NEW tk \in Seq(Tasks), NEW w, NEW pg,
         NEW sh, NEW rd, NEW ly, Chain(tn, tk, w, pg, sh, rd, ly),
         tn # <<>>, Head(tn) \in Tasks
  PROVE  Chain(Tail(tn), Append(tk, Head(tn)), w, pg, sh, rd, ly)
<1> DEFINE f == Head(tn)
<1>1. /\ Free(tn, Asg) <=> Free(Tail(tn), Asg) /\ f.t \notin Asg
      /\ EndsIn(Tail(tn), Asg, OfGen(pg))
      /\ Free(Tail(tn), Asg) /\ f.t \in Asg => f \in OfGen(pg)
  BY TakeHead DEF Chain
<1>2. CASE f.t \in Asg
  BY <1>1, <1>2, AppendLast DEF Chain
<1>3. CASE f.t \notin Asg
  BY <1>1, <1>3, AppendOther DEF Chain
<1> QED BY <1>2, <1>3

\* A task that is no assign ends with a frame that is no answer to one.
LEMMA ChainOtherTask ==
  ASSUME NEW tn, NEW tk \in Seq(Tasks), NEW w \in Seq(ToHubFrames), NEW pg,
         NEW sh, NEW rd, NEW ly, Chain(tn, tk, w, pg, sh, rd, ly),
         tk # <<>>, Head(tk).t \notin Asg, NEW f \in ToHubFrames, f.t \notin Ans
  PROVE  Chain(tn, Tail(tk), Append(w, f), pg, sh, rd, ly)
<1>1. /\ Free(tk, Asg) <=> Free(Tail(tk), Asg)
      /\ EndsIn(tk, Asg, OfGen(pg)) => EndsIn(Tail(tk), Asg, OfGen(pg))
  BY TakeHead
<1>2. /\ Free(w, Ans) <=> Free(Append(w, f), Ans)
      /\ EndsIn(w, Ans, Truths(pg, sh)) => EndsIn(Append(w, f), Ans, Truths(pg, sh))
  BY AppendOther
<1> QED BY <1>1, <1>2 DEF Chain

\* An assign is answered: with an error, or with the range then held.
LEMMA ChainAnswer ==
  ASSUME NEW tn, NEW tk \in Seq(Tasks), NEW w \in Seq(ToHubFrames), NEW pg,
         NEW sh, NEW rd, NEW ly, Chain(tn, tk, w, pg, sh, rd, ly),
         tk # <<>>, Head(tk).t \in Asg, NEW f \in Answers, f.t \in Ans,
         f.gen = Head(tk).gen, NEW s, f.t = "error" \/ f.range = s
  PROVE  Chain(tn, Tail(tk), Append(w, f), pg, s, rd, ly)
<1>1. /\ EndsIn(tk, Asg, OfGen(pg)) => EndsIn(Tail(tk), Asg, OfGen(pg))
      /\ EndsIn(tk, Asg, OfGen(pg)) /\ Free(Tail(tk), Asg)
           => Head(tk) \in OfGen(pg)
  BY TakeHead
<1>2. f \in ToHubFrames
  BY DEF ToHubFrames
<1>3. ~Free(Append(w, f), Ans)
      /\ (f \in Truths(pg, s) => EndsIn(Append(w, f), Ans, Truths(pg, s)))
  BY <1>2, AppendLast
<1>4. Head(tk) \in OfGen(pg) => f \in Truths(pg, s)
  BY DEF OfGen, Truths
<1> QED BY <1>1, <1>3, <1>4 DEF Chain

\* A superseded assign is dropped.
LEMMA ChainSkip ==
  ASSUME NEW tn, NEW tk \in Seq(Tasks), NEW w, NEW pg,
         NEW sh, NEW rd, NEW ly, Chain(tn, tk, w, pg, sh, rd, ly),
         tk # <<>>, ~Free(Tail(tk), Asg)
  PROVE  Chain(tn, Tail(tk), w, pg, sh, rd, ly)
<1>1. EndsIn(tk, Asg, OfGen(pg)) => EndsIn(Tail(tk), Asg, OfGen(pg))
  BY TakeHead
<1> QED BY <1>1 DEF Chain

\* While an assign is under way the range held may change.
LEMMA ChainLoad ==
  ASSUME NEW tn, NEW tk, NEW w, NEW pg, NEW sh, NEW rd, NEW ly, NEW s,
         Chain(tn, tk, w, pg, sh, rd, ly), ~Free(tk, Asg)
  PROVE  Chain(tn, tk, w, pg, s, rd, ly)
BY DEF Chain

\* The hub takes a frame that is no answer to an assign.
LEMMA ChainHeardOther ==
  ASSUME NEW tn, NEW tk, NEW w \in Seq(ToHubFrames), NEW pg,
         NEW sh, NEW rd, NEW ly, Chain(tn, tk, w, pg, sh, rd, ly),
         w # <<>>, Head(w).t \notin Ans
  PROVE  Chain(tn, tk, Tail(w), pg, sh, rd, ly)
<1>1. /\ Free(w, Ans) <=> Free(Tail(w), Ans)
      /\ EndsIn(w, Ans, Truths(pg, sh)) => EndsIn(Tail(w), Ans, Truths(pg, sh))
  BY TakeHead
<1> QED BY <1>1 DEF Chain

\* The hub takes an answer: it forgets the range at an error, believes a ready
\* that carries pg, and may believe or ignore any other.
LEMMA ChainHeard ==
  ASSUME NEW tn, NEW tk, NEW w \in Seq(ToHubFrames), NEW pg,
         NEW sh, NEW rd, NEW ly, Chain(tn, tk, w, pg, sh, rd, ly),
         w # <<>>, Head(w).t \in Ans, NEW r, NEW l,
         Head(w).t = "error" => ~r,
         Head(w).t = "ready" /\ Head(w).gen = pg => l = Head(w).range
  PROVE  Chain(tn, tk, Tail(w), pg, sh, r, l)
<1>1. /\ EndsIn(w, Ans, Truths(pg, sh)) => EndsIn(Tail(w), Ans, Truths(pg, sh))
      /\ EndsIn(w, Ans, Truths(pg, sh)) /\ Free(Tail(w), Ans)
           => Head(w) \in Truths(pg, sh)
  BY TakeHead
<1>2. Head(w) \in Truths(pg, sh) /\ r => l = sh
  BY DEF Truths, Ans
<1> QED BY <1>1, <1>2 DEF Chain

\* The hub sends an assign, the newest of the chain from now on.
LEMMA ChainSend ==
  ASSUME NEW tn \in Seq(ToNodeFrames), NEW tk, NEW w, NEW pg, NEW sh, NEW rd, NEW ly,
         NEW f \in Tasks, f.t = "assign"
  PROVE  Chain(Append(tn, f), tk, w, f.gen, sh, rd, ly)
<1>1. f \in ToNodeFrames /\ f.t \in Asg /\ f \in OfGen(f.gen)
  BY DEF ToNodeFrames, Asg, OfGen
<1>2. ~Free(Append(tn, f), Asg) /\ EndsIn(Append(tn, f), Asg, OfGen(f.gen))
  BY <1>1, AppendLast
<1> QED BY <1>2 DEF Chain

\* The hub asks for a prefetch.
LEMMA ChainAsk ==
  ASSUME NEW tn \in Seq(ToNodeFrames), NEW tk, NEW w, NEW pg, NEW sh, NEW rd, NEW ly,
         Chain(tn, tk, w, pg, sh, rd, ly), NEW f \in ToNodeFrames, f.t \notin Asg
  PROVE  Chain(Append(tn, f), tk, w, pg, sh, rd, ly)
<1>1. /\ Free(tn, Asg) <=> Free(Append(tn, f), Asg)
      /\ EndsIn(tn, Asg, OfGen(pg)) => EndsIn(Append(tn, f), Asg, OfGen(pg))
  BY AppendOther
<1> QED BY <1>1 DEF Chain

-----------------------------------------------------------------------------
(***************************************************************************)
(* One node's sockets: w the connection its record is bound to, c and u    *)
(* the last one it opened and whether its end is open, th the frames on    *)
(* each, op the connections whose handler runs.                            *)
(***************************************************************************)

Hello == {"hello"}

\* Connections are opened in order; a node whose hello is unheard, or whose end
\* is closed, holds nothing and has been sent nothing; and once the hub listens
\* to the current connection the older ones are silent.
Socket(w, c, u, sh, tk, tn, th, op) ==
  /\ c \in 0 .. MaxConn /\ w \in 0 .. c /\ op \subseteq 1 .. c
  /\ w # 0 => w \in op
  /\ u => c # 0
  /\ \A d \in Conns : d > c => th[d] = <<>>
  /\ ~u => tk = <<>> /\ tn = <<>> /\ sh = NoRange
  /\ u /\ ~Free(th[c], Hello) =>
       /\ w # c /\ Len(th[c]) = 1
       /\ tk = <<>> /\ tn = <<>> /\ sh = NoRange
  /\ u /\ w = c => \A d \in Conns \ {c} : th[d] = <<>>

\* Nothing is connected.
LEMMA SocketNone ==
  ASSUME NEW th, \A d \in Conns : th[d] = <<>>
  PROVE  Socket(0, 0, FALSE, NoRange, <<>>, <<>>, th, {})
BY BoundsAssumption DEF Socket, Conns

\* A node that has work goes on with it, and may say something.
LEMMA SocketWork ==
  ASSUME NEW w, NEW c, NEW u, NEW sh, NEW tk, NEW tn, NEW th, NEW op,
         Socket(w, c, u, sh, tk, tn, th, op), tk # <<>> \/ tn # <<>>,
         NEW s, NEW k, NEW t, NEW h,
         \A d \in Conns : d # c => h[d] = th[d],
         c \in Conns /\ Free(th[c], Hello) => Free(h[c], Hello)
  PROVE  Socket(w, c, u, s, k, t, h, op)
BY DEF Socket, Conns

\* The hub, bound to the current connection, sends a frame.
LEMMA SocketSend ==
  ASSUME NEW w, NEW c, NEW sh, NEW tk, NEW tn, NEW th, NEW op,
         Socket(w, c, TRUE, sh, tk, tn, th, op), w = c, NEW t
  PROVE  Socket(w, c, TRUE, sh, tk, t, th, op)
BY DEF Socket

\* The hub reads a frame.
LEMMA SocketHeard ==
  ASSUME NEW w, NEW c, NEW u, NEW sh, NEW tk, NEW tn, NEW op,
         NEW th \in [Conns -> Seq(ToHubFrames)],
         Socket(w, c, u, sh, tk, tn, th, op), NEW e \in op, th[e] # <<>>
  PROVE  Socket(w, c, u, sh, tk, tn, [th EXCEPT ![e] = Tail(@)], op)
<1> DEFINE h == [th EXCEPT ![e] = Tail(@)]
<1>1. e \in Conns /\ e <= c
  <2>1. e \in 1 .. c /\ c \in 0 .. MaxConn
    BY DEF Socket
  <2> QED BY <2>1, BoundsAssumption DEF Conns
<1>2. h[e] = Tail(th[e]) /\ \A d \in Conns : d # e => h[d] = th[d]
  BY <1>1
<1>3. ~Free(h[c], Hello) /\ Len(th[c]) = 1 => c # e
  <2>1. CASE c = e
    <3>1. Free(th[c], Hello) => Free(h[c], Hello)
      BY <1>1, <1>2, <2>1, TakeHead
    <3>2. Len(th[c]) = 1 => h[c] = <<>>
      <4>1. th[c] \in Seq(ToHubFrames) /\ h[c] = Tail(th[c])
        BY <1>1, <1>2, <2>1
      <4> HIDE DEF h
      <4> QED BY <4>1, OneTaken
    <3> QED BY <3>1, <3>2, EmptyQueue
  <2> QED BY <2>1
<1>4. ~Free(h[c], Hello) => ~Free(th[c], Hello) \/ c \notin Conns
  BY <1>1, <1>2, TakeHead
<1> HIDE DEF h
<1>5. \A d \in Conns : th[d] = <<>> => h[d] = <<>>
  BY <1>2
<1>6. \A d \in Conns : d > c => h[d] = <<>>
  BY <1>5 DEF Socket
<1>7. u /\ w = c => \A d \in Conns \ {c} : h[d] = <<>>
  BY <1>5 DEF Socket
<1>8. u => c \in Conns
  BY DEF Socket, Conns
<1>9. u /\ ~Free(h[c], Hello) => c # e /\ ~Free(th[c], Hello) /\ h[c] = th[c]
  BY <1>2, <1>3, <1>4, <1>8 DEF Socket
<1> QED BY <1>6, <1>7, <1>9 DEF Socket, h

-----------------------------------------------------------------------------
(***************************************************************************)
(* The invariant, and what leaves it alone.                                *)
(***************************************************************************)

SocketOf(n) == Socket(ws[n], conn[n], up[n], shard[n], tasks[n], toNode[n],
                      toHub[n], open[n])
ChainOf(n)  == Chain(toNode[n], tasks[n], toHub[n][conn[n]], pendingGen[n],
                     shard[n], ready[n], layers[n])

\* The record of n is bound to the connection n is on.
Linked(n) == up[n] /\ ws[n] = conn[n]

RouteOf(n) == SocketOf(n) /\ (Linked(n) => ChainOf(n))
RouteInv   == \A n \in Nodes : RouteOf(n)

\* What RouteOf(n) reads, but for the beliefs, and the beliefs.
SocketsStay(n) ==
  /\ ws'[n] = ws[n] /\ conn'[n] = conn[n] /\ up'[n] = up[n]
  /\ shard'[n] = shard[n] /\ tasks'[n] = tasks[n] /\ toNode'[n] = toNode[n]
  /\ toHub'[n] = toHub[n] /\ open'[n] = open[n]
BeliefsStay(n) ==
  pendingGen'[n] = pendingGen[n] /\ ready'[n] = ready[n] /\ layers'[n] = layers[n]

Still(n) == SocketsStay(n) /\ BeliefsStay(n)

\* A node none of whose state changes.
LEMMA RouteStays ==
  ASSUME NEW n \in Nodes, RouteOf(n), Still(n)
  PROVE  RouteOf(n)'
BY DEF RouteOf, SocketOf, Linked, ChainOf, Still, SocketsStay, BeliefsStay

\* The types of what RouteOf(n) reads.
LEMMA RouteTypes ==
  ASSUME TypeInv, NEW n \in Nodes
  PROVE  /\ ws[n] \in 0 .. MaxConn /\ conn[n] \in 0 .. MaxConn
         /\ up[n] \in BOOLEAN /\ ready[n] \in BOOLEAN
         /\ tasks[n] \in Seq(Tasks) /\ toNode[n] \in Seq(ToNodeFrames)
         /\ toHub[n] \in [Conns -> Seq(ToHubFrames)] /\ open[n] \subseteq Conns
         /\ pendingGen[n] \in Nat
BY DEF TypeInv, TypeOK, RecordsTyped, NodesTyped, NetTyped

\* A node that is up is on one of its connections.
LEMMA OnAConnection ==
  ASSUME NEW n \in Nodes, SocketOf(n), up[n]
  PROVE  conn[n] \in Conns
BY DEF SocketOf, Socket, Conns

\* A node with work is up.
LEMMA WorkersAreUp ==
  ASSUME TypeInv, NEW n \in Nodes, SocketOf(n), tasks[n] # <<>> \/ toNode[n] # <<>>
  PROVE  up[n] /\ conn[n] \in Conns
<1>1. up[n]
  BY RouteTypes DEF SocketOf, Socket
<1> QED BY <1>1, OnAConnection

\* A node that speaks touches its own connection only.
LEMMA SaysToOne ==
  ASSUME TypeInv, NEW n \in Nodes, conn[n] \in Conns, NEW f, Says(n, f)
  PROVE  /\ toHub'[n] = [toHub[n] EXCEPT ![conn[n]] = Append(@, f)]
         /\ toHub'[n][conn[n]] = Append(toHub[n][conn[n]], f)
         /\ \A d \in Conns : d # conn[n] => toHub'[n][d] = toHub[n][d]
         /\ \A m \in Nodes : m # n => toHub'[m] = toHub[m]
<1>1. toHub \in [Nodes -> [Conns -> Seq(ToHubFrames)]]
  BY DEF TypeInv, TypeOK, NetTyped
<1>2. toHub'[n] = [toHub[n] EXCEPT ![conn[n]] = Append(toHub[n][conn[n]], f)]
  BY <1>1 DEF Says
<1>3. toHub[n] \in [Conns -> Seq(ToHubFrames)]
  BY <1>1
<1>4. /\ toHub'[n][conn[n]] = Append(toHub[n][conn[n]], f)
      /\ \A d \in Conns : d # conn[n] => toHub'[n][d] = toHub[n][d]
  BY <1>2, <1>3
<1>5. \A m \in Nodes : m # n => toHub'[m] = toHub[m]
  BY <1>1 DEF Says
<1> QED BY <1>2, <1>4, <1>5

\* A handler that reads a frame touches its own connection only.
LEMMA TakeFromOne ==
  ASSUME TypeInv, NEW n \in Nodes, NEW c \in Conns, Take(n, c)
  PROVE  /\ toHub'[n] = [toHub[n] EXCEPT ![c] = Tail(@)]
         /\ toHub'[n][c] = Tail(toHub[n][c])
         /\ \A d \in Conns : d # c => toHub'[n][d] = toHub[n][d]
         /\ \A m \in Nodes : m # n => toHub'[m] = toHub[m]
<1>1. toHub \in [Nodes -> [Conns -> Seq(ToHubFrames)]]
  BY DEF TypeInv, TypeOK, NetTyped
<1>2. toHub'[n] = [toHub[n] EXCEPT ![c] = Tail(toHub[n][c])]
  BY <1>1 DEF Take
<1>3. toHub[n] \in [Conns -> Seq(ToHubFrames)]
  BY <1>1
<1>4. /\ toHub'[n][c] = Tail(toHub[n][c])
      /\ \A d \in Conns : d # c => toHub'[n][d] = toHub[n][d]
  BY <1>2, <1>3
<1>5. \A m \in Nodes : m # n => toHub'[m] = toHub[m]
  BY <1>1 DEF Take
<1> QED BY <1>2, <1>4, <1>5

\* The first state.
LEMMA InitRoute == Init => RouteInv
<1> SUFFICES ASSUME Init, NEW n \in Nodes PROVE RouteOf(n)
  BY DEF RouteInv
<1>1. SocketOf(n)
  <2>1. /\ ws[n] = 0 /\ conn[n] = 0 /\ up[n] = FALSE /\ shard[n] = NoRange
        /\ tasks[n] = <<>> /\ toNode[n] = <<>> /\ open[n] = {}
        /\ \A d \in Conns : toHub[n][d] = <<>>
    BY DEF Init, NoLayout
  <2> QED BY <2>1, SocketNone DEF SocketOf
<1>2. ~Linked(n)
  BY DEF Init, Linked
<1> QED BY <1>1, <1>2 DEF RouteOf

-----------------------------------------------------------------------------
(***************************************************************************)
(* A step of one node, or of the hub about one node, leaves the others be. *)
(***************************************************************************)

\* The node of a task that ends: what it says goes on its own connection.
TaskDone(n) ==
  /\ tasks[n] # <<>>
  /\ tasks' = [tasks EXCEPT ![n] = Tail(@)]
  /\ \E r : shard' = [shard EXCEPT ![n] = r]
  /\ UNCHANGED <<recordVars, applyVars, conn, up, toNode, open>>
  /\ \E f \in ToHubFrames :
       /\ f.t \notin Hello /\ Says(n, f)
       /\ \/ Head(tasks[n]).t \notin Asg /\ f.t \notin Ans /\ shard'[n] = shard[n]
          \/ /\ Head(tasks[n]).t \in Asg /\ f.t \in Ans
             /\ f.gen = Head(tasks[n]).gen
             /\ f.t = "error" \/ f.range = shard'[n]

\* A frame the hub reads that is no hello, and what it then believes.
FrameHeard(n, c) ==
  /\ Take(n, c) /\ c \in open[n] /\ toHub[n][c] # <<>>
  /\ UNCHANGED <<ws, pendingGen, nodeVars, toNode, open, gen, phase, todo>>
  /\ \A m \in Nodes \ {n} : /\ ready'[m] = ready[m] /\ layers'[m] = layers[m]
                             /\ wait'[m] = wait[m]
  /\ \/ wait'[n] = wait[n] \/ phase \in Prefetching
     \/ Head(toHub[n][c]).t \in Ans /\ Head(toHub[n][c]).gen = gen
  /\ LET f == Head(toHub[n][c]) IN
       \/ f.t \notin Ans /\ ready'[n] = ready[n] /\ layers'[n] = layers[n]
       \/ /\ f.t \in Ans
          /\ f.t = "error" => ~ready'[n]
          /\ ready'[n] => ready[n] \/ f.gen \in {pendingGen[n], gen}
          /\ f.t = "ready" /\ f.gen = pendingGen[n] => layers'[n] = f.range

\* The shard is the same written out again.
LEMMA ShardKept ==
  ASSUME TypeInv, NEW n \in Nodes, UNCHANGED shard
  PROVE  shard' = [shard EXCEPT ![n] = shard[n]]
BY DEF TypeInv, TypeOK, NodesTyped

\* A load that ends, well or badly, one that was not needed and a prefetch are
\* tasks done.
LEMMA TasksDone ==
  ASSUME TypeInv, NEW n \in Nodes,
         KeepShard(n) \/ FinishLoad(n) \/ FailLoad(n) \/ Prefetch(n)
  PROVE  TaskDone(n)
<1> DEFINE a == Head(tasks[n])
<1>1. tasks[n] # <<>> => a \in Tasks
  BY RouteTypes
<1>2. \A t \in AnswerKinds : \A fs \in SUBSET LayerIds : a \in Tasks =>
        Frame(t, a.range, a.gen, fs) \in ToHubFrames
  BY FrameTyped DEF Tasks
<1>3. /\ busy[n] => tasks[n] # <<>> /\ a.t = "assign"
      /\ files[n] \in SUBSET LayerIds
  BY DEF TypeInv, TypeOK, NodesTyped, BusyHasAssign
<1>4. CASE KeepShard(n)
  <2> DEFINE f == Frame("ready", a.range, a.gen, files[n])
  <2>1. /\ tasks[n] # <<>> /\ a.t = "assign" /\ shard'[n] = a.range /\ Says(n, f)
        /\ tasks' = [tasks EXCEPT ![n] = Tail(@)] /\ UNCHANGED shard
        /\ UNCHANGED <<recordVars, applyVars, conn, up, toNode, open>>
    BY <1>4 DEF KeepShard, HeadIs
  <2>2. f \in ToHubFrames
    BY <1>1, <1>2, <1>3, <2>1 DEF AnswerKinds
  <2>3. f.t = "ready" /\ f.gen = a.gen /\ f.range = a.range
    BY DEF Frame
  <2> HIDE DEF f
  <2> QED BY <2>1, <2>2, <2>3, ShardKept DEF TaskDone, Hello, Asg, Ans
<1>5. CASE FinishLoad(n)
  <2> DEFINE f == Frame("ready", a.range, a.gen, files'[n])
  <2>1. /\ tasks[n] # <<>> /\ a.t = "assign" /\ Says(n, f)
        /\ tasks' = [tasks EXCEPT ![n] = Tail(@)]
        /\ UNCHANGED <<recordVars, applyVars, conn, up, toNode, open>>
        /\ shard' = [shard EXCEPT ![n] = a.range]
    BY <1>3, <1>5 DEF FinishLoad
  <2>2. shard'[n] = a.range
    BY <2>1 DEF TypeInv, TypeOK, NodesTyped
  <2>3. files'[n] \in SUBSET LayerIds
    BY <1>1, <1>5, <2>1, FilesAfterLoadTyped DEF FinishLoad, TypeInv, TypeOK, NodesTyped
  <2>4. f \in ToHubFrames
    BY <1>1, <1>2, <2>1, <2>3 DEF AnswerKinds
  <2>5. f.t = "ready" /\ f.gen = a.gen /\ f.range = a.range
    BY DEF Frame
  <2> HIDE DEF f
  <2> QED BY <2>1, <2>2, <2>4, <2>5 DEF TaskDone, Hello, Asg, Ans
<1>6. CASE FailLoad(n)
  <2> DEFINE f == Frame("error", a.range, a.gen, {})
  <2>1. /\ tasks[n] # <<>> /\ a.t = "assign" /\ Says(n, f) /\ UNCHANGED shard
        /\ tasks' = [tasks EXCEPT ![n] = Tail(@)]
        /\ UNCHANGED <<recordVars, applyVars, conn, up, toNode, open>>
    BY <1>3, <1>6 DEF FailLoad
  <2>2. f \in ToHubFrames
    BY <1>1, <1>2, <2>1 DEF AnswerKinds
  <2>3. f.t = "error" /\ f.gen = a.gen
    BY DEF Frame
  <2> HIDE DEF f
  <2> QED BY <2>1, <2>2, <2>3, ShardKept DEF TaskDone, Hello, Asg, Ans
<1>7. CASE Prefetch(n)
  <2>1. PICK t \in {"prefetched", "unfetched"} : Says(n, Frame(t, a.range, a.gen, {}))
    BY <1>7 DEF Prefetch
  <2> DEFINE f == Frame(t, a.range, a.gen, {})
  <2>2. /\ tasks[n] # <<>> /\ a.t = "prefetch" /\ UNCHANGED shard
        /\ tasks' = [tasks EXCEPT ![n] = Tail(@)]
        /\ UNCHANGED <<recordVars, applyVars, conn, up, toNode, open>>
    BY <1>7 DEF Prefetch, HeadIs
  <2>3. f \in ToHubFrames
    BY <1>1, <1>2, <2>2 DEF AnswerKinds
  <2>4. f.t = t
    BY DEF Frame
  <2> HIDE DEF f
  <2> QED BY <2>1, <2>2, <2>3, <2>4, ShardKept DEF TaskDone, Hello, Asg, Ans, f
<1> QED BY <1>4, <1>5, <1>6, <1>7

\* A ready of the last assign is believed, one of another may be; an error is;
\* what became of a prefetch says nothing about the shard.
LEMMA FramesHeard ==
  ASSUME TypeInv, NEW n \in Nodes, NEW c \in Conns,
         HubReady(n, c) \/ HubError(n, c) \/ HubPrefetched(n, c)
  PROVE  FrameHeard(n, c)
<1> DEFINE f == Head(toHub[n][c])
<1> USE DEF TypeInv, TypeOK, RecordsTyped, ApplyTyped
<1>1. CASE HubReady(n, c)
  <2>1. /\ Take(n, c) /\ c \in open[n] /\ toHub[n][c] # <<>> /\ f.t = "ready"
        /\ UNCHANGED <<ws, pendingGen, nodeVars, toNode, open, gen, phase, todo>>
    BY <1>1 DEF HubReady, Hears
  <2>2. \A m \in Nodes \ {n} : /\ ready'[m] = ready[m] /\ layers'[m] = layers[m]
                               /\ wait'[m] = wait[m]
    BY <1>1 DEF HubReady
  <2>5. wait'[n] = wait[n] \/ f.gen = gen
    BY <1>1 DEF HubReady, AwaitsReady
  <2>3. f.gen = pendingGen[n] => layers'[n] = f.range
    BY <1>1 DEF HubReady, Current
  <2>4. ready'[n] => ready[n] \/ f.gen \in {pendingGen[n], gen}
    BY <1>1 DEF HubReady, Current
  <2> QED BY <2>1, <2>2, <2>5, <2>3, <2>4 DEF FrameHeard, Ans
<1>2. CASE HubError(n, c)
  <2>1. /\ Take(n, c) /\ c \in open[n] /\ toHub[n][c] # <<>> /\ f.t = "error"
        /\ UNCHANGED <<ws, pendingGen, nodeVars, toNode, open, gen, phase, todo>>
    BY <1>2 DEF HubError, Hears
  <2>2. \A m \in Nodes \ {n} : /\ ready'[m] = ready[m] /\ layers'[m] = layers[m]
                               /\ wait'[m] = wait[m]
    BY <1>2 DEF HubError
  <2>5. wait'[n] = wait[n] \/ f.gen = gen
    BY <1>2 DEF HubError, AwaitsReady
  <2>3. ~ready'[n]
    BY <1>2 DEF HubError
  <2> QED BY <2>1, <2>2, <2>5, <2>3 DEF FrameHeard, Ans
<1>3. CASE HubPrefetched(n, c)
  <2>1. /\ Take(n, c) /\ c \in open[n] /\ toHub[n][c] # <<>>
        /\ f.t \in {"prefetched", "unfetched"}
        /\ UNCHANGED <<ws, pendingGen, nodeVars, toNode, open, gen, phase, todo>>
        /\ ready' = ready /\ layers' = layers
    BY <1>3 DEF HubPrefetched, Hears, recordVars
  <2>2. (\A m \in Nodes \ {n} : wait'[m] = wait[m])
        /\ (wait' = wait \/ phase \in Prefetching)
    BY <1>3 DEF HubPrefetched, AwaitsPrefetch
  <2> QED BY <2>1, <2>2 DEF FrameHeard, Ans
<1> QED BY <1>1, <1>2, <1>3

\* What happens between n and the hub is nothing to another node m.
LEMMA OthersStill ==
  ASSUME TypeInv, RouteInv, NEW n \in Nodes, NEW m \in Nodes, m # n,
         \/ Connect(n) \/ \E k : Disconnect(n, k)
         \/ Receive(n) \/ SkipAssign(n) \/ StartLoad(n) \/ TaskDone(n)
         \/ \E c \in Conns : FrameHeard(n, c) \/ HubHello(n, c) \/ HandlerEnds(n, c)
         \/ StaleLeft(n) \/ SwitchSend(n)
  PROVE  Still(m)
<1> USE DEF Still, SocketsStay, BeliefsStay
<1>1. CASE Connect(n) \/ \E k : Disconnect(n, k)
  BY <1>1 DEF Connect, Disconnect, recordVars, TypeInv, TypeOK, NodesTyped, NetTyped
<1>2. CASE Receive(n) \/ SkipAssign(n) \/ StartLoad(n)
  BY <1>2 DEF Receive, SkipAssign, StartLoad, recordVars, netVars, TypeInv, TypeOK,
              NodesTyped, NetTyped
<1>3. CASE TaskDone(n)
  <2>1. conn[n] \in Conns
    BY <1>3, WorkersAreUp DEF TaskDone, RouteInv, RouteOf
  <2>2. toHub'[m] = toHub[m]
    BY <1>3, <2>1, SaysToOne DEF TaskDone
  <2> QED BY <1>3, <2>2 DEF TaskDone, recordVars, TypeInv, TypeOK, NodesTyped
<1>4. CASE \E c \in Conns : FrameHeard(n, c)
  BY <1>4, TakeFromOne DEF FrameHeard, nodeVars
<1>5. CASE \E c \in Conns : HubHello(n, c)
  BY <1>5 DEF HubHello, TakeAndClose, Sent, nodeVars, TypeInv, TypeOK, RecordsTyped,
              NetTyped
<1>6. CASE StaleLeft(n) \/ \E c \in Conns : HandlerEnds(n, c)
  BY <1>6 DEF StaleLeft, HandlerEnds, Left, nodeVars, TypeInv, TypeOK, RecordsTyped,
              NetTyped
<1>7. CASE SwitchSend(n)
  BY <1>7 DEF SwitchSend, Sent, nodeVars, TypeInv, TypeOK, RecordsTyped, NetTyped
<1> QED BY <1>1, <1>2, <1>3, <1>4, <1>5, <1>6, <1>7

-----------------------------------------------------------------------------
(***************************************************************************)
(* The node's steps.                                                       *)
(***************************************************************************)

\* Connect: nothing is on the new connection but the hello.
LEMMA ConnectRoute ==
  ASSUME TypeInv, RouteInv, NEW n \in Nodes, Connect(n), NEW m \in Nodes
  PROVE  RouteOf(m)'
<1>1. CASE m # n
  BY <1>1, OthersStill, RouteStays DEF RouteInv
<1>2. CASE m = n
  <2> DEFINE c == conn[n] + 1
             f == Frame("hello", NoRange, 0, files[n])
  <2>0. /\ SocketOf(n) /\ ~up[n] /\ ws[n] \in 0 .. conn[n] /\ c \in Conns
        /\ conn[n] \in Nat /\ MaxConn \in Nat
    BY RouteTypes, BoundsAssumption DEF RouteInv, RouteOf, Connect, SocketOf, Socket, Conns
  <2>1. /\ conn'[n] = c /\ up'[n] = TRUE /\ ws'[n] = ws[n] /\ shard'[n] = shard[n]
        /\ tasks'[n] = tasks[n] /\ toNode'[n] = toNode[n]
        /\ open'[n] = open[n] \cup {c}
    BY DEF Connect, recordVars, TypeInv, TypeOK, NodesTyped, NetTyped
  <2>2. toHub'[n] = [toHub[n] EXCEPT ![c] = <<f>>]
    BY DEF Connect, TypeInv, TypeOK, NetTyped
  <2> HIDE DEF f
  <2>3. toHub'[n][c] = <<f>> /\ \A d \in Conns : d # c => toHub'[n][d] = toHub[n][d]
    BY <2>0, <2>2, RouteTypes
  <2>4. \A d \in Conns : d > c => toHub'[n][d] = <<>>
    BY <2>0, <2>3 DEF SocketOf, Socket, Conns
  <2>5. tasks[n] = <<>> /\ toNode[n] = <<>> /\ shard[n] = NoRange /\ open[n] \subseteq 1 .. c
    BY <2>0 DEF SocketOf, Socket
  <2>6. c \in 0 .. MaxConn /\ ws[n] \in 0 .. c /\ ws[n] # c /\ c # 0
        /\ open[n] \cup {c} \subseteq 1 .. c
    BY <2>0, <2>5 DEF Conns
  <2>7. ws[n] # 0 => ws[n] \in open[n] \cup {c}
    BY <2>0 DEF SocketOf, Socket
  <2> HIDE DEF c
  <2>8. SocketOf(n)'
    BY <2>1, <2>3, <2>4, <2>5, <2>6, <2>7 DEF SocketOf, Socket
  <2>9. ~Linked(n)'
    BY <2>1, <2>6 DEF Linked
  <2> QED BY <1>2, <2>8, <2>9 DEF RouteOf
<1> QED BY <1>1, <1>2

\* The end of a connection: nothing is left of what the node held.
LEMMA DisconnectRoute ==
  ASSUME TypeInv, RouteInv, NEW n \in Nodes, NEW k, Disconnect(n, k), NEW m \in Nodes
  PROVE  RouteOf(m)'
<1>1. CASE m # n
  BY <1>1, OthersStill, RouteStays DEF RouteInv
<1>2. CASE m = n
  <2>0. SocketOf(n) /\ conn[n] \in Conns
    BY OnAConnection DEF RouteInv, RouteOf, Disconnect
  <2>1. /\ conn'[n] = conn[n] /\ up'[n] = FALSE /\ ws'[n] = ws[n]
        /\ shard'[n] = NoRange /\ tasks'[n] = <<>> /\ toNode'[n] = <<>>
        /\ open'[n] = open[n]
    BY DEF Disconnect, recordVars, TypeInv, TypeOK, NodesTyped, NetTyped
  <2>2. \A d \in Conns : d # conn[n] => toHub'[n][d] = toHub[n][d]
    BY RouteTypes DEF Disconnect, TypeInv, TypeOK, NetTyped
  <2>3. \A d \in Conns : d > conn[n] => toHub'[n][d] = <<>>
    BY <2>0, <2>2 DEF SocketOf, Socket, Conns
  <2>4. SocketOf(n)'
    BY <2>0, <2>1, <2>3 DEF SocketOf, Socket
  <2>5. ~Linked(n)'
    BY <2>1 DEF Linked
  <2> QED BY <1>2, <2>4, <2>5 DEF RouteOf
<1> QED BY <1>1, <1>2

\* The message loop moves a frame from the socket to the tasks.
LEMMA ReceiveRoute ==
  ASSUME TypeInv, RouteInv, NEW n \in Nodes, Receive(n), NEW m \in Nodes
  PROVE  RouteOf(m)'
<1>1. CASE m # n
  BY <1>1, OthersStill, RouteStays DEF RouteInv
<1>2. CASE m = n
  <2>0. SocketOf(n) /\ toNode[n] # <<>> /\ Head(toNode[n]) \in Tasks
    BY RouteTypes, TaskFrames DEF RouteInv, RouteOf, Receive
  <2>1. /\ conn'[n] = conn[n] /\ up'[n] = up[n] /\ ws'[n] = ws[n]
        /\ shard'[n] = shard[n] /\ open'[n] = open[n] /\ toHub'[n] = toHub[n]
        /\ tasks'[n] = Append(tasks[n], Head(toNode[n]))
        /\ toNode'[n] = Tail(toNode[n]) /\ BeliefsStay(n)
    BY DEF Receive, recordVars, BeliefsStay, TypeInv, TypeOK, NodesTyped, NetTyped
  <2>2. SocketOf(n)'
    BY <2>0, <2>1, SocketWork DEF SocketOf
  <2>3. Linked(n) => ChainOf(n)'
    BY <2>0, <2>1, RouteTypes, ChainReceive DEF RouteInv, RouteOf, ChainOf, BeliefsStay
  <2> QED BY <1>2, <2>1, <2>2, <2>3 DEF RouteOf, Linked
<1> QED BY <1>1, <1>2

\* The head of the tasks ends, and the node says so.
LEMMA TaskDoneRoute ==
  ASSUME TypeInv, RouteInv, NEW n \in Nodes, TaskDone(n)
  PROVE  RouteOf(n)'
<1> PICK f \in ToHubFrames :
      /\ f.t \notin Hello /\ Says(n, f)
      /\ \/ Head(tasks[n]).t \notin Asg /\ f.t \notin Ans /\ shard'[n] = shard[n]
         \/ /\ Head(tasks[n]).t \in Asg /\ f.t \in Ans
            /\ f.gen = Head(tasks[n]).gen
            /\ f.t = "error" \/ f.range = shard'[n]
  BY DEF TaskDone
<1>0. tasks[n] # <<>> /\ RouteOf(n)
  BY DEF TaskDone, RouteInv
<1>1. /\ conn'[n] = conn[n] /\ up'[n] = up[n] /\ ws'[n] = ws[n]
      /\ open'[n] = open[n] /\ toNode'[n] = toNode[n]
      /\ tasks'[n] = Tail(tasks[n]) /\ BeliefsStay(n)
  BY DEF TaskDone, recordVars, BeliefsStay, TypeInv, TypeOK, NodesTyped
<1>2. conn[n] \in Conns /\ SocketOf(n)
  BY <1>0, WorkersAreUp DEF RouteOf
<1>3. /\ toHub'[n][conn[n]] = Append(toHub[n][conn[n]], f)
      /\ \A d \in Conns : d # conn[n] => toHub'[n][d] = toHub[n][d]
  BY <1>2, SaysToOne
<1>4. toHub[n][conn[n]] \in Seq(ToHubFrames)
  BY <1>2, RouteTypes
<1>5. \A q \in Seq(ToHubFrames) : Free(q, Hello) => Free(Append(q, f), Hello)
  BY AppendOther
<1>6. SocketOf(n)'
  <2> DEFINE h == toHub'[n]
  <2>1. /\ \A d \in Conns : d # conn[n] => h[d] = toHub[n][d]
        /\ Free(toHub[n][conn[n]], Hello) => Free(h[conn[n]], Hello)
    BY <1>3, <1>4, <1>5
  <2>2. SocketOf(n)' <=> Socket(ws[n], conn[n], up[n], shard'[n], Tail(tasks[n]),
                                toNode[n], h, open[n])
    BY <1>1 DEF SocketOf
  <2> HIDE DEF h
  <2> QED BY <1>0, <1>2, <2>1, <2>2, SocketWork DEF SocketOf
<1>7. ASSUME Linked(n) PROVE ChainOf(n)'
  <2> DEFINE tn == toNode[n]
             tk == tasks[n]
             W  == toHub[n][conn[n]]
             pg == pendingGen[n]
             sh == shard[n]
             rd == ready[n]
             ly == layers[n]
             s  == shard'[n]
  <2>1. Chain(tn, tk, W, pg, sh, rd, ly)
    BY <1>0, <1>7 DEF RouteOf, ChainOf
  <2>2. tk \in Seq(Tasks) /\ W \in Seq(ToHubFrames) /\ tk # <<>>
    BY <1>0, <1>4, RouteTypes
  <2>3. ChainOf(n)' <=> Chain(tn, Tail(tk), Append(W, f), pg, s, rd, ly)
    BY <1>1, <1>3 DEF ChainOf, BeliefsStay
  <2>4. CASE Head(tk).t \notin Asg /\ f.t \notin Ans /\ s = sh
    <3> HIDE DEF tn, tk, W, pg, sh, rd, ly
    <3> QED BY <2>1, <2>2, <2>3, <2>4, ChainOtherTask
  <2>5. CASE /\ Head(tk).t \in Asg /\ f.t \in Ans /\ f.gen = Head(tk).gen
             /\ f.t = "error" \/ f.range = s
    <3>1. f \in Answers
      BY <2>5, AnswerFrames DEF Ans, AnswerKinds
    <3> HIDE DEF tn, tk, W, pg, sh, rd, ly, s
    <3> QED BY <2>1, <2>2, <2>3, <2>5, <3>1, ChainAnswer
  <2> QED BY <2>4, <2>5
<1> QED BY <1>1, <1>6, <1>7 DEF RouteOf, Linked

\* A superseded assign is dropped, another has been received.
LEMMA SkipRoute ==
  ASSUME TypeInv, RouteInv, NEW n \in Nodes, SkipAssign(n), NEW m \in Nodes
  PROVE  RouteOf(m)'
<1>1. CASE m # n
  BY <1>1, OthersStill, RouteStays DEF RouteInv
<1>2. CASE m = n
  <2>0. tasks[n] # <<>> /\ tasks[n] \in Seq(Tasks) /\ RouteOf(n)
    BY RouteTypes DEF SkipAssign, HeadIs, RouteInv
  <2>1. /\ conn'[n] = conn[n] /\ up'[n] = up[n] /\ ws'[n] = ws[n]
        /\ shard'[n] = shard[n] /\ open'[n] = open[n] /\ toHub'[n] = toHub[n]
        /\ tasks'[n] = Tail(tasks[n]) /\ toNode'[n] = toNode[n] /\ BeliefsStay(n)
    BY DEF SkipAssign, recordVars, netVars, BeliefsStay, TypeInv, TypeOK, NodesTyped
  <2>2. ~Free(Tail(tasks[n]), Asg)
    <3>1. PICK i \in 2 .. Len(tasks[n]) : tasks[n][i].t = "assign"
      BY DEF SkipAssign, Superseded
    <3>2. i - 1 \in DOMAIN Tail(tasks[n]) /\ Tail(tasks[n])[i - 1] = tasks[n][i]
      BY <2>0, <3>1, Shifted
    <3> QED BY <3>1, <3>2 DEF Free, Asg
  <2>3. SocketOf(n)'
    BY <2>0, <2>1, SocketWork DEF SocketOf, RouteOf
  <2>4. Linked(n) => ChainOf(n)'
    BY <2>0, <2>1, <2>2, ChainSkip DEF RouteOf, ChainOf, BeliefsStay
  <2> QED BY <1>2, <2>1, <2>3, <2>4 DEF RouteOf, Linked
<1> QED BY <1>1, <1>2

\* A load begins: the assign it is for is still among the tasks.
LEMMA StartLoadRoute ==
  ASSUME TypeInv, RouteInv, NEW n \in Nodes, StartLoad(n), NEW m \in Nodes
  PROVE  RouteOf(m)'
<1>1. CASE m # n
  BY <1>1, OthersStill, RouteStays DEF RouteInv
<1>2. CASE m = n
  <2>0. tasks[n] # <<>> /\ tasks[n] \in Seq(Tasks) /\ Head(tasks[n]).t = "assign"
        /\ RouteOf(n)
    BY RouteTypes DEF StartLoad, HeadIs, RouteInv
  <2>1. /\ conn'[n] = conn[n] /\ up'[n] = up[n] /\ ws'[n] = ws[n]
        /\ open'[n] = open[n] /\ toHub'[n] = toHub[n]
        /\ tasks'[n] = tasks[n] /\ toNode'[n] = toNode[n] /\ BeliefsStay(n)
    BY DEF StartLoad, recordVars, netVars, BeliefsStay
  <2>2. ~Free(tasks[n], Asg)
    BY <2>0, TakeHead DEF Asg
  <2>3. SocketOf(n)'
    BY <2>0, <2>1, SocketWork DEF SocketOf, RouteOf
  <2>4. Linked(n) => ChainOf(n)'
    BY <2>0, <2>1, <2>2, ChainLoad DEF RouteOf, ChainOf, BeliefsStay
  <2> QED BY <1>2, <2>1, <2>3, <2>4 DEF RouteOf, Linked
<1> QED BY <1>1, <1>2

-----------------------------------------------------------------------------
(***************************************************************************)
(* The hub's handlers.                                                     *)
(***************************************************************************)

\* Where the record is bound to the connection the node is on, frames only come
\* in on that one, and no hello.
LEMMA HeardOnLink ==
  ASSUME NEW n \in Nodes, NEW c \in Conns, RouteOf(n), Linked(n), toHub[n][c] # <<>>
  PROVE  c = conn[n] /\ Free(toHub[n][c], Hello)
BY DEF RouteOf, SocketOf, Socket, Linked

\* The hub reads a frame that is no hello and believes what it says, or not.
LEMMA FrameHeardRoute ==
  ASSUME TypeInv, RouteInv, NEW n \in Nodes, NEW c \in Conns, FrameHeard(n, c)
  PROVE  RouteOf(n)'
<1> USE DEF FrameHeard
<1>0. RouteOf(n)
  BY DEF RouteInv
<1>1. toHub'[n] = [toHub[n] EXCEPT ![c] = Tail(@)] /\ toHub'[n][c] = Tail(toHub[n][c])
  BY TakeFromOne
<1>2. SocketOf(n)'
  <2>1. Socket(ws[n], conn[n], up[n], shard[n], tasks[n], toNode[n],
               [toHub[n] EXCEPT ![c] = Tail(@)], open[n])
    BY <1>0, RouteTypes, SocketHeard DEF RouteOf, SocketOf
  <2> QED BY <1>1, <2>1 DEF SocketOf, nodeVars
<1>3. ASSUME Linked(n) PROVE ChainOf(n)'
  <2> DEFINE W == toHub[n][c]
  <2>1. c = conn[n]
    BY <1>0, <1>3, HeardOnLink
  <2>2. W \in Seq(ToHubFrames)
    BY RouteTypes
  <2>3. Chain(toNode[n], tasks[n], W, pendingGen[n], shard[n], ready[n], layers[n])
    BY <1>0, <1>3, <2>1 DEF RouteOf, ChainOf
  <2>4. ChainOf(n)' <=> Chain(toNode[n], tasks[n], Tail(W), pendingGen[n], shard[n],
                              ready'[n], layers'[n])
    BY <1>1, <2>1 DEF ChainOf, nodeVars
  <2> HIDE DEF W
  <2>5. CASE Head(W).t \notin Ans /\ ready'[n] = ready[n] /\ layers'[n] = layers[n]
    BY <2>2, <2>3, <2>4, <2>5, ChainHeardOther DEF W
  <2>6. CASE /\ Head(W).t \in Ans
             /\ Head(W).t = "error" => ~ready'[n]
             /\ Head(W).t = "ready" /\ Head(W).gen = pendingGen[n]
                  => layers'[n] = Head(W).range
    BY <2>2, <2>3, <2>4, <2>6, ChainHeard DEF W
  <2> QED BY <2>5, <2>6 DEF W
<1>4. Linked(n)' => Linked(n)
  BY DEF Linked, nodeVars
<1> QED BY <1>2, <1>3, <1>4 DEF RouteOf

\* A hello that binds the record to the connection the node is on finds nothing
\* on it; a member is sent its range.
LEMMA HelloLinks ==
  ASSUME TypeInv, RouteInv, NEW n \in Nodes, NEW c \in Conns, HubHello(n, c),
         up[n], c = conn[n], ~Linger
  PROVE  /\ tasks'[n] = <<>> /\ ready'[n] = FALSE
         /\ \A d \in Conns : toHub'[n][d] = <<>>
         /\ \/ toNode'[n] = <<>> /\ toNode[n] = <<>>
            \/ \E f \in Tasks : /\ f.t = "assign" /\ pendingGen'[n] = f.gen
                                /\ toNode'[n] = Append(<<>>, f)
<1> DEFINE h == [d \in Conns |-> IF d = c THEN Tail(toHub[n][c])
                                 ELSE IF d > c THEN toHub[n][d] ELSE <<>>]
           f == [t |-> "assign", range |-> committed[n], gen |-> gen]
<1>0. SocketOf(n) /\ toHub[n] \in [Conns -> Seq(ToHubFrames)]
      /\ toHub[n][c] # <<>> /\ Head(toHub[n][c]).t = "hello"
  BY RouteTypes DEF HubHello, Hears, RouteInv, RouteOf
<1>1. tasks'[n] = tasks[n] /\ ready'[n] = FALSE /\ toHub'[n] = h
  BY DEF HubHello, TakeAndClose, nodeVars, TypeInv, TypeOK, RecordsTyped, NetTyped
<1>2. ~Free(toHub[n][c], Hello)
  BY <1>0, TakeHead DEF Hello
<1>3. Len(toHub[n][c]) = 1 /\ tasks[n] = <<>> /\ toNode[n] = <<>>
  BY <1>0, <1>2 DEF SocketOf, Socket
<1>4. h[c] = <<>>
  BY <1>0, <1>3, OneTaken
<1>5. \A d \in Conns : d > c => toHub[n][d] = <<>>
  BY <1>0 DEF SocketOf, Socket
<1>6. \A d \in Conns : h[d] = <<>>
  BY <1>4, <1>5
<1>7. CASE toNode' = toNode
  BY <1>1, <1>3, <1>6, <1>7
<1>8. CASE committed[n] # NoRange /\ toNode' = Sent(n, c, f)
           /\ pendingGen' = [pendingGen EXCEPT ![n] = gen]
  <2>1. toNode'[n] = Append(<<>>, f)
    BY <1>3, <1>8 DEF Sent, Reaches, TypeInv, TypeOK, NetTyped
  <2>2. f \in Tasks /\ f.t = "assign" /\ pendingGen'[n] = f.gen
    BY <1>8 DEF Tasks, TaskKinds, TypeInv, TypeOK, ApplyTyped, RecordsTyped, Layouts
  <2> HIDE DEF f
  <2> QED BY <1>1, <1>3, <1>6, <2>1, <2>2
<1> QED BY <1>7, <1>8 DEF HubHello

\* A hello: the record is bound to the new connection with nothing believed, and
\* the other sockets are closed.
LEMMA HubHelloRoute ==
  ASSUME TypeInv, RouteInv, ~Linger, NEW n \in Nodes, NEW c \in Conns, HubHello(n, c),
         NEW m \in Nodes
  PROVE  RouteOf(m)'
<1> DEFINE h == toHub'[n]
<1>0. /\ c \in open[n] /\ RouteOf(n) /\ SocketOf(n)
  BY DEF HubHello, Hears, RouteInv, RouteOf
<1>1. /\ ws'[n] = c /\ ready'[n] = FALSE /\ UNCHANGED <<nodeVars, open>>
      /\ \A d \in Conns : d > c => h[d] = toHub[n][d]
  <2>1. ws'[n] = c /\ ready'[n] = FALSE /\ UNCHANGED <<nodeVars, open>>
    BY DEF HubHello, TypeInv, TypeOK, RecordsTyped
  <2>2. h = [d \in Conns |-> IF d = c THEN Tail(toHub[n][c])
                             ELSE IF Linger \/ d > c THEN toHub[n][d] ELSE <<>>]
    BY DEF HubHello, TakeAndClose, TypeInv, TypeOK, NetTyped
  <2>3. c \in Nat /\ \A d \in Conns : d > c => d # c
    BY DEF Conns
  <2> QED BY <2>1, <2>2, <2>3
<1>2. CASE m # n
  BY <1>2, OthersStill, RouteStays DEF RouteInv
<1>3. CASE m = n
  <2>1. c \in 1 .. conn[n] /\ conn[n] \in 0 .. MaxConn
    BY <1>0 DEF SocketOf, Socket
  <2>2. CASE up[n] /\ c = conn[n]
    <3>1. tasks'[n] = <<>> /\ \A d \in Conns : h[d] = <<>>
      BY <2>2, HelloLinks
    <3>2. Free(h[c], Hello) /\ ws'[n] = conn[n]
      BY <1>1, <2>2, <3>1, EmptyQueue
    <3> HIDE DEF h
    <3>3. SocketOf(n)'
      BY <1>0, <1>1, <2>1, <2>2, <3>1, <3>2 DEF SocketOf, Socket, nodeVars, h
    <3>4. ChainOf(n)'
      <4>1. /\ tasks'[n] = <<>> /\ toHub'[n][conn'[n]] = <<>> /\ ready'[n] = FALSE
        BY <1>1, <2>2, <3>1 DEF nodeVars, h
      <4>2. CASE toNode'[n] = <<>>
        BY <4>1, <4>2, ChainEmpty DEF ChainOf
      <4>3. CASE \E f \in Tasks : /\ f.t = "assign" /\ pendingGen'[n] = f.gen
                                  /\ toNode'[n] = Append(<<>>, f)
        <5> PICK f \in Tasks : /\ f.t = "assign" /\ pendingGen'[n] = f.gen
                               /\ toNode'[n] = Append(<<>>, f)
          BY <4>3
        <5> DEFINE e == <<>>
        <5>1. e \in Seq(ToNodeFrames)
          OBVIOUS
        <5> HIDE DEF e
        <5>2. Chain(Append(e, f), <<>>, <<>>, f.gen, shard'[n], FALSE, layers'[n])
          BY <5>1, ChainSend
        <5> QED BY <4>1, <5>2 DEF ChainOf, e
      <4> QED BY <2>2, <4>2, <4>3, HelloLinks
    <3> QED BY <1>3, <3>3, <3>4 DEF RouteOf
  <2>3. CASE ~(up[n] /\ c = conn[n])
    <3>1. toNode'[n] = toNode[n]
      BY <2>3 DEF HubHello, Sent, Reaches
    <3>2. /\ up[n] => conn[n] # c /\ conn[n] \in Conns /\ c < conn[n]
          /\ \A d \in Conns : d > conn[n] => h[d] = <<>>
      <4>1. up[n] => conn[n] # c /\ conn[n] \in Conns /\ c < conn[n]
        <5>1. up[n] => conn[n] # c /\ conn[n] \in Conns
          BY <1>0, <2>3, OnAConnection
        <5>2. c \in Nat /\ conn[n] \in Nat /\ c <= conn[n]
          BY <2>1, BoundsAssumption
        <5> QED BY <5>1, <5>2
      <4>2. ASSUME NEW d \in Conns, d > conn[n] PROVE h[d] = <<>>
        <5>1. d > c
          BY <2>1, <4>2, BoundsAssumption DEF Conns
        <5>2. toHub[n][d] = <<>>
          BY <1>0, <4>2 DEF SocketOf, Socket
        <5> HIDE DEF h
        <5> QED BY <1>1, <5>1, <5>2
      <4> QED BY <4>1, <4>2
    <3> HIDE DEF h
    <3>3. ws'[n] \in 0 .. conn[n] /\ ws'[n] # 0 /\ ws'[n] \in open[n]
          /\ (up[n] => ws'[n] # conn[n] /\ h[conn[n]] = toHub[n][conn[n]])
      BY <1>0, <1>1, <2>1, <3>2 DEF h
    <3>4. SocketOf(n)'
      BY <1>0, <1>1, <3>1, <3>2, <3>3 DEF SocketOf, Socket, nodeVars, h
    <3>5. ~Linked(n)'
      BY <1>1, <3>3 DEF Linked, nodeVars
    <3> QED BY <1>3, <3>4, <3>5 DEF RouteOf
  <2> QED BY <2>2, <2>3
<1> QED BY <1>2, <1>3

\* The record of n loses its socket, or another one ends: nothing is lost of the
\* connection the hub listens to.
LEMMA SocketLost ==
  ASSUME TypeInv, NEW n \in Nodes, RouteOf(n), NEW c \in Conns,
         toHub'[n] = [toHub[n] EXCEPT ![c] = <<>>],
         ws'[n] = (IF ws[n] = c THEN 0 ELSE ws[n]),
         open'[n] \in {open[n], open[n] \ {c}},
         UNCHANGED <<nodeVars, toNode>>, ws[n] # c => BeliefsStay(n)
  PROVE  RouteOf(n)'
<1>0. SocketOf(n) /\ toHub[n] \in [Conns -> Seq(ToHubFrames)]
  BY RouteTypes DEF RouteOf
<1>1. toHub'[n][c] = <<>> /\ \A d \in Conns : d # c => toHub'[n][d] = toHub[n][d]
  BY <1>0
<1>2. \A d \in Conns : toHub[n][d] = <<>> => toHub'[n][d] = <<>>
  BY <1>1
<1>3. \A d \in Conns : ~Free(toHub'[n][d], Hello) => toHub'[n][d] = toHub[n][d]
  BY <1>1, EmptyQueue
<1>4. up[n] => conn[n] \in Conns /\ conn[n] # 0
  BY <1>0, OnAConnection DEF SocketOf, Socket
<1>5. ws'[n] = conn[n] /\ up[n] => ws[n] = conn[n] /\ ws[n] # c
  BY <1>4
<1>6. SocketOf(n)'
  <2>1. ws'[n] \in 0 .. conn[n] /\ open'[n] \subseteq 1 .. conn[n]
        /\ (ws'[n] # 0 => ws'[n] \in open'[n])
    BY <1>0 DEF SocketOf, Socket
  <2>2. \A d \in Conns : d > conn[n] => toHub'[n][d] = <<>>
    BY <1>0, <1>2 DEF SocketOf, Socket
  <2>3. up[n] /\ ~Free(toHub'[n][conn[n]], Hello) =>
          /\ ws'[n] # conn[n] /\ Len(toHub'[n][conn[n]]) = 1
          /\ tasks[n] = <<>> /\ toNode[n] = <<>> /\ shard[n] = NoRange
    BY <1>0, <1>3, <1>4, <1>5 DEF SocketOf, Socket
  <2>4. up[n] /\ ws'[n] = conn[n] => \A d \in Conns \ {conn[n]} : toHub'[n][d] = <<>>
    BY <1>0, <1>2, <1>5 DEF SocketOf, Socket
  <2> QED BY <1>0, <2>1, <2>2, <2>3, <2>4 DEF SocketOf, Socket, nodeVars
<1>7. Linked(n)' => ChainOf(n)'
  <2> SUFFICES ASSUME up[n], ws'[n] = conn[n] PROVE ChainOf(n)'
    BY DEF Linked, nodeVars
  <2>1. Linked(n) /\ ws[n] # c /\ conn[n] \in Conns
    BY <1>4, <1>5 DEF Linked
  <2>2. toHub'[n][conn[n]] = toHub[n][conn[n]]
    BY <1>1, <2>1 DEF Linked
  <2> QED BY <2>1, <2>2 DEF RouteOf, ChainOf, BeliefsStay, nodeVars
<1> QED BY <1>6, <1>7 DEF RouteOf

\* A handler ends: its node is gone, or the hub has given the socket up.
LEMMA HandlerEndsRoute ==
  ASSUME TypeInv, RouteInv, NEW n \in Nodes, NEW c \in Conns, HandlerEnds(n, c),
         NEW m \in Nodes
  PROVE  RouteOf(m)'
<1>1. UNCHANGED <<nodeVars, toNode, layers, pendingGen>>
  BY DEF HandlerEnds
<1>2. CASE m # n
  BY <1>2, OthersStill, RouteStays DEF RouteInv
<1>3. CASE m = n
  <2>1. toHub'[n] = [toHub[n] EXCEPT ![c] = <<>>] /\ open'[n] = open[n] \ {c}
    BY DEF HandlerEnds, TypeInv, TypeOK, NetTyped
  <2>2. ws'[n] = IF ws[n] = c THEN 0 ELSE ws[n]
    BY DEF HandlerEnds, Left, TypeInv, TypeOK, RecordsTyped
  <2>3. ws[n] # c => BeliefsStay(n)
    BY <1>1 DEF HandlerEnds, BeliefsStay
  <2> QED BY <1>1, <1>3, <2>1, <2>2, <2>3, SocketLost DEF RouteInv
<1> QED BY <1>2, <1>3

\* A silent socket counts as gone.
LEMMA StaleLeftRoute ==
  ASSUME TypeInv, RouteInv, ~Linger, NEW n \in Nodes, StaleLeft(n), NEW m \in Nodes
  PROVE  RouteOf(m)'
<1>1. UNCHANGED <<nodeVars, toNode, layers, pendingGen, open>>
  BY DEF StaleLeft
<1>2. CASE m # n
  BY <1>2, OthersStill, RouteStays DEF RouteInv
<1>3. CASE m = n
  <2> DEFINE c == ws[n]
  <2>1. toHub'[n] = [toHub[n] EXCEPT ![c] = <<>>]
    BY DEF StaleLeft, TypeInv, TypeOK, NetTyped
  <2>2. ws'[n] = 0 /\ c \in Conns
    BY DEF StaleLeft, Left, TypeInv, TypeOK, RecordsTyped, Conns
  <2> HIDE DEF c
  <2>3. RouteOf(n) /\ ws[n] = c
    BY DEF RouteInv, c
  <2> QED BY <1>1, <1>3, <2>1, <2>2, <2>3, SocketLost
<1> QED BY <1>2, <1>3

-----------------------------------------------------------------------------
(***************************************************************************)
(* The steps of replan and apply_plan.                                     *)
(***************************************************************************)

\* What the hub sends a node, if anything: an assign it then waits for, or a
\* request to prefetch.
Asked(n) ==
  Linked(n) /\ BeliefsStay(n)
  /\ \E f \in Tasks : f.t \notin Asg /\ toNode'[n] = Append(toNode[n], f)
Assigned(n) ==
  Linked(n) /\ \E f \in Tasks : /\ f.t \in Asg /\ pendingGen'[n] = f.gen
                                /\ toNode'[n] = Append(toNode[n], f)
SentNothing(n) == toNode'[n] = toNode[n] /\ (BeliefsStay(n) \/ ~Linked(n))

\* Whatever it sends, the chain of the node stands.
LEMMA SendRoute ==
  ASSUME TypeInv, NEW n \in Nodes, RouteOf(n), UNCHANGED <<ws, nodeVars, toHub, open>>,
         Asked(n) \/ Assigned(n) \/ SentNothing(n)
  PROVE  RouteOf(n)'
<1>0. toNode[n] \in Seq(ToNodeFrames) /\ Tasks \subseteq ToNodeFrames
  BY RouteTypes DEF ToNodeFrames
<1>1. CASE SentNothing(n)
  BY <1>1 DEF SentNothing, RouteOf, SocketOf, ChainOf, Linked, BeliefsStay, nodeVars
<1>2. ASSUME Linked(n) PROVE SocketOf(n)'
  <2>1. up[n] = TRUE /\ ws[n] = conn[n]
    BY <1>2, RouteTypes DEF Linked
  <2>2. Socket(ws[n], conn[n], TRUE, shard[n], tasks[n], toNode[n], toHub[n], open[n])
    BY <2>1 DEF RouteOf, SocketOf
  <2>3. Socket(ws[n], conn[n], TRUE, shard[n], tasks[n], toNode'[n], toHub[n], open[n])
    BY <2>1, <2>2, SocketSend
  <2> QED BY <2>1, <2>3 DEF SocketOf, nodeVars
<1>3. CASE Asked(n)
  <2>1. PICK f \in Tasks : f.t \notin Asg /\ toNode'[n] = Append(toNode[n], f)
    BY <1>3 DEF Asked
  <2>2. Chain(toNode[n], tasks[n], toHub[n][conn[n]], pendingGen[n], shard[n],
              ready[n], layers[n])
    BY <1>3 DEF Asked, RouteOf, ChainOf
  <2>3. Chain(toNode'[n], tasks[n], toHub[n][conn[n]], pendingGen[n], shard[n],
              ready[n], layers[n])
    BY <1>0, <2>1, <2>2, ChainAsk
  <2>4. ChainOf(n)'
    BY <1>3, <2>3 DEF ChainOf, Asked, BeliefsStay, nodeVars
  <2> QED BY <1>2, <1>3, <2>4 DEF RouteOf, Asked
<1>4. CASE Assigned(n)
  <2>1. PICK f \in Tasks : /\ f.t \in Asg /\ pendingGen'[n] = f.gen
                           /\ toNode'[n] = Append(toNode[n], f)
    BY <1>4 DEF Assigned
  <2>2. Chain(toNode'[n], tasks[n], toHub[n][conn[n]], pendingGen'[n], shard[n],
              ready'[n], layers'[n])
    BY <1>0, <2>1, ChainSend DEF Asg
  <2>3. ChainOf(n)'
    BY <2>2 DEF ChainOf, nodeVars
  <2> QED BY <1>2, <1>4, <2>3 DEF RouteOf, Assigned
<1> QED BY <1>1, <1>3, <1>4

\* A step that touches neither the sockets nor the beliefs.
LEMMA QuietRoute ==
  ASSUME RouteInv, NEW m \in Nodes,
         UNCHANGED <<ws, ready, layers, pendingGen, nodeVars, netVars>>
  PROVE  RouteOf(m)'
<1>1. Still(m)
  BY DEF Still, SocketsStay, BeliefsStay, nodeVars, netVars
<1> QED BY <1>1, RouteStays DEF RouteInv

\* Members are asked to prefetch.
LEMMA PrefetchForRoute ==
  ASSUME TypeInv, RouteInv, NEW p \in Plans, NEW S \in SUBSET Members(p.at),
         PrefetchFor(p, S),
         UNCHANGED <<ws, ready, layers, pendingGen, nodeVars, toHub, open>>,
         NEW m \in Nodes
  PROVE  RouteOf(m)'
<1> DEFINE f == [t |-> "prefetch", range |-> p.at[m], gen |-> gen + 1]
           asked == m \in Unfetched(S, p.at) /\ Reaches(m, ws[m])
<1>1. toNode'[m] = IF asked THEN Append(toNode[m], f) ELSE toNode[m]
  BY DEF PrefetchFor
<1>2. CASE asked
  <2>1. f \in Tasks /\ f.t \notin Asg
    BY <1>2 DEF Tasks, TaskKinds, Asg, Unfetched, Members, Plans, Layouts, TypeInv,
                TypeOK, ApplyTyped
  <2>2. Asked(m)
    BY <1>1, <1>2, <2>1 DEF Asked, Linked, Reaches, BeliefsStay
  <2> QED BY <2>2, SendRoute DEF RouteInv
<1>3. CASE ~asked
  BY <1>1, <1>3, SendRoute DEF RouteInv, SentNothing, BeliefsStay
<1> QED BY <1>2, <1>3

\* apply_plan begins.
LEMMA StartApplyRoute ==
  ASSUME TypeInv, RouteInv, NEW p \in Plans, StartApply(p), NEW m \in Nodes
  PROVE  RouteOf(m)'
<1>1. Changed(p.at) \in SUBSET Members(p.at)
  BY ChangedAreMembers
<1> QED BY <1>1, PrefetchForRoute DEF StartApply

\* A plan is found, or waited with, or parked.
LEMMA ReplanRoute ==
  ASSUME TypeInv, RouteInv, NEW m \in Nodes,
         ReplanApplies \/ ReplanParks \/ ManualReplan \/ ManualApplies
  PROVE  RouteOf(m)'
<1>1. CASE ReplanApplies
  <2>1. PICK A \in ComputePlan({}) : StartApply([at |-> A, known |-> Known])
    BY <1>1 DEF ReplanApplies
  <2>2. [at |-> A, known |-> Known] \in Plans
    BY ComputePlanTiles, PlanTyped
  <2> QED BY <2>1, <2>2, StartApplyRoute
<1>2. CASE ReplanParks \/ ManualReplan
  BY <1>2, QuietRoute DEF ReplanParks, ManualReplan
<1>3. CASE ManualApplies
  BY <1>3, StartApplyRoute DEF ManualApplies, TypeInv, TypeOK, ApplyTyped
<1> QED BY <1>1, <1>2, <1>3

\* The first prefetch ends; others may be asked.
LEMMA EndPrefetchRoute ==
  ASSUME TypeInv, RouteInv, EndPrefetch, NEW m \in Nodes
  PROVE  RouteOf(m)'
<1>1. UNCHANGED <<ws, ready, layers, pendingGen, nodeVars, toHub, open>>
  BY DEF EndPrefetch
<1>2. CASE toNode' = toNode
  BY <1>1, <1>2, QuietRoute DEF netVars
<1>3. CASE toNode' # toNode
  <2>1. PICK X : \E A \in ComputePlan(X) :
          PrefetchFor([at |-> A, known |-> Known], {n \in Changed(A) : ws[n] # 0})
    BY <1>3 DEF EndPrefetch, StartDrain, Abandon
  <2> PICK A \in ComputePlan(X) :
          PrefetchFor([at |-> A, known |-> Known], {n \in Changed(A) : ws[n] # 0})
    BY <2>1
  <2>2. [at |-> A, known |-> Known] \in Plans
    BY ComputePlanTiles, PlanTyped
  <2>3. {n \in Changed(A) : ws[n] # 0} \in SUBSET Members(A)
    BY ChangedAreMembers
  <2> QED BY <1>1, <2>2, <2>3, PrefetchForRoute
<1> QED BY <1>2, <1>3

\* An assign is sent: the node's last one from now on.
LEMMA SwitchSendRoute ==
  ASSUME TypeInv, RouteInv, NEW n \in Nodes, SwitchSend(n), NEW m \in Nodes
  PROVE  RouteOf(m)'
<1> DEFINE f == [t |-> "assign", range |-> plan.at[n], gen |-> gen]
<1>1. UNCHANGED <<ws, layers, nodeVars, toHub, open>>
  BY DEF SwitchSend
<1>2. CASE m # n
  BY <1>2, OthersStill, RouteStays DEF RouteInv
<1>3. CASE m = n /\ ws[n] = 0
  <2>1. toNode'[n] = toNode[n] /\ BeliefsStay(n)
    BY <1>1, <1>3 DEF SwitchSend, BeliefsStay
  <2> QED BY <1>1, <1>3, <2>1, SendRoute DEF RouteInv, SentNothing
<1>4. CASE m = n /\ ws[n] # 0
  <2>1. toNode' = Sent(n, ws[n], f) /\ pendingGen'[n] = gen
    BY <1>4 DEF SwitchSend, TypeInv, TypeOK, RecordsTyped
  <2>2. CASE Linked(n)
    <3>1. toNode'[n] = Append(toNode[n], f)
      BY <2>1, <2>2 DEF Sent, Reaches, Linked, TypeInv, TypeOK, NetTyped
    <3>2. f \in Tasks /\ f.t \in Asg
      BY DEF SwitchSend, Tasks, TaskKinds, Asg, TypeInv, TypeOK, ApplyTyped,
             TodoPlanned, Members, Plans, Layouts
    <3>3. Assigned(n)
      BY <2>1, <2>2, <3>1, <3>2 DEF Assigned
    <3> QED BY <1>1, <1>4, <3>3, SendRoute DEF RouteInv
  <2>3. CASE ~Linked(n)
    <3>1. toNode'[n] = toNode[n]
      BY <2>1, <2>3 DEF Sent, Reaches, Linked
    <3> QED BY <1>1, <1>4, <2>3, <3>1, SendRoute DEF RouteInv, SentNothing
  <2> QED BY <2>2, <2>3
<1> QED BY <1>2, <1>3, <1>4

\* Every step keeps the chains, as long as replaced sockets do not linger.
LEMMA NextRoute == TypeInv /\ RouteInv /\ ~Linger /\ [Next]_vars => RouteInv'
<1> SUFFICES ASSUME TypeInv, RouteInv, ~Linger, [Next]_vars, NEW m \in Nodes
             PROVE  RouteOf(m)'
  BY DEF RouteInv
<1>1. CASE UNCHANGED vars
  BY <1>1, QuietRoute DEF vars, recordVars
<1>2. CASE \E n \in Nodes : NodeStep(n) \/ Drop(n) \/ FailLoad(n)
  <2> PICK n \in Nodes : NodeStep(n) \/ Drop(n) \/ FailLoad(n)
    BY <1>2
  <2>1. CASE TaskDone(n)
    BY <2>1, TaskDoneRoute, OthersStill, RouteStays DEF RouteInv
  <2>2. CASE ~TaskDone(n)
    BY <2>2, TasksDone, ConnectRoute, DisconnectRoute, ReceiveRoute, SkipRoute,
       StartLoadRoute DEF NodeStep, SeesClose, Drop
  <2> QED BY <2>1, <2>2
<1>3. CASE \E n \in Nodes, c \in Conns : HubHears(n, c)
  <2> PICK n \in Nodes, c \in Conns : HubHears(n, c)
    BY <1>3
  <2>1. CASE FrameHeard(n, c)
    BY <2>1, FrameHeardRoute, OthersStill, RouteStays DEF RouteInv
  <2>2. CASE ~FrameHeard(n, c)
    BY <2>2, FramesHeard, HubHelloRoute, HandlerEndsRoute DEF HubHears
  <2> QED BY <2>1, <2>2
<1>4. CASE \E n \in Nodes : StaleLeft(n)
  BY <1>4, StaleLeftRoute
<1>5. CASE \E n \in Nodes : HeartbeatLate(n) \/ Heartbeat(n) \/ Timeout(n)
  BY <1>5, QuietRoute DEF HeartbeatLate, Heartbeat, Timeout, recordVars
<1>6. CASE Begin \/ Finish
  BY <1>6, QuietRoute DEF Begin, Finish, recordVars
<1>7. CASE ReplanApplies \/ ReplanParks \/ ManualReplan \/ ManualApplies
  BY <1>7, ReplanRoute
<1>8. CASE EndPrefetch \/ \E n \in Nodes : SwitchSend(n)
  BY <1>8, EndPrefetchRoute, SwitchSendRoute
<1>9. CASE EndPrefetch2
  BY <1>9, QuietRoute DEF EndPrefetch2, StartDrain, Abandon, netVars
<1>10. CASE Drained \/ EndSwitch
  BY <1>10, QuietRoute DEF Drained, EndSwitch, recordVars
<1> QED
  BY <1>1, <1>2, <1>3, <1>4, <1>5, <1>6, <1>7, <1>8, <1>9, <1>10
     DEF Next, Rebalancing, ApplyStep

\* The chains hold throughout.
LEMMA RouteInvariant == ASSUME ~Linger PROVE Spec => []RouteInv
BY InitRoute, NextRoute, TypeInvariant, PTL DEF Spec

\* Where the hub routes on a wrong belief, the frames that will correct it are
\* on their way: whatever assigns, reconnects, early deadlines, failed loads and
\* plans cross, once nothing is under way the hub believes the truth.
THEOREM WrongBeliefsPass == ASSUME ~Linger PROVE Spec => []WrongBeliefIsTransient
<1>1. TypeInv /\ RouteInv => WrongBeliefIsTransient
  <2> SUFFICES ASSUME TypeInv, RouteInv, NEW n \in Nodes, Serves(n),
                      Reaches(n, ws[n]), ~UnderWay(n)
               PROVE  shard[n] = committed[n]
    BY DEF WrongBeliefIsTransient
  <2>1. Linked(n) /\ ready[n] /\ ws[n] # 0 /\ layers[n] = committed[n]
    BY DEF Reaches, Serves, Live, Linked
  <2>2. toNode[n] = <<>> /\ tasks[n] = <<>>
    BY <2>1 DEF UnderWay, Linked
  <2>3. toHub[n][conn[n]] = <<>>
    BY <2>1 DEF UnderWay, Linked, RouteInv, RouteOf, SocketOf, Socket
  <2>4. Chain(<<>>, <<>>, <<>>, pendingGen[n], shard[n], ready[n], layers[n])
    BY <2>1, <2>2, <2>3 DEF RouteInv, RouteOf, ChainOf
  <2> QED BY <2>1, <2>4, EmptyQueue DEF Chain
<1> QED BY <1>1, TypeInvariant, RouteInvariant, PTL

-----------------------------------------------------------------------------
(***************************************************************************)
(* RoutedHoldsRange needs more: that no answer comes before the one that    *)
(* counts.  A generation is sent to a node twice only after its first       *)
(* answer (_switch falls back once, with the same generation), so at most   *)
(* the newest frame of a chain carries the generation that would be         *)
(* believed.  That takes a node that does not reconnect inside a switch,    *)
(* and no answer later than the first switch waits: a late ready would wake *)
(* the waiter of the second round, whose key is the same.                   *)
(***************************************************************************)

Below(g) == {f \in Tasks \cup Answers : f.gen < g}

\* No assign and no answer to one is under way.
Clear(tn, tk, w) == Free(tn, Asg) /\ Free(tk, Asg) /\ Free(w, Ans)

\* All but the newest frame of the chain are of generations below pg, and the
\* hub believes the node ready only when the chain is clear.
Ordered(tn, tk, w, pg, rd) ==
  /\ AllBut(tn, Asg, Below(pg))
  /\ ~Free(tn, Asg) => AllIn(tk, Asg, Below(pg))
  /\ AllBut(tk, Asg, Below(pg))
  /\ ~Free(tn, Asg) \/ ~Free(tk, Asg) => AllIn(w, Ans, Below(pg))
  /\ AllBut(w, Ans, Below(pg))
  /\ rd => Clear(tn, tk, w)

\* An empty chain is ordered.
LEMMA OrderEmpty ==
  ASSUME NEW pg, NEW rd
  PROVE  Ordered(<<>>, <<>>, <<>>, pg, rd) /\ Clear(<<>>, <<>>, <<>>)
BY EmptyQueue DEF Ordered, Clear

\* The message loop takes a frame.
LEMMA OrderReceive ==
  ASSUME NEW tn \in Seq(ToNodeFrames), NEW tk \in Seq(Tasks), NEW w, NEW pg, NEW rd,
         Ordered(tn, tk, w, pg, rd), tn # <<>>, Head(tn) \in Tasks
  PROVE  /\ Ordered(Tail(tn), Append(tk, Head(tn)), w, pg, rd)
         /\ Clear(tn, tk, w) => Clear(Tail(tn), Append(tk, Head(tn)), w)
<1> DEFINE f == Head(tn)
           V == Below(pg)
<1>1. /\ Free(tn, Asg) <=> Free(Tail(tn), Asg) /\ f.t \notin Asg
      /\ AllBut(tn, Asg, V) => AllBut(Tail(tn), Asg, V)
      /\ AllBut(tn, Asg, V) /\ f.t \in Asg => f \in V \/ Free(Tail(tn), Asg)
  BY TakeHead
<1>2. CASE f.t \in Asg
  <2>1. /\ ~Free(Append(tk, f), Asg)
        /\ AllIn(tk, Asg, V) => AllBut(Append(tk, f), Asg, V)
        /\ AllIn(tk, Asg, V) /\ f \in V => AllIn(Append(tk, f), Asg, V)
    BY <1>2, AppendLast
  <2> HIDE DEF f, V
  <2> QED BY <1>1, <1>2, <2>1 DEF Ordered, Clear, V, f
<1>3. CASE f.t \notin Asg
  <2>1. /\ Free(tk, Asg) <=> Free(Append(tk, f), Asg)
        /\ AllIn(tk, Asg, V) => AllIn(Append(tk, f), Asg, V)
        /\ AllBut(tk, Asg, V) => AllBut(Append(tk, f), Asg, V)
    BY <1>3, AppendOther
  <2> HIDE DEF f, V
  <2> QED BY <1>1, <1>3, <2>1 DEF Ordered, Clear, V, f
<1> QED BY <1>2, <1>3

\* A task that is no assign ends.
LEMMA OrderOtherTask ==
  ASSUME NEW tn, NEW tk \in Seq(Tasks), NEW w \in Seq(ToHubFrames), NEW pg, NEW rd,
         Ordered(tn, tk, w, pg, rd), tk # <<>>, Head(tk).t \notin Asg,
         NEW f \in ToHubFrames, f.t \notin Ans
  PROVE  /\ Ordered(tn, Tail(tk), Append(w, f), pg, rd)
         /\ Clear(tn, tk, w) => Clear(tn, Tail(tk), Append(w, f))
<1> DEFINE V == Below(pg)
<1>1. /\ Free(tk, Asg) <=> Free(Tail(tk), Asg)
      /\ AllBut(tk, Asg, V) => AllBut(Tail(tk), Asg, V)
      /\ AllIn(tk, Asg, V) => AllIn(Tail(tk), Asg, V)
  BY TakeHead
<1>2. /\ Free(w, Ans) <=> Free(Append(w, f), Ans)
      /\ AllBut(w, Ans, V) => AllBut(Append(w, f), Ans, V)
      /\ AllIn(w, Ans, V) => AllIn(Append(w, f), Ans, V)
  BY AppendOther
<1> QED BY <1>1, <1>2 DEF Ordered, Clear

\* An assign is answered.
LEMMA OrderAnswer ==
  ASSUME NEW tn, NEW tk \in Seq(Tasks), NEW w \in Seq(ToHubFrames), NEW pg, NEW rd,
         Ordered(tn, tk, w, pg, rd), tk # <<>>, Head(tk).t \in Asg,
         NEW f \in Answers, f.t \in Ans, f.gen = Head(tk).gen
  PROVE  /\ Ordered(tn, Tail(tk), Append(w, f), pg, rd)
         /\ ~Clear(tn, tk, w)
<1> DEFINE V == Below(pg)
<1>1. /\ ~Free(tk, Asg)
      /\ AllBut(tk, Asg, V) => AllBut(Tail(tk), Asg, V)
      /\ AllIn(tk, Asg, V) => AllIn(Tail(tk), Asg, V)
      /\ AllBut(tk, Asg, V) => Head(tk) \in V \/ Free(Tail(tk), Asg)
      /\ AllIn(tk, Asg, V) => Head(tk) \in V
  BY TakeHead
<1>2. f \in ToHubFrames
  BY DEF ToHubFrames
<1>3. /\ AllIn(w, Ans, V) => AllBut(Append(w, f), Ans, V)
      /\ AllIn(w, Ans, V) /\ f \in V => AllIn(Append(w, f), Ans, V)
  BY <1>2, AppendLast
<1>4. Head(tk) \in V => f \in V
  BY DEF Below
<1> HIDE DEF V
<1> QED BY <1>1, <1>3, <1>4 DEF Ordered, Clear, V

\* A superseded assign is dropped.
LEMMA OrderSkip ==
  ASSUME NEW tn, NEW tk \in Seq(Tasks), NEW w, NEW pg, NEW rd,
         Ordered(tn, tk, w, pg, rd), tk # <<>>, ~Free(Tail(tk), Asg)
  PROVE  Ordered(tn, Tail(tk), w, pg, rd) /\ ~Clear(tn, tk, w)
<1>1. /\ ~Free(tk, Asg)
      /\ AllBut(tk, Asg, Below(pg)) => AllBut(Tail(tk), Asg, Below(pg))
      /\ AllIn(tk, Asg, Below(pg)) => AllIn(Tail(tk), Asg, Below(pg))
  BY TakeHead
<1> QED BY <1>1 DEF Ordered, Clear

\* The hub takes a frame that is no answer to an assign.
LEMMA OrderHeardOther ==
  ASSUME NEW tn, NEW tk, NEW w \in Seq(ToHubFrames), NEW pg, NEW rd,
         Ordered(tn, tk, w, pg, rd), w # <<>>, Head(w).t \notin Ans
  PROVE  /\ Ordered(tn, tk, Tail(w), pg, rd)
         /\ Clear(tn, tk, w) => Clear(tn, tk, Tail(w))
<1>1. /\ Free(w, Ans) <=> Free(Tail(w), Ans)
      /\ AllBut(w, Ans, Below(pg)) => AllBut(Tail(w), Ans, Below(pg))
      /\ AllIn(w, Ans, Below(pg)) => AllIn(Tail(w), Ans, Below(pg))
  BY TakeHead
<1> QED BY <1>1 DEF Ordered, Clear

\* The hub takes an answer: one of pg or newer was the last frame of the chain.
LEMMA OrderHeard ==
  ASSUME NEW tn, NEW tk, NEW w \in Seq(ToHubFrames), NEW pg \in Nat, NEW rd,
         Ordered(tn, tk, w, pg, rd), w # <<>>, Head(w).t \in Ans,
         NEW r, r => rd \/ Head(w).gen >= pg
  PROVE  /\ Ordered(tn, tk, Tail(w), pg, r)
         /\ Head(w).gen >= pg => Clear(tn, tk, Tail(w))
         /\ ~Clear(tn, tk, w)
<1> DEFINE V == Below(pg)
<1>1. /\ ~Free(w, Ans)
      /\ AllBut(w, Ans, V) => AllBut(Tail(w), Ans, V)
      /\ AllIn(w, Ans, V) => AllIn(Tail(w), Ans, V)
      /\ AllBut(w, Ans, V) => Head(w) \in V \/ Free(Tail(w), Ans)
      /\ AllIn(w, Ans, V) => Head(w) \in V
  BY TakeHead
<1>2. Head(w).gen >= pg => Head(w) \notin V
  BY DEF Below, Tasks, Answers
<1> HIDE DEF V
<1>3. Head(w).gen >= pg => Clear(tn, tk, Tail(w))
  BY <1>1, <1>2 DEF Ordered, Clear, V
<1>4. ~Clear(tn, tk, w) /\ ~rd
  BY <1>1 DEF Ordered, Clear
<1> QED BY <1>1, <1>3, <1>4 DEF Ordered, V

\* The hub sends an assign of a newer generation, or when nothing is under way.
LEMMA OrderSend ==
  ASSUME NEW tn \in Seq(ToNodeFrames), NEW tk, NEW w, NEW pg \in Nat, NEW sh, NEW rd,
         NEW ly, Chain(tn, tk, w, pg, sh, rd, ly), Ordered(tn, tk, w, pg, rd),
         NEW f \in Tasks, f.t = "assign", pg < f.gen \/ Clear(tn, tk, w)
  PROVE  Ordered(Append(tn, f), tk, w, f.gen, FALSE)
<1> DEFINE V == Below(f.gen)
<1>1. AllIn(tn, Asg, V) /\ AllIn(tk, Asg, V) /\ AllIn(w, Ans, V)
  <2>1. CASE Clear(tn, tk, w)
    BY <2>1, FreeQueue DEF Clear
  <2>2. CASE pg < f.gen
    <3>1. /\ Below(pg) \cup OfGen(pg) \subseteq V
          /\ Below(pg) \cup Truths(pg, sh) \subseteq V /\ Below(pg) \subseteq V
      BY <2>2 DEF Below, OfGen, Truths, Tasks, Answers
    <3> HIDE DEF V
    <3>2. AllIn(tn, Asg, V)
      <4>1. AllIn(tn, Asg, OfGen(pg) \cup Below(pg))
        BY LastAndOthers DEF Chain, Ordered
      <4> QED BY <3>1, <4>1, AllInLarger
    <3>3. AllIn(tk, Asg, V)
      <4>1. Free(tn, Asg) => AllIn(tk, Asg, OfGen(pg) \cup Below(pg))
        BY LastAndOthers DEF Chain, Ordered
      <4>2. ~Free(tn, Asg) => AllIn(tk, Asg, Below(pg))
        BY DEF Ordered
      <4> QED BY <3>1, <4>1, <4>2, AllInLarger
    <3>4. AllIn(w, Ans, V)
      <4>1. Free(tn, Asg) /\ Free(tk, Asg)
              => AllIn(w, Ans, Truths(pg, sh) \cup Below(pg))
        BY LastAndOthers DEF Chain, Ordered
      <4>2. ~(Free(tn, Asg) /\ Free(tk, Asg)) => AllIn(w, Ans, Below(pg))
        BY DEF Ordered
      <4> QED BY <3>1, <4>1, <4>2, AllInLarger
    <3> QED BY <3>2, <3>3, <3>4
  <2> QED BY <2>1, <2>2
<1>2. f \in ToNodeFrames /\ f.t \in Asg
  BY DEF ToNodeFrames, Asg
<1>3. AllBut(Append(tn, f), Asg, V)
  BY <1>1, <1>2, AppendLast
<1>4. AllBut(tk, Asg, V) /\ AllBut(w, Ans, V)
  BY <1>1 DEF AllIn, AllBut
<1> HIDE DEF V
<1> QED BY <1>1, <1>3, <1>4 DEF Ordered, V

\* The hub asks for a prefetch.
LEMMA OrderAsk ==
  ASSUME NEW tn \in Seq(ToNodeFrames), NEW tk, NEW w, NEW pg, NEW rd,
         Ordered(tn, tk, w, pg, rd), NEW f \in ToNodeFrames, f.t \notin Asg
  PROVE  /\ Ordered(Append(tn, f), tk, w, pg, rd)
         /\ Clear(tn, tk, w) => Clear(Append(tn, f), tk, w)
<1>1. /\ Free(tn, Asg) <=> Free(Append(tn, f), Asg)
      /\ AllBut(tn, Asg, Below(pg)) => AllBut(Append(tn, f), Asg, Below(pg))
  BY AppendOther
<1> QED BY <1>1 DEF Ordered, Clear

-----------------------------------------------------------------------------
(***************************************************************************)
(* The generations.                                                        *)
(***************************************************************************)

\* No assign is newer than the switch that runs, and those the first switch has
\* yet to send are newer than what the node was sent before.
GenOf(n) == /\ pendingGen[n] <= gen
            /\ phase = "switch" /\ n \in todo => pendingGen[n] < gen
GenInv == \A n \in Nodes : GenOf(n)

\* Steps that neither number a switch nor send an assign.
LEMMA GenStays ==
  ASSUME GenInv, UNCHANGED <<gen, pendingGen>>,
         phase' = "switch" => phase = "switch" /\ todo' = todo
  PROVE  GenInv'
BY DEF GenInv, GenOf

\* Generations only grow, and an assign carries the last one.
LEMMA NextGen == TypeInv /\ GenInv /\ ~RejoinMidSwitch /\ [Next]_vars => GenInv'
<1> SUFFICES ASSUME TypeInv, GenInv, ~RejoinMidSwitch, [Next]_vars PROVE GenInv'
  OBVIOUS
<1>0. gen \in Nat /\ \A n \in Nodes : pendingGen[n] \in Nat
  BY DEF TypeInv, TypeOK, ApplyTyped, RecordsTyped
<1>1. CASE UNCHANGED vars
  BY <1>1, GenStays DEF vars, recordVars, applyVars
<1>2. CASE \E n \in Nodes : NodeStep(n) \/ Drop(n) \/ FailLoad(n)
  BY <1>2, GenStays DEF NodeStep, Drop, SeesClose, Disconnect, Connect, Receive,
     SkipAssign, KeepShard, StartLoad, FinishLoad, FailLoad, Prefetch, recordVars,
     applyVars
<1>3. CASE \E n \in Nodes, c \in Conns : HubHello(n, c)
  <2> PICK n \in Nodes, c \in Conns : HubHello(n, c)
    BY <1>3
  <2>1. phase' = phase /\ gen' = gen /\ phase # "switch"
    BY DEF HubHello, Switching, applyVars
  <2>2. \A m \in Nodes : pendingGen'[m] \in {pendingGen[m], gen}
    BY DEF HubHello, TypeInv, TypeOK, RecordsTyped
  <2> QED BY <1>0, <2>1, <2>2 DEF GenInv, GenOf
<1>4. CASE \E n \in Nodes, c \in Conns : \/ HubReady(n, c) \/ HubError(n, c)
                                         \/ HubPrefetched(n, c) \/ HandlerEnds(n, c)
  BY <1>4, GenStays DEF HubReady, HubError, HubPrefetched, HandlerEnds, recordVars
<1>5. CASE \E n \in Nodes :
             StaleLeft(n) \/ HeartbeatLate(n) \/ Heartbeat(n) \/ Timeout(n)
  BY <1>5, GenStays DEF StaleLeft, HeartbeatLate, Heartbeat, Timeout, recordVars,
     applyVars
<1>6. CASE Begin \/ Finish
  BY <1>6, GenStays DEF Begin, Finish, recordVars, applyVars
<1>7. CASE ReplanApplies \/ ReplanParks \/ ManualReplan \/ ManualApplies
  BY <1>7, GenStays DEF ReplanApplies, ReplanParks, ManualReplan, ManualApplies,
     StartApply, applyVars
<1>8. CASE EndPrefetch \/ EndPrefetch2 \/ EndSwitch
  BY <1>8, GenStays DEF EndPrefetch, EndPrefetch2, EndSwitch, StartDrain, Abandon,
     Commit
<1>9. CASE Drained
  BY <1>0, <1>9 DEF Drained, GenInv, GenOf, recordVars
<1>10. CASE \E n \in Nodes : SwitchSend(n)
  <2> PICK n \in Nodes : SwitchSend(n)
    BY <1>10
  <2>1. phase' = phase /\ gen' = gen /\ todo' = todo \ {n}
    BY DEF SwitchSend
  <2>2. \A m \in Nodes : pendingGen'[m] = pendingGen[m] \/ (m = n /\ pendingGen'[m] = gen)
    BY DEF SwitchSend, TypeInv, TypeOK, RecordsTyped
  <2> QED BY <1>0, <2>1, <2>2 DEF GenInv, GenOf
<1> QED
  BY <1>1, <1>2, <1>3, <1>4, <1>5, <1>6, <1>7, <1>8, <1>9, <1>10
     DEF Next, Rebalancing, HubHears, ApplyStep

-----------------------------------------------------------------------------
(***************************************************************************)
(* The order of the chains.                                                *)
(***************************************************************************)

OrderOf(n) == Ordered(toNode[n], tasks[n], toHub[n][conn[n]], pendingGen[n], ready[n])
ClearOf(n) == Clear(toNode[n], tasks[n], toHub[n][conn[n]])

\* The switch has n's answer, or the fallback is about to send it an assign of
\* the generation it was sent before.
Settled(n) ==
  /\ pendingGen[n] = gen
  /\ \/ phase = "switch" /\ n \notin todo /\ wait[n] # "wait"
     \/ phase = "switch2" /\ n \in todo

LinkOf(n) == Linked(n) => OrderOf(n) /\ (Settled(n) => ClearOf(n))
LinkInv   == \A n \in Nodes : LinkOf(n)

\* Nothing else is assumed of the network or the nodes.
Prompt == ~Linger /\ ~RejoinMidSwitch /\ ~LateAnswers

StrictInv == TypeInv /\ RouteInv /\ GenInv /\ LinkInv

\* A node none of whose state changes, unless it is settled by the step.
LEMMA LinkStays ==
  ASSUME LinkInv, NEW n \in Nodes, Still(n), Settled(n)' => Settled(n)
  PROVE  LinkOf(n)'
BY DEF LinkInv, LinkOf, Linked, OrderOf, ClearOf, Still, SocketsStay, BeliefsStay

\* Settled is about apply_plan alone.
LEMMA SettledStays ==
  ASSUME NEW n \in Nodes, pendingGen'[n] = pendingGen[n], wait'[n] = wait[n],
         UNCHANGED <<gen, phase, todo>>
  PROVE  Settled(n)' <=> Settled(n)
BY DEF Settled

\* The node's steps keep the chains in order.
LEMMA NodeLink ==
  ASSUME StrictInv, NEW n \in Nodes, NodeStep(n) \/ Drop(n) \/ FailLoad(n),
         NEW m \in Nodes
  PROVE  LinkOf(m)'
<1> USE DEF StrictInv
<1>1. UNCHANGED <<recordVars, applyVars>>
  BY DEF NodeStep, Drop, SeesClose, Disconnect, Connect, Receive, SkipAssign,
     KeepShard, StartLoad, FinishLoad, FailLoad, Prefetch
<1>2. \/ Connect(n) \/ \E k : Disconnect(n, k)
      \/ Receive(n) \/ SkipAssign(n) \/ StartLoad(n) \/ TaskDone(n)
  BY TasksDone DEF NodeStep, SeesClose, Drop
<1>3. Settled(m)' <=> Settled(m)
  BY <1>1, SettledStays DEF recordVars, applyVars
<1>4. CASE m # n
  BY <1>2, <1>3, <1>4, OthersStill, LinkStays
<1>5. CASE m = n
  <2>0. /\ ready'[n] = ready[n] /\ pendingGen'[n] = pendingGen[n] /\ ws'[n] = ws[n]
        /\ toNode[n] \in Seq(ToNodeFrames) /\ tasks[n] \in Seq(Tasks)
        /\ SocketOf(n) /\ LinkOf(n)
    BY <1>1, RouteTypes DEF recordVars, RouteInv, RouteOf, LinkInv
  <2>1. CASE Connect(n) \/ \E k : Disconnect(n, k)
    <3>1. Connect(n) => conn'[n] = conn[n] + 1 /\ ws[n] \in 0 .. conn[n] /\ conn[n] \in Nat
      BY <2>0, RouteTypes DEF Connect, SocketOf, Socket, TypeInv, TypeOK, NodesTyped
    <3>2. (\E k : Disconnect(n, k)) => ~up'[n]
      BY DEF Disconnect, TypeInv, TypeOK, NodesTyped
    <3> QED BY <1>5, <2>0, <2>1, <3>1, <3>2 DEF LinkOf, Linked
  <2>2. CASE Receive(n)
    <3>1. toNode[n] # <<>> /\ Head(toNode[n]) \in Tasks
      BY <2>0, <2>2, TaskFrames DEF Receive
    <3>2. /\ tasks'[n] = Append(tasks[n], Head(toNode[n])) /\ toNode'[n] = Tail(toNode[n])
          /\ UNCHANGED <<conn, up, toHub>>
      BY <2>2 DEF Receive, TypeInv, TypeOK, NodesTyped, NetTyped
    <3>3. OrderOf(n) => OrderOf(n)' /\ (ClearOf(n) => ClearOf(n)')
      BY <2>0, <3>1, <3>2, OrderReceive DEF OrderOf, ClearOf
    <3> QED BY <1>3, <1>5, <2>0, <3>2, <3>3 DEF LinkOf, Linked
  <2>3. CASE SkipAssign(n)
    <3>1. tasks[n] # <<>> /\ ~Free(Tail(tasks[n]), Asg)
      <4>1. tasks[n] # <<>>
        BY <2>3 DEF SkipAssign, HeadIs
      <4>2. PICK i \in 2 .. Len(tasks[n]) : tasks[n][i].t = "assign"
        BY <2>3 DEF SkipAssign, Superseded
      <4>3. i - 1 \in DOMAIN Tail(tasks[n]) /\ Tail(tasks[n])[i - 1] = tasks[n][i]
        BY <2>0, <4>1, <4>2, Shifted
      <4> QED BY <4>1, <4>2, <4>3 DEF Free, Asg
    <3>2. tasks'[n] = Tail(tasks[n]) /\ UNCHANGED <<conn, up, toNode, toHub>>
      BY <2>3 DEF SkipAssign, netVars, TypeInv, TypeOK, NodesTyped
    <3>3. OrderOf(n) => OrderOf(n)' /\ ~ClearOf(n)
      BY <2>0, <3>1, <3>2, OrderSkip DEF OrderOf, ClearOf
    <3> QED BY <1>3, <1>5, <2>0, <3>2, <3>3 DEF LinkOf, Linked
  <2>4. CASE StartLoad(n)
    BY <1>3, <1>5, <2>0, <2>4
       DEF StartLoad, netVars, LinkOf, Linked, OrderOf, ClearOf
  <2>5. CASE TaskDone(n)
    <3>1. PICK f \in ToHubFrames :
            /\ Says(n, f)
            /\ \/ Head(tasks[n]).t \notin Asg /\ f.t \notin Ans
               \/ /\ Head(tasks[n]).t \in Asg /\ f.t \in Ans
                  /\ f.gen = Head(tasks[n]).gen
      BY <2>5 DEF TaskDone
    <3> DEFINE W == toHub[n][conn[n]]
    <3>2. /\ tasks[n] # <<>> /\ tasks'[n] = Tail(tasks[n])
          /\ UNCHANGED <<conn, up, toNode>>
      BY <2>5 DEF TaskDone, TypeInv, TypeOK, NodesTyped
    <3>3. W \in Seq(ToHubFrames) /\ toHub'[n][conn[n]] = Append(W, f)
      <4>1. conn[n] \in Conns
        BY <2>0, <3>2, WorkersAreUp
      <4>2. W \in Seq(ToHubFrames)
        BY <4>1, RouteTypes
      <4>3. toHub'[n][conn[n]] = Append(W, f)
        BY <3>1, <4>1, SaysToOne
      <4> QED BY <4>2, <4>3
    <3> HIDE DEF W
    <3>4. OrderOf(n) => OrderOf(n)' /\ (ClearOf(n) => ClearOf(n)')
      <4>1. OrderOf(n) <=> Ordered(toNode[n], tasks[n], W, pendingGen[n], ready[n])
        BY DEF OrderOf, W
      <4>2. OrderOf(n)' <=> Ordered(toNode[n], Tail(tasks[n]), Append(W, f),
                                    pendingGen[n], ready[n])
        BY <2>0, <3>2, <3>3 DEF OrderOf
      <4>3. /\ ClearOf(n) <=> Clear(toNode[n], tasks[n], W)
            /\ ClearOf(n)' <=> Clear(toNode[n], Tail(tasks[n]), Append(W, f))
        BY <3>2, <3>3 DEF ClearOf, W
      <4>4. CASE Head(tasks[n]).t \notin Asg /\ f.t \notin Ans
        BY <2>0, <3>2, <3>3, <4>1, <4>2, <4>3, <4>4, OrderOtherTask
      <4>5. CASE /\ Head(tasks[n]).t \in Asg /\ f.t \in Ans
                 /\ f.gen = Head(tasks[n]).gen
        <5>1. f \in Answers
          BY <4>5, AnswerFrames DEF Ans, AnswerKinds
        <5> QED BY <2>0, <3>2, <3>3, <4>1, <4>2, <4>3, <4>5, <5>1, OrderAnswer
      <4> QED BY <3>1, <4>4, <4>5
    <3> QED BY <1>3, <1>5, <2>0, <3>2, <3>4 DEF LinkOf, Linked
  <2> QED BY <1>2, <2>1, <2>2, <2>3, <2>4, <2>5
<1> QED BY <1>4, <1>5

\* An answer wakes a waiter, or is believed, only if it is the last of its chain.
LEMMA FrameHeardLink ==
  ASSUME StrictInv, NEW n \in Nodes, NEW c \in Conns, FrameHeard(n, c),
         NEW m \in Nodes
  PROVE  LinkOf(m)'
<1> USE DEF StrictInv
<1>1. CASE m # n
  <2>1. Settled(m)' <=> Settled(m)
    BY <1>1, SettledStays DEF FrameHeard
  <2> QED BY <1>1, <2>1, OthersStill, LinkStays
<1>2. CASE m = n
  <2> DEFINE W == toHub[n][c]
             f == Head(W)
  <2> SUFFICES ASSUME Linked(n)' PROVE OrderOf(n)' /\ (Settled(n)' => ClearOf(n)')
    BY <1>2 DEF LinkOf
  <2>1. /\ UNCHANGED <<pendingGen, gen, phase, todo, tasks, toNode, conn>>
        /\ Linked(n) /\ RouteOf(n) /\ LinkOf(n) /\ W # <<>> /\ W \in Seq(ToHubFrames)
        /\ pendingGen[n] \in Nat /\ pendingGen[n] <= gen /\ gen \in Nat
    BY RouteTypes DEF FrameHeard, nodeVars, Linked, RouteInv, LinkInv, GenInv, GenOf,
                      TypeInv, TypeOK, ApplyTyped
  <2>2. c = conn[n]
    BY <2>1, HeardOnLink
  <2>3. toHub'[n][conn'[n]] = Tail(W)
    BY <2>1, <2>2, TakeFromOne DEF FrameHeard
  <2>4. Ordered(toNode[n], tasks[n], W, pendingGen[n], ready[n])
        /\ (Settled(n) => Clear(toNode[n], tasks[n], W))
    BY <2>1, <2>2 DEF LinkOf, OrderOf, ClearOf
  <2>5. /\ OrderOf(n)' <=> Ordered(toNode[n], tasks[n], Tail(W), pendingGen[n], ready'[n])
        /\ ClearOf(n)' <=> Clear(toNode[n], tasks[n], Tail(W))
    BY <2>1, <2>3 DEF OrderOf, ClearOf
  <2>6. wait'[n] = wait[n] \/ phase \in Prefetching \/ (f.t \in Ans /\ f.gen = gen)
    BY DEF FrameHeard
  <2>7. wait'[n] = wait[n] => (Settled(n)' <=> Settled(n))
    BY <2>1, SettledStays
  <2>8. phase \in Prefetching => ~Settled(n)'
    BY <2>1 DEF Prefetching, Settled
  <2>9. \/ f.t \notin Ans /\ ready'[n] = ready[n]
        \/ f.t \in Ans /\ (ready'[n] => ready[n] \/ f.gen \in {pendingGen[n], gen})
    BY DEF FrameHeard
  <2> HIDE DEF W
  <2>10. CASE f.t \notin Ans /\ ready'[n] = ready[n]
    BY <2>1, <2>4, <2>5, <2>6, <2>7, <2>8, <2>10, OrderHeardOther
  <2>11. CASE f.t \in Ans /\ (ready'[n] => ready[n] \/ f.gen \in {pendingGen[n], gen})
    <3>1. ready'[n] => ready[n] \/ f.gen >= pendingGen[n]
      BY <2>1, <2>11
    <3>2. /\ Ordered(toNode[n], tasks[n], Tail(W), pendingGen[n], ready'[n])
          /\ f.gen >= pendingGen[n] => Clear(toNode[n], tasks[n], Tail(W))
          /\ ~Clear(toNode[n], tasks[n], W)
      BY <2>1, <2>4, <2>11, <3>1, OrderHeard
    <3>3. f.gen = gen => f.gen >= pendingGen[n]
      BY <2>1
    <3> HIDE DEF f
    <3> QED BY <2>4, <2>5, <2>6, <2>7, <2>8, <3>2, <3>3
  <2> QED BY <2>9, <2>10, <2>11
<1> QED BY <1>1, <1>2

\* A hello comes outside a switch, and starts a chain.
LEMMA HubHelloLink ==
  ASSUME StrictInv, Prompt, NEW n \in Nodes, NEW c \in Conns, HubHello(n, c),
         NEW m \in Nodes
  PROVE  LinkOf(m)'
<1> USE DEF StrictInv
<1>0. ~Settled(m)'
  BY DEF Prompt, HubHello, Settled, Switching, applyVars
<1>1. CASE m # n
  BY <1>0, <1>1, OthersStill, LinkStays
<1>2. CASE m = n
  <2> SUFFICES ASSUME Linked(n)' PROVE OrderOf(n)'
    BY <1>0, <1>2 DEF LinkOf
  <2>1. up[n] /\ c = conn[n] /\ conn[n] \in Conns /\ UNCHANGED nodeVars
    <3>1. ws'[n] = c
      BY DEF HubHello, TypeInv, TypeOK, RecordsTyped
    <3> QED BY <3>1, OnAConnection DEF HubHello, Linked, nodeVars, RouteInv, RouteOf
  <2>2. tasks'[n] = <<>> /\ ready'[n] = FALSE /\ toHub'[n][conn'[n]] = <<>>
    BY <2>1, HelloLinks DEF Prompt, nodeVars
  <2>3. CASE toNode'[n] = <<>>
    BY <2>2, <2>3, OrderEmpty DEF OrderOf
  <2>4. CASE \E f \in Tasks : /\ f.t = "assign" /\ pendingGen'[n] = f.gen
                              /\ toNode'[n] = Append(<<>>, f)
    <3> PICK f \in Tasks : /\ f.t = "assign" /\ pendingGen'[n] = f.gen
                           /\ toNode'[n] = Append(<<>>, f)
      BY <2>4
    <3> DEFINE e == <<>>
    <3>1. e \in Seq(ToNodeFrames) /\ Chain(e, e, e, 0, 0, FALSE, 0)
          /\ Ordered(e, e, e, 0, FALSE) /\ Clear(e, e, e)
      <4>1. e \in Seq(ToNodeFrames)
        OBVIOUS
      <4>2. Chain(e, e, e, 0, 0, FALSE, 0)
        BY ChainEmpty
      <4>3. Ordered(e, e, e, 0, FALSE) /\ Clear(e, e, e)
        BY OrderEmpty
      <4> QED BY <4>1, <4>2, <4>3
    <3> HIDE DEF e
    <3>2. Ordered(Append(e, f), e, e, f.gen, FALSE)
      BY <3>1, OrderSend
    <3> QED BY <2>2, <3>2 DEF OrderOf, e
  <2> QED BY <2>1, <2>3, <2>4, HelloLinks DEF Prompt
<1> QED BY <1>1, <1>2

\* A socket lost is one the node's chain was not on, or the chain is gone.
LEMMA SocketsLostLink ==
  ASSUME StrictInv, Prompt, NEW n \in Nodes,
         StaleLeft(n) \/ \E c \in Conns : HandlerEnds(n, c),
         NEW m \in Nodes
  PROVE  LinkOf(m)'
<1> USE DEF StrictInv
<1>0. UNCHANGED <<pendingGen, gen, phase, todo, nodeVars, toNode>>
  BY DEF StaleLeft, HandlerEnds
<1>1. CASE m # n
  <2>1. wait'[m] = wait[m]
    BY <1>1 DEF StaleLeft, HandlerEnds, Left, TypeInv, TypeOK, ApplyTyped
  <2>2. Settled(m)' <=> Settled(m)
    BY <1>0, <2>1, SettledStays
  <2> QED BY <1>1, <2>2, OthersStill, LinkStays
<1>2. CASE m = n
  <2> SUFFICES ASSUME Linked(n)' PROVE OrderOf(n)' /\ (Settled(n)' => ClearOf(n)')
    BY <1>2 DEF LinkOf
  <2>1. conn[n] \in Conns /\ conn[n] # 0 /\ up[n]
    BY <1>0, OnAConnection DEF Linked, nodeVars, RouteInv, RouteOf, SocketOf, Socket
  <2>2. ~StaleLeft(n)
    BY <1>0, <2>1 DEF StaleLeft, Left, Linked, nodeVars, TypeInv, TypeOK, RecordsTyped
  <2>3. PICK c \in Conns : HandlerEnds(n, c)
    BY <2>2
  <2>4. ws[n] # c /\ UNCHANGED <<ws, ready, wait>>
    BY <1>0, <2>1, <2>3 DEF HandlerEnds, Left, Linked, nodeVars, TypeInv, TypeOK,
                            RecordsTyped
  <2>5. Linked(n) /\ c # conn[n]
    BY <1>0, <2>4 DEF Linked, nodeVars
  <2>6. toHub'[n][conn[n]] = toHub[n][conn[n]]
    BY <2>1, <2>3, <2>5 DEF HandlerEnds, TypeInv, TypeOK, NetTyped
  <2>7. Settled(n)' <=> Settled(n)
    BY <1>0, <2>4, SettledStays
  <2> QED BY <1>0, <2>4, <2>5, <2>6, <2>7
          DEF LinkInv, LinkOf, OrderOf, ClearOf, nodeVars
<1> QED BY <1>1, <1>2

\* A deadline of the first switch runs out when nothing of the node is under way.
LEMMA TimeoutLink ==
  ASSUME StrictInv, Prompt, NEW n \in Nodes, Timeout(n), NEW m \in Nodes
  PROVE  LinkOf(m)'
<1> USE DEF StrictInv
<1>0. Still(m) /\ UNCHANGED <<pendingGen, gen, phase, todo>>
  BY DEF Timeout, Still, SocketsStay, BeliefsStay, recordVars, nodeVars, netVars
<1>1. CASE m # n
  <2>1. wait'[m] = wait[m]
    BY <1>1 DEF Timeout, TypeInv, TypeOK, ApplyTyped
  <2> QED BY <1>0, <2>1, SettledStays, LinkStays
<1>2. CASE m = n
  <2>1. CASE phase = "switch"
    <3> SUFFICES ASSUME Linked(n) PROVE ClearOf(n)
      BY <1>0, <1>2 DEF LinkInv, LinkOf, Linked, OrderOf, ClearOf, Still, SocketsStay,
                        BeliefsStay
    <3>1. ~UnderWay(n)
      BY <2>1 DEF Timeout, Prompt
    <3>2. toNode[n] = <<>> /\ tasks[n] = <<>> /\ toHub[n][conn[n]] = <<>>
      BY <3>1 DEF UnderWay, Linked, RouteInv, RouteOf, SocketOf, Socket
    <3> QED BY <3>2, EmptyQueue DEF ClearOf, Clear
  <2>2. CASE phase # "switch"
    <3>1. ~Settled(n)'
      BY <1>0, <2>2 DEF Settled, Timeout, Switching
    <3> QED BY <1>0, <1>2, <3>1, LinkStays
  <2> QED BY <2>1, <2>2
<1> QED BY <1>1, <1>2

\* Members are asked to prefetch, outside a switch.
LEMMA PrefetchForLink ==
  ASSUME StrictInv, NEW p \in Plans, NEW S \in SUBSET Members(p.at),
         PrefetchFor(p, S), phase' \in Prefetching,
         UNCHANGED <<ws, ready, layers, pendingGen, nodeVars, toHub, open>>,
         NEW m \in Nodes
  PROVE  LinkOf(m)'
<1> USE DEF StrictInv
<1> DEFINE f == [t |-> "prefetch", range |-> p.at[m], gen |-> gen + 1]
           asked == m \in Unfetched(S, p.at) /\ Reaches(m, ws[m])
<1>0. ~Settled(m)'
  BY DEF Settled, Prefetching
<1>1. toNode'[m] = IF asked THEN Append(toNode[m], f) ELSE toNode[m]
  BY DEF PrefetchFor
<1>2. CASE asked
  <2>1. f \in Tasks /\ f.t \notin Asg
    BY <1>2 DEF Tasks, TaskKinds, Asg, Unfetched, Members, Plans, Layouts, TypeInv,
                TypeOK, ApplyTyped
  <2>2. f \in ToNodeFrames /\ toNode[m] \in Seq(ToNodeFrames) /\ LinkOf(m)
    BY <2>1, RouteTypes DEF ToNodeFrames, LinkInv
  <2>3. UNCHANGED <<conn, up, ws, tasks, toHub, pendingGen, ready>>
    BY DEF nodeVars
  <2> HIDE DEF f
  <2>4. OrderOf(m) => OrderOf(m)'
    BY <1>1, <1>2, <2>1, <2>2, <2>3, OrderAsk DEF OrderOf
  <2> QED BY <1>0, <2>2, <2>3, <2>4 DEF LinkOf, Linked
<1>3. CASE ~asked
  <2>1. Still(m)
    BY <1>1, <1>3 DEF Still, SocketsStay, BeliefsStay, nodeVars
  <2> QED BY <1>0, <2>1, LinkStays
<1> QED BY <1>2, <1>3

\* apply_plan begins, or is waited for, or parks.
LEMMA ReplanLink ==
  ASSUME StrictInv, NEW m \in Nodes,
         ReplanApplies \/ ReplanParks \/ ManualReplan \/ ManualApplies
  PROVE  LinkOf(m)'
<1> USE DEF StrictInv
<1>1. ASSUME NEW p \in Plans, StartApply(p) PROVE LinkOf(m)'
  <2>1. Changed(p.at) \in SUBSET Members(p.at)
    BY ChangedAreMembers
  <2> QED BY <1>1, <2>1, PrefetchForLink DEF StartApply, Prefetching
<1>2. CASE ReplanApplies
  <2>1. PICK A \in ComputePlan({}) : StartApply([at |-> A, known |-> Known])
    BY <1>2 DEF ReplanApplies
  <2>2. [at |-> A, known |-> Known] \in Plans
    BY ComputePlanTiles, PlanTyped
  <2> QED BY <1>1, <2>1, <2>2
<1>3. CASE ManualApplies
  BY <1>1, <1>3 DEF ManualApplies, TypeInv, TypeOK, ApplyTyped
<1>4. CASE ReplanParks \/ ManualReplan
  <2>1. Still(m) /\ wait' = wait /\ UNCHANGED <<pendingGen, gen, phase, todo>>
    BY <1>4 DEF ReplanParks, ManualReplan, Still, SocketsStay, BeliefsStay, nodeVars,
                netVars, applyVars
  <2> QED BY <2>1, SettledStays, LinkStays
<1> QED BY <1>2, <1>3, <1>4

\* The rounds of phase 1 end outside a switch.
LEMMA EndPrefetchesLink ==
  ASSUME StrictInv, EndPrefetch \/ EndPrefetch2, NEW m \in Nodes
  PROVE  LinkOf(m)'
<1> USE DEF StrictInv
<1>1. UNCHANGED <<ws, ready, layers, pendingGen, nodeVars, toHub, open>>
  BY DEF EndPrefetch, EndPrefetch2
<1>2. CASE phase' \in {"drain", "idle"} /\ toNode' = toNode
  <2>1. ~Settled(m)'
    BY <1>2 DEF Settled
  <2>2. Still(m)
    BY <1>1, <1>2 DEF Still, SocketsStay, BeliefsStay, nodeVars
  <2> QED BY <2>1, <2>2, LinkStays
<1>3. CASE phase' = "prefetch2" /\ EndPrefetch
  <2>1. PICK X : \E A \in ComputePlan(X) :
          PrefetchFor([at |-> A, known |-> Known], {n \in Changed(A) : ws[n] # 0})
    BY <1>3 DEF EndPrefetch, StartDrain, Abandon
  <2> PICK A \in ComputePlan(X) :
          PrefetchFor([at |-> A, known |-> Known], {n \in Changed(A) : ws[n] # 0})
    BY <2>1
  <2>2. [at |-> A, known |-> Known] \in Plans
    BY ComputePlanTiles, PlanTyped
  <2>3. {n \in Changed(A) : ws[n] # 0} \in SUBSET Members(A)
    BY ChangedAreMembers
  <2> QED BY <1>1, <1>3, <2>2, <2>3, PrefetchForLink DEF Prefetching
<1> QED BY <1>2, <1>3 DEF EndPrefetch, EndPrefetch2, StartDrain, Abandon

\* A new generation settles nobody.
LEMMA DrainedLink ==
  ASSUME StrictInv, Drained, NEW m \in Nodes
  PROVE  LinkOf(m)'
<1> USE DEF StrictInv
<1>1. Still(m)
  BY DEF Drained, Still, SocketsStay, BeliefsStay, recordVars, nodeVars, netVars
<1>2. pendingGen'[m] = pendingGen[m] /\ pendingGen[m] <= gen /\ gen \in Nat
      /\ pendingGen[m] \in Nat /\ gen' = gen + 1
  BY DEF Drained, recordVars, GenInv, GenOf, TypeInv, TypeOK, ApplyTyped, RecordsTyped
<1>3. ~Settled(m)'
  BY <1>2 DEF Settled
<1> QED BY <1>1, <1>3, LinkStays

\* An assign is sent over an older chain, or over none.
LEMMA SwitchSendLink ==
  ASSUME StrictInv, NEW n \in Nodes, SwitchSend(n), NEW m \in Nodes
  PROVE  LinkOf(m)'
<1> USE DEF StrictInv
<1>0. UNCHANGED <<ws, gen, phase, nodeVars, toHub, open>> /\ todo' = todo \ {n}
  BY DEF SwitchSend
<1>1. CASE m # n
  <2>1. wait'[m] = wait[m] /\ pendingGen'[m] = pendingGen[m]
    BY <1>1 DEF SwitchSend, TypeInv, TypeOK, ApplyTyped, RecordsTyped
  <2>2. Settled(m)' <=> Settled(m)
    BY <1>0, <1>1, <2>1 DEF Settled
  <2> QED BY <1>1, <2>2, OthersStill, LinkStays
<1>2. CASE m = n
  <2> DEFINE f == [t |-> "assign", range |-> plan.at[n], gen |-> gen]
  <2> SUFFICES ASSUME Linked(n)' PROVE OrderOf(n)' /\ (Settled(n)' => ClearOf(n)')
    BY <1>2 DEF LinkOf
  <2>1. Linked(n) /\ conn[n] \in Conns /\ ws[n] # 0 /\ Reaches(n, ws[n])
    BY <1>0, OnAConnection
       DEF Linked, Reaches, nodeVars, RouteInv, RouteOf, SocketOf, Socket
  <2>2. /\ ready'[n] = FALSE /\ pendingGen'[n] = gen /\ wait'[n] = "wait"
        /\ toNode' = Sent(n, ws[n], f)
    BY <2>1 DEF SwitchSend, TypeInv, TypeOK, ApplyTyped, RecordsTyped
  <2>3. ~Settled(n)'
    BY <1>0, <2>2 DEF Settled
  <2>4. pendingGen[n] < gen \/ ClearOf(n)
    <3>1. CASE phase = "switch"
      BY <3>1 DEF SwitchSend, GenInv, GenOf
    <3>2. CASE phase = "switch2"
      <4>1. pendingGen[n] < gen \/ pendingGen[n] = gen
        BY DEF GenInv, GenOf, TypeInv, TypeOK, ApplyTyped, RecordsTyped
      <4>2. pendingGen[n] = gen => Settled(n)
        BY <3>2 DEF SwitchSend, Settled
      <4> QED BY <2>1, <4>1, <4>2 DEF LinkInv, LinkOf
    <3> QED BY <3>1, <3>2 DEF SwitchSend, Switching
  <2>5. f \in Tasks /\ f.t = "assign" /\ f.gen = gen
    BY DEF SwitchSend, Tasks, TaskKinds, TypeInv, TypeOK, ApplyTyped, TodoPlanned,
           Members, Plans, Layouts
  <2>6. toNode'[n] = Append(toNode[n], f)
    BY <2>1, <2>2 DEF Sent, TypeInv, TypeOK, NetTyped
  <2> HIDE DEF f
  <2>7. /\ Chain(toNode[n], tasks[n], toHub[n][conn[n]], pendingGen[n], shard[n],
                 ready[n], layers[n])
        /\ Ordered(toNode[n], tasks[n], toHub[n][conn[n]], pendingGen[n], ready[n])
        /\ pendingGen[n] < f.gen \/ Clear(toNode[n], tasks[n], toHub[n][conn[n]])
        /\ toNode[n] \in Seq(ToNodeFrames) /\ pendingGen[n] \in Nat
    BY <2>1, <2>4, <2>5, RouteTypes
       DEF RouteInv, RouteOf, ChainOf, LinkInv, LinkOf, OrderOf, ClearOf
  <2>8. Ordered(Append(toNode[n], f), tasks[n], toHub[n][conn[n]], gen, FALSE)
    BY <2>5, <2>7, OrderSend
  <2> QED BY <1>0, <2>2, <2>3, <2>6, <2>8 DEF OrderOf, nodeVars
<1> QED BY <1>1, <1>2

\* The fallback is sent once every member has answered or failed.
LEMMA EndSwitchLink ==
  ASSUME StrictInv, EndSwitch, NEW m \in Nodes
  PROVE  LinkOf(m)'
<1> USE DEF StrictInv
<1>1. Still(m) /\ gen' = gen /\ pendingGen' = pendingGen
  BY DEF EndSwitch, Still, SocketsStay, BeliefsStay, nodeVars, netVars
<1>2. Settled(m)' => Settled(m)
  <2>1. CASE phase' = "idle"
    BY <2>1 DEF Settled
  <2>2. CASE phase = "switch" /\ todo = {} /\ Waiting = {}
    BY <1>1, <2>2 DEF Settled, Waiting
  <2> QED BY <2>1, <2>2 DEF EndSwitch, Commit
<1> QED BY <1>1, <1>2, LinkStays

\* Every step keeps the chains in order.
LEMMA NextLink == StrictInv /\ Prompt /\ [Next]_vars => LinkInv'
<1> SUFFICES ASSUME StrictInv, Prompt, [Next]_vars, NEW m \in Nodes PROVE LinkOf(m)'
  BY DEF LinkInv
<1>0. /\ UNCHANGED <<recordVars, gen, phase, todo, wait, nodeVars, netVars>> => LinkOf(m)'
      /\ UNCHANGED <<ws, ready, layers, pendingGen, gen, phase, todo, wait, nodeVars,
                     netVars>> => LinkOf(m)'
  BY SettledStays, LinkStays DEF StrictInv, Still, SocketsStay, BeliefsStay,
     recordVars, nodeVars, netVars
<1>1. CASE UNCHANGED vars
  BY <1>0, <1>1 DEF vars, applyVars
<1>2. CASE \E n \in Nodes : NodeStep(n) \/ Drop(n) \/ FailLoad(n)
  BY <1>2, NodeLink
<1>3. CASE \E n \in Nodes, c \in Conns : HubHears(n, c)
  BY <1>3, FramesHeard, FrameHeardLink, HubHelloLink, SocketsLostLink
     DEF HubHears, StrictInv
<1>4. CASE \E n \in Nodes : StaleLeft(n) \/ Timeout(n)
  BY <1>4, SocketsLostLink, TimeoutLink
<1>5. CASE \E n \in Nodes : HeartbeatLate(n) \/ Heartbeat(n)
  BY <1>0, <1>5 DEF HeartbeatLate, Heartbeat, applyVars
<1>6. CASE Begin \/ Finish
  BY <1>0, <1>6 DEF Begin, Finish, applyVars
<1>7. CASE ReplanApplies \/ ReplanParks \/ ManualReplan \/ ManualApplies
  BY <1>7, ReplanLink
<1>8. CASE ApplyStep
  BY <1>8, EndPrefetchesLink, DrainedLink, SwitchSendLink, EndSwitchLink DEF ApplyStep
<1> QED
  BY <1>1, <1>2, <1>3, <1>4, <1>5, <1>6, <1>7, <1>8 DEF Next, Rebalancing

\* Generations and chains hold of the first state.
LEMMA InitStrict == Init => GenInv /\ LinkInv
<1> SUFFICES ASSUME Init, NEW n \in Nodes PROVE GenOf(n) /\ LinkOf(n)
  BY DEF GenInv, LinkInv
<1> QED BY DEF Init, GenOf, LinkOf, Linked

\* At any moment, whether the gate is open or closed, every node the hub would
\* route to and reaches holds exactly the committed range, for every cluster, every
\* layout the planner may choose and every schedule of assigns, prefetches, answers
\* and drops: provided replaced sockets do not linger, no node reconnects inside a
\* switch and no answer comes after the first switch gave its sender up.
THEOREM RoutedNodesHoldTheirRange ==
  ASSUME ~Linger, ~RejoinMidSwitch, ~LateAnswers
  PROVE  Spec => []RoutedHoldsRange
<1>1. Prompt
  BY DEF Prompt
<1>2. Init => StrictInv
  BY InitTyped, InitRoute, InitStrict DEF StrictInv
<1>3. StrictInv /\ [Next]_vars => StrictInv'
  BY <1>1, NextTyped, NextRoute, NextGen, NextLink DEF StrictInv, Prompt
<1>4. StrictInv => RoutedHoldsRange
  <2> SUFFICES ASSUME StrictInv, NEW n \in Nodes, Serves(n), Reaches(n, ws[n])
               PROVE  shard[n] = committed[n]
    BY DEF RoutedHoldsRange
  <2>1. Linked(n) /\ ready[n] /\ layers[n] = committed[n]
    BY DEF Reaches, Serves, Live, Linked
  <2>2. Clear(toNode[n], tasks[n], toHub[n][conn[n]])
    BY <2>1 DEF StrictInv, LinkInv, LinkOf, OrderOf, Ordered
  <2> QED BY <2>1, <2>2 DEF StrictInv, RouteInv, RouteOf, ChainOf, Chain, Clear
<1> QED BY <1>2, <1>3, <1>4, PTL DEF Spec
=============================================================================

---------------------------- MODULE AndroidProofs ----------------------------
(***************************************************************************)
(* What holds of AndroidNode for every model, engine, number of requests   *)
(* and sockets, with every failure it has: no frame of a dead socket waits *)
(* to be run, the hub believes nothing on disk that is not there, an open  *)
(* socket has its heartbeat, and the CPU engine answers right.             *)
(*                                                                         *)
(* None of the four is inductive.  Frames of the last socket may still     *)
(* wait while it is dead, and are gone before the next one (LiveQueue).    *)
(* The listing of a replayed ready is older than the disk, which only      *)
(* grows (DiskListed).  The heartbeat could only be taken over by a thread *)
(* of an earlier socket, and there is none unless one was at work when the *)
(* socket was opened (OneWorker).  An answer is right because the hub      *)
(* routes only on a range that is in force, and a load, which changes      *)
(* chain and caches, never begins while one is (AnswersInv).               *)
(***************************************************************************)
EXTENDS AndroidNode, SequenceTheorems, TLAPS

\* The frames that wait came on socket c.
FramesOf(c) == \E S : queue \in Seq(S) /\ \A f \in S : f.c = c

LiveQueue == FramesOf(conn) /\ (link = "down" => queue = <<>>)

DiskListed == hubDisk \subseteq disk /\ lastReady.files \subseteq disk

\* Only the executor of the last socket is at work.
OneWorker ==
  /\ work = [c \in Conns |-> work[c]]
  /\ overlap \/ \A c \in Conns : c # conn => work[c] = Idle

Beats == overlap \/ link # "open" \/ hb = conn

-----------------------------------------------------------------------------
\* A frame sent on the last socket joins frames of that socket.
LEMMA FrameJoins ==
  ASSUME FramesOf(conn), NEW f, f.c = conn, Frame(f)
  PROVE  \E S : queue' \in Seq(S) /\ \A g \in S : g.c = conn
<1>1. PICK S : queue \in Seq(S) /\ \A g \in S : g.c = conn
  BY DEF FramesOf
<1> DEFINE T == S \cup {f}
<1>2. queue \in Seq(T) /\ f \in T
  BY <1>1
<1>3. queue' \in Seq(T)
  BY <1>2 DEF Frame
<1>4. \A g \in T : g.c = conn
  BY <1>1
<1> QED
  BY <1>3, <1>4

\* Taking one leaves frames of that socket.
LEMMA FrameTaken ==
  ASSUME FramesOf(conn), queue # <<>>, queue' = Tail(queue)
  PROVE  \E S : queue' \in Seq(S) /\ \A g \in S : g.c = conn
<1>1. PICK S : queue \in Seq(S) /\ \A g \in S : g.c = conn
  BY DEF FramesOf
<1>2. queue' \in Seq(S)
  BY <1>1
<1> QED
  BY <1>1, <1>2

\* No frames are frames of any socket.
LEMMA NoFrame == \A c : \E S : <<>> \in Seq(S) /\ \A g \in S : g.c = c
<1> TAKE c
<1> DEFINE S == {[c |-> c]}
<1>1. <<>> \in Seq(S)
  OBVIOUS
<1>2. \A g \in S : g.c = c
  OBVIOUS
<1> HIDE DEF S
<1> QED
  BY <1>1, <1>2

\* What every step does to the queue, the socket and its frames.
LEMMA LiveQueueStep ==
  ASSUME LiveQueue, [Next]_vars
  PROVE  LiveQueue'
<1> USE DEF LiveQueue
<1>1. CASE UNCHANGED <<queue, conn, link>>
  BY <1>1 DEF FramesOf
<1>2. CASE UNCHANGED <<queue, conn>> /\ link' = "dead"
  BY <1>2 DEF FramesOf
<1>3. CASE Teardown
  <2>1. queue' = <<>>
    BY <1>3 DEF Teardown
  <2> QED
    BY <2>1, NoFrame DEF FramesOf
<1>4. CASE Restart
  <2>1. queue' = <<>>
    BY <1>4 DEF Restart
  <2> QED
    BY <2>1, NoFrame DEF FramesOf
<1>5. CASE Connect
  <2>1. link' = "open" /\ queue = <<>>
    BY <1>5 DEF Connect, Hello
  <2>2. CASE queue' = queue
    BY <2>1, <2>2, NoFrame DEF FramesOf
  <2>3. CASE told # NoRange
    <3> DEFINE f == [t |-> "assign", c |-> conn', range |-> told, gen |-> gen]
    <3>1. queue' = Append(<<>>, f)
      BY <1>5, <2>1, <2>3 DEF Connect, Hello, Frame
    <3>2. queue' \in Seq({f}) /\ f.c = conn'
      BY <3>1
    <3>3. \A g \in {f} : g.c = conn'
      BY <3>2
    <3> QED
      BY <2>1, <3>2, <3>3 DEF FramesOf
  <2> QED
    BY <1>5, <2>2, <2>3 DEF Connect, Hello
<1>6. ASSUME NEW f, f.c = conn, Frame(f), link = "open", UNCHANGED <<conn, link>>
      PROVE  LiveQueue'
  BY <1>6, FrameJoins DEF FramesOf
<1>7. CASE Hub
  <2>1. CASE HubMoves
    <3>1. PICK r \in Ranges \ {told} :
            Frame([t |-> "assign", c |-> conn, range |-> r, gen |-> gen'])
      BY <2>1 DEF HubMoves
    <3> QED
      BY <2>1, <3>1, <1>6 DEF HubMoves, socketVars
  <2>2. CASE HubPrefetches
    <3>1. PICK r \in Ranges :
            Frame([t |-> "prefetch", c |-> conn, range |-> r, gen |-> gen])
      BY <2>2 DEF HubPrefetches
    <3> QED
      BY <2>2, <3>1, <1>6 DEF HubPrefetches, socketVars
  <2>3. ASSUME NEW r \in Reqs, HubAsks(r)
        PROVE  LiveQueue'
    BY <2>3, <1>6 DEF HubAsks, socketVars
  <2>4. ASSUME NEW r \in Reqs, HubEnds(r)
        PROVE  LiveQueue'
    BY <2>4, <1>1, <1>6 DEF HubEnds, socketVars
  <2> QED
    BY <1>7, <2>1, <2>2, <2>3, <2>4 DEF Hub
<1>8. CASE TakeFrame
  <2>1. /\ queue # <<>> /\ queue' = Tail(queue) /\ link # "down"
        /\ conn' = conn /\ (link' = link \/ link' = "dead")
    BY <1>8 DEF TakeFrame, Reclaim, StartAssign, TakePrefetch, StartForward,
                OverrunsCache, Reset, Takes, Raise, Broken, Lost, socketVars
  <2> QED
    BY <2>1, FrameTaken DEF FramesOf
<1>9. CASE \E c \in Conns : WorkStep(c)
  <2>1. UNCHANGED <<queue, conn>> /\ (link' = link \/ link' = "dead")
    BY <1>9 DEF WorkStep, Fetch, FailFetch, LoadCpu, FailLoadCpu, LoadNpu,
                FailLoadNpu, Commit, Answer, CutForward, Raise, Broken, Lost,
                socketVars
  <2> QED
    BY <2>1, <1>1, <1>2
<1>10. CASE Drop \/ StaleWatch
  BY <1>10, <1>2 DEF Drop, StaleWatch, Lost, nodeVars
<1>11. CASE Prefetched \/ FailPrefetch \/ UNCHANGED vars
  BY <1>11, <1>1 DEF Prefetched, FailPrefetch, vars, nodeVars, socketVars
<1> QED
  BY <1>3, <1>4, <1>5, <1>7, <1>8, <1>9, <1>10, <1>11 DEF Next

\* run: for any hub, requests and failures, a frame that waits came on the
\* socket that is open, never on a dead one.
THEOREM NoDeadFrames == Spec => []OnlyLiveFrames
<1>1. Init => LiveQueue
  BY NoFrame DEF Init, LiveQueue, FramesOf
<1>2. LiveQueue => OnlyLiveFrames
  BY DEF LiveQueue, FramesOf, OnlyLiveFrames
<1> QED
  BY <1>1, <1>2, LiveQueueStep, PTL DEF Spec

-----------------------------------------------------------------------------
\* What the hub believes, and the listing that may be replayed to it, were on
\* the disk when they were made; nothing leaves the disk.
LEMMA DiskListedStep ==
  ASSUME DiskListed, [Next]_vars
  PROVE  DiskListed'
<1> USE DEF DiskListed
<1>1. ASSUME disk \subseteq disk', lastReady' = lastReady, hubDisk' \subseteq disk'
      PROVE  DiskListed'
  BY <1>1
<1>2. CASE Drop \/ StaleWatch \/ Teardown \/ Connect \/ UNCHANGED vars
  BY <1>2 DEF Drop, StaleWatch, Teardown, Connect, Hello, vars, nodeVars, hubVars
<1>3. CASE Restart
  BY <1>3 DEF Restart, NoReady
<1>4. CASE Hub
  BY <1>4 DEF Hub, HubMoves, HubPrefetches, HubAsks, HubEnds, hubVars
<1>5. CASE TakeFrame
  <2>1. CASE Reclaim
    BY <2>1 DEF Reclaim, HubReady
  <2>2. CASE StartAssign
    BY <2>2 DEF StartAssign, NoReady, hubVars
  <2> QED
    BY <1>5, <2>1, <2>2, <1>1 DEF TakeFrame, TakePrefetch, StartForward,
         OverrunsCache, Reset, hubVars
<1>6. CASE \E c \in Conns : WorkStep(c)
  <2>1. PICK c \in Conns : WorkStep(c)
    BY <1>6
  <2>2. CASE Commit(c)
    <3>1. disk' = disk /\ lastReady'.files = disk
      BY <2>2 DEF Commit
    <3>2. hubDisk' = lastReady'.files \/ hubDisk' = hubDisk
      BY <2>2 DEF Commit, HubReady
    <3> QED
      BY <3>1, <3>2
  <2>3. CASE Fetch(c) \/ FailFetch(c)
    BY <2>3, <1>1 DEF Fetch, FailFetch, hubVars
  <2> QED
    BY <2>1, <2>2, <2>3, <1>1 DEF WorkStep, LoadCpu, FailLoadCpu, LoadNpu,
         FailLoadNpu, Answer, CutForward, hubVars
<1>7. CASE Prefetched \/ FailPrefetch
  BY <1>7, <1>1 DEF Prefetched, FailPrefetch, hubVars
<1> QED
  BY <1>2, <1>3, <1>4, <1>5, <1>6, <1>7 DEF Next

\* For any layers and failures, no layer the hub counts as fetched is missing on
\* the phone, whatever listings it was sent late, twice or in another order.
THEOREM HubKnowsTheDisk == Spec => []DiskBelieved
<1>1. Init => DiskListed
  BY DEF Init, DiskListed, NoReady
<1>2. DiskListed => DiskBelieved
  BY DEF DiskListed, DiskBelieved
<1> QED
  BY <1>1, <1>2, DiskListedStep, PTL DEF Spec

-----------------------------------------------------------------------------
\* Unless a thread outlived its socket, only the last executor ever works.
LEMMA OneWorkerStep ==
  ASSUME OneWorker, [Next]_vars
  PROVE  OneWorker'
<1> USE DEF OneWorker
<1>1. CASE UNCHANGED <<work, conn, overlap>>
  BY <1>1
<1>2. ASSUME UNCHANGED <<conn, overlap>>, NEW w, work' = [work EXCEPT ![conn] = w]
      PROVE  OneWorker'
  BY <1>2
<1>3. ASSUME UNCHANGED <<conn, overlap>>, NEW c \in Conns, NEW w,
             work[c] # Idle, work' = [work EXCEPT ![c] = w]
      PROVE  OneWorker'
  BY <1>3
<1>4. CASE Drop \/ StaleWatch
  BY <1>4, <1>1 DEF Drop, StaleWatch, nodeVars, history
<1>5. CASE Teardown
  BY <1>5, <1>2 DEF Teardown, history
<1>6. CASE Connect
  <2>1. work' = work /\ overlap' = (overlap \/ \E c \in Conns : work[c] # Idle)
    BY <1>6 DEF Connect, Hello
  <2> QED
    BY <2>1
<1>7. CASE Restart
  BY <1>7 DEF Restart
<1>8. CASE Hub
  BY <1>8, <1>1 DEF Hub, HubMoves, HubPrefetches, HubAsks, HubEnds, socketVars,
                    history
<1>9. CASE TakeFrame
  <2>1. CASE Reclaim \/ TakePrefetch \/ Reset
    BY <2>1, <1>1 DEF Reclaim, TakePrefetch, Reset, socketVars, history
  <2>2. CASE StartAssign
    BY <2>2, <1>2 DEF StartAssign, socketVars, history
  <2>3. CASE StartForward
    BY <2>3, <1>1, <1>2 DEF StartForward, socketVars, history
  <2>4. CASE OverrunsCache
    BY <2>4, <1>2 DEF OverrunsCache, Raise, history
  <2> QED
    BY <1>9, <2>1, <2>2, <2>3, <2>4 DEF TakeFrame
<1>10. CASE \E c \in Conns : WorkStep(c)
  <2>1. PICK c \in Conns : WorkStep(c)
    BY <1>10
  <2>2. CASE Fetch(c) \/ LoadCpu(c) \/ LoadNpu(c)
    BY <2>2, <1>3 DEF Fetch, LoadCpu, LoadNpu, At, To, socketVars, history
  <2>3. CASE FailFetch(c) \/ FailLoadCpu(c) \/ FailLoadNpu(c) \/ CutForward(c)
    BY <2>3, <1>3 DEF FailFetch, FailLoadCpu, FailLoadNpu, CutForward, Raise, At,
                      history
  <2>4. CASE Commit(c) \/ Answer(c)
    BY <2>4, <1>3 DEF Commit, Answer, At, socketVars, history
  <2> QED
    BY <2>1, <2>2, <2>3, <2>4 DEF WorkStep
<1>11. CASE Prefetched \/ FailPrefetch \/ UNCHANGED vars
  BY <1>11, <1>1 DEF Prefetched, FailPrefetch, vars, nodeVars, socketVars, history
<1> QED
  BY <1>4, <1>5, <1>6, <1>7, <1>8, <1>9, <1>10, <1>11 DEF Next

\* A heartbeat is taken over only by a thread of an earlier socket.
LEMMA BeatsStep ==
  ASSUME OneWorker, Beats, [Next]_vars
  PROVE  Beats'
<1> USE DEF Beats
<1>1. ASSUME UNCHANGED <<conn, hb, overlap>>, link' = link \/ link' # "open"
      PROVE  Beats'
  BY <1>1
<1>2. CASE Drop \/ StaleWatch
  BY <1>2, <1>1 DEF Drop, StaleWatch, Lost, history
<1>3. CASE Teardown \/ Restart
  BY <1>3 DEF Teardown, Restart
<1>4. CASE Connect
  BY <1>4 DEF Connect, Hello
<1>5. CASE Hub
  BY <1>5, <1>1 DEF Hub, HubMoves, HubPrefetches, HubAsks, HubEnds, socketVars,
                    history
<1>6. CASE TakeFrame
  BY <1>6, <1>1 DEF TakeFrame, Reclaim, StartAssign, TakePrefetch, StartForward,
                    OverrunsCache, Reset, Raise, Broken, Lost, socketVars, history
<1>7. CASE \E c \in Conns : WorkStep(c)
  <2>1. PICK c \in Conns : WorkStep(c)
    BY <1>7
  <2>2. CASE Commit(c)
    <3>1. UNCHANGED <<conn, link, overlap>> /\ hb' = Beating(c) /\ work[c] # Idle
      BY <2>2 DEF Commit, At, history
    <3>2. overlap \/ c = conn
      BY <3>1 DEF OneWorker
    <3> QED
      BY <3>1, <3>2 DEF Beating, Heard
  <2>3. CASE Fetch(c) \/ LoadCpu(c) \/ LoadNpu(c) \/ Answer(c)
    BY <2>3, <1>1 DEF Fetch, LoadCpu, LoadNpu, Answer, socketVars, history
  <2>4. CASE FailFetch(c) \/ FailLoadCpu(c) \/ FailLoadNpu(c) \/ CutForward(c)
    BY <2>4, <1>1 DEF FailFetch, FailLoadCpu, FailLoadNpu, CutForward, Raise,
                      Broken, Lost, history
  <2> QED
    BY <2>1, <2>2, <2>3, <2>4 DEF WorkStep
<1>8. CASE Prefetched \/ FailPrefetch \/ UNCHANGED vars
  BY <1>8, <1>1 DEF Prefetched, FailPrefetch, vars, socketVars, history
<1> QED
  BY <1>2, <1>3, <1>4, <1>5, <1>6, <1>7, <1>8 DEF Next

\* startHeartbeat, for any number of sockets: an open one is never without
\* heartbeats while no thread of an earlier one is left to take them away.
THEOREM HeartbeatNotLost == Spec => []HeartbeatKept
<1>1. Init => OneWorker /\ Beats
  BY DEF Init, OneWorker, Beats
<1>2. Beats => HeartbeatKept
  BY DEF Beats, HeartbeatKept
<1> QED
  BY <1>1, <1>2, OneWorkerStep, BeatsStep, PTL DEF Spec

-----------------------------------------------------------------------------
(***************************************************************************)
(* The answers of the CPU engine.  First the shapes of what is passed      *)
(* around: frames, what a thread is at, caches and requests.               *)
(***************************************************************************)
RangeFrames   == [t : {"assign", "prefetch"}, c : Nat, range : Ranges, gen : Nat]
ForwardFrames == [t : {"fwd"}, c : Nat, r : Reqs, for : Ranges]
ResetFrames   == [t : {"reset"}, c : Nat, r : Reqs]
Frames        == RangeFrames \cup ForwardFrames \cup ResetFrames

Loads    == [op : {"fetch", "load", "hash"}, range : Ranges, gen : Nat, cut : BOOLEAN]
Forwards == [op : {"fwd"}, r : Reqs, right : BOOLEAN, cut : BOOLEAN]
Works    == {Idle} \cup Loads \cup Forwards

ReqStates == {"new", "asked", "between", "broken", "over"}
RequestOf(st, g, n, right, lost) ==
  [st |-> st, gen |-> g, n |-> n, right |-> right, lost |-> lost]
IsRequest(q) == /\ q = RequestOf(q.st, q.gen, q.n, q.right, q.lost)
                /\ q.st \in ReqStates /\ q.gen \in Nat /\ q.n \in Nat

WorkTyped    == work \in [Conns -> Works]
QueueTyped   == queue \in Seq(Frames)
RangesTyped  == {told, believed, lastReady.range} \subseteq Ranges \cup {NoRange}
NumbersTyped == conn \in Nat /\ gen \in Nat /\ (link # "down" => conn \in Conns)
CacheTyped   ==
  /\ cache = [r \in Reqs |-> cache[r]]
  /\ \A r \in Reqs : cache[r].n \in Nat /\ cache[r] = [by |-> cache[r].by, n |-> cache[r].n]
RequestTyped ==
  /\ req = [r \in Reqs |-> req[r]]
  /\ \A r \in Reqs : /\ IsRequest(req[r]) /\ req[r].gen <= gen
                     /\ req[r].st = "new" => req[r] = NewReq

AppTyped == /\ WorkTyped /\ QueueTyped /\ RangesTyped /\ NumbersTyped
            /\ CacheTyped /\ RequestTyped

\* The frame that is taken, by its kind.
LEMMA HeadTyped ==
  ASSUME QueueTyped, queue # <<>>
  PROVE  /\ Head(queue) \in Frames /\ Tail(queue) \in Seq(Frames)
         /\ Head(queue).t \in {"assign", "prefetch"} => Head(queue) \in RangeFrames
         /\ Head(queue).t = "fwd" => Head(queue) \in ForwardFrames
         /\ Head(queue).t = "reset" => Head(queue) \in ResetFrames
<1>1. Head(queue) \in Frames /\ Tail(queue) \in Seq(Frames)
  BY HeadTailProperties DEF QueueTyped
<1> QED
  BY <1>1 DEF Frames, RangeFrames, ForwardFrames, ResetFrames

\* What a thread is at is a load or a forward.
LEMMA WorkCases ==
  ASSUME WorkTyped, NEW c \in Conns, work[c] # Idle
  PROVE  /\ work[c].op # "fwd" => work[c] \in Loads
         /\ work[c].op = "fwd" => work[c] \in Forwards
         /\ [work[c] EXCEPT !.cut = TRUE] \in Works
<1>1. work[c] \in Loads \cup Forwards
  BY DEF WorkTyped, Works
<1> QED
  BY <1>1 DEF Works, Loads, Forwards

\* Neither is mistaken for an idle thread.
LEMMA NotIdle == \A w \in Loads \cup Forwards : w # Idle
<1>1. Idle = [op |-> "idle"]
  BY DEF Idle
<1>2. Idle.op = "idle"
  BY <1>1
<1> QED
  BY <1>2 DEF Loads, Forwards

\* What a thread is at keeps its shape.
LEMMA WorkTypedStep ==
  ASSUME AppTyped, [Next]_vars
  PROVE  WorkTyped'
<1> USE DEF WorkTyped
<1>1. WorkTyped /\ QueueTyped /\ NumbersTyped
  BY DEF AppTyped
<1>2. CASE UNCHANGED work
  BY <1>1, <1>2
<1>3. ASSUME NEW c \in Conns, work' = [work EXCEPT ![c] = Idle] PROVE WorkTyped'
  BY <1>1, <1>3 DEF Works
<1>4. CASE Teardown
  <2>1. conn \in Conns
    BY <1>1, <1>4 DEF Teardown, NumbersTyped
  <2>2. (IF work[conn] = Idle THEN Idle ELSE [work[conn] EXCEPT !.cut = TRUE]) \in Works
    BY <1>1, <2>1, WorkCases DEF Works
  <2> QED
    BY <1>1, <1>4, <2>2 DEF Teardown
<1>5. CASE Restart
  BY <1>5 DEF Restart, Works
<1>6. CASE TakeFrame
  <2>1. CASE StartAssign
    <3>1. queue # <<>> /\ Head(queue).t = "assign"
      BY <2>1 DEF StartAssign, Takes
    <3>2. Head(queue) \in RangeFrames
      BY <1>1, <3>1, HeadTyped
    <3>3. [op |-> "fetch", range |-> Head(queue).range,
           gen |-> Head(queue).gen, cut |-> FALSE] \in Works
      BY <3>2 DEF RangeFrames, Loads, Works
    <3> QED
      BY <1>1, <2>1, <3>3 DEF StartAssign
  <2>2. CASE StartForward
    <3>1. queue # <<>> /\ Head(queue).t = "fwd"
      BY <2>2 DEF StartForward, Takes
    <3>2. Head(queue) \in ForwardFrames
      BY <1>1, <3>1, HeadTyped
    <3>3. Right(Head(queue)) \in BOOLEAN
      BY DEF Right
    <3>4. [op |-> "fwd", r |-> Head(queue).r, right |-> Right(Head(queue)),
           cut |-> FALSE] \in Works
      BY <3>2, <3>3 DEF ForwardFrames, Forwards, Works
    <3> QED
      BY <1>1, <2>2, <3>4 DEF StartForward
  <2>3. CASE OverrunsCache
    BY <1>1, <1>3, <2>3 DEF OverrunsCache, Raise, Takes, NumbersTyped
  <2> QED
    BY <1>2, <1>6, <2>1, <2>2, <2>3 DEF TakeFrame, Reclaim, TakePrefetch, Reset
<1>7. ASSUME NEW c \in Conns, WorkStep(c) PROVE WorkTyped'
  <2>1. CASE \E op \in {"load", "hash"} : (At(c, "fetch") \/ At(c, "load")) /\ To(c, op)
    <3>1. PICK op \in {"load", "hash"} : To(c, op)
      BY <2>1
    <3>2. work[c] \in Loads
      BY <1>1, <2>1, WorkCases DEF At
    <3>3. [work[c] EXCEPT !.op = op] \in Works
      BY <3>2 DEF Loads, Works
    <3> QED
      BY <1>1, <3>1, <3>3 DEF To
  <2> QED
    BY <1>3, <1>7, <2>1 DEF WorkStep, Fetch, FailFetch, LoadCpu, FailLoadCpu, LoadNpu,
         FailLoadNpu, Commit, Answer, CutForward, Raise
<1>8. CASE Drop \/ StaleWatch \/ Connect \/ Hub \/ Prefetched \/ FailPrefetch \/ UNCHANGED vars
  BY <1>2, <1>8 DEF Drop, StaleWatch, Connect, Hello, Hub, HubMoves, HubPrefetches, HubAsks,
       HubEnds, Prefetched, FailPrefetch, vars, nodeVars
<1> QED
  BY <1>4, <1>5, <1>6, <1>7, <1>8 DEF Next

\* The frames that wait keep theirs.
LEMMA QueueTypedStep ==
  ASSUME AppTyped, [Next]_vars
  PROVE  QueueTyped'
<1>1. QueueTyped /\ NumbersTyped /\ RangesTyped
  BY DEF AppTyped
<1>2. CASE UNCHANGED queue
  BY <1>1, <1>2 DEF QueueTyped
<1>3. CASE queue' = <<>>
  BY <1>3 DEF QueueTyped
<1>4. CASE queue # <<>> /\ queue' = Tail(queue)
  BY <1>1, <1>4, HeadTyped DEF QueueTyped
<1>5. ASSUME NEW f \in Frames, Frame(f) PROVE QueueTyped'
  BY <1>1, <1>5 DEF QueueTyped, Frame
<1>6. conn + 1 \in Nat /\ gen + 1 \in Nat /\ NoRange \notin Ranges
  BY <1>1 DEF NumbersTyped, NoRange, Ranges
<1>7. CASE Connect
  <2>1. CASE told = NoRange
    BY <1>2, <1>7, <2>1 DEF Connect, Hello
  <2>2. CASE told # NoRange
    <3>1. [t |-> "assign", c |-> conn', range |-> told, gen |-> gen] \in Frames
      BY <1>1, <1>6, <1>7, <2>2 DEF Connect, Hello, RangesTyped, NumbersTyped, Frames, RangeFrames
    <3> QED
      BY <1>5, <1>7, <2>2, <3>1 DEF Connect, Hello
  <2> QED
    BY <2>1, <2>2
<1>8. CASE Hub
  <2>1. CASE HubMoves
    <3>1. PICK r \in Ranges : Frame([t |-> "assign", c |-> conn, range |-> r, gen |-> gen'])
      BY <2>1 DEF HubMoves
    <3>2. [t |-> "assign", c |-> conn, range |-> r, gen |-> gen'] \in Frames
      BY <1>1, <1>6, <2>1 DEF HubMoves, NumbersTyped, Frames, RangeFrames
    <3> QED
      BY <1>5, <3>1, <3>2
  <2>2. CASE HubPrefetches
    <3>1. PICK r \in Ranges : Frame([t |-> "prefetch", c |-> conn, range |-> r, gen |-> gen])
      BY <2>2 DEF HubPrefetches
    <3>2. [t |-> "prefetch", c |-> conn, range |-> r, gen |-> gen] \in Frames
      BY <1>1 DEF NumbersTyped, Frames, RangeFrames
    <3> QED
      BY <1>5, <3>1, <3>2
  <2>3. ASSUME NEW r \in Reqs, HubAsks(r) PROVE QueueTyped'
    <3>1. [t |-> "fwd", c |-> conn, r |-> r, for |-> believed] \in Frames
      BY <1>1, <2>3 DEF HubAsks, NumbersTyped, RangesTyped, Frames, ForwardFrames
    <3> QED
      BY <1>5, <2>3, <3>1 DEF HubAsks
  <2>4. ASSUME NEW r \in Reqs, HubEnds(r) PROVE QueueTyped'
    <3>1. [t |-> "reset", c |-> conn, r |-> r] \in Frames
      BY <1>1 DEF NumbersTyped, Frames, ResetFrames
    <3> QED
      BY <1>2, <1>5, <2>4, <3>1 DEF HubEnds
  <2> QED
    BY <1>8, <2>1, <2>2, <2>3, <2>4 DEF Hub
<1>9. CASE TakeFrame
  BY <1>4, <1>9 DEF TakeFrame, Reclaim, StartAssign, TakePrefetch, StartForward, OverrunsCache,
       Reset, Takes
<1>10. CASE \E c \in Conns : WorkStep(c)
  BY <1>2, <1>10 DEF WorkStep, Fetch, FailFetch, LoadCpu, FailLoadCpu, LoadNpu, FailLoadNpu,
       Commit, Answer, CutForward
<1>11. CASE Teardown \/ Restart
  BY <1>3, <1>11 DEF Teardown, Restart
<1>12. CASE Drop \/ StaleWatch \/ Prefetched \/ FailPrefetch \/ UNCHANGED vars
  BY <1>2, <1>12 DEF Drop, StaleWatch, Prefetched, FailPrefetch, vars, nodeVars
<1> QED
  BY <1>7, <1>8, <1>9, <1>10, <1>11, <1>12 DEF Next

\* So do the ranges the hub knows, and the numbers of sockets and assigns.
LEMMA RangesTypedStep ==
  ASSUME AppTyped, [Next]_vars
  PROVE  RangesTyped' /\ NumbersTyped' /\ gen' >= gen
<1>1. RangesTyped /\ NumbersTyped /\ WorkTyped
  BY DEF AppTyped
<1>2. CASE UNCHANGED <<told, lastReady, gen>> /\ conn' = conn /\ link' \in {link, "dead", "down"}
           /\ believed' \in {believed, NoRange, lastReady.range} /\ (link = "down" => link' = "down")
  BY <1>1, <1>2 DEF RangesTyped, NumbersTyped
<1>3. CASE Connect
  <2>1. /\ UNCHANGED <<told, lastReady, gen>> /\ believed' = NoRange
        /\ conn' = conn + 1 /\ conn < MaxConn
    BY <1>3 DEF Connect, Hello
  <2>2. RangesTyped'
    BY <1>1, <2>1 DEF RangesTyped
  <2>3. NumbersTyped' /\ gen' >= gen
    BY <1>1, <2>1, BoundsAssumption DEF NumbersTyped, Conns
  <2> QED
    BY <2>2, <2>3
<1>4. CASE Restart
  <2>1. /\ UNCHANGED <<told, gen>> /\ believed' = NoRange /\ lastReady'.range = NoRange
        /\ conn' = 0 /\ link' = "down"
    BY <1>4 DEF Restart, NoReady
  <2>2. RangesTyped'
    BY <1>1, <2>1 DEF RangesTyped
  <2>3. NumbersTyped' /\ gen' >= gen
    BY <1>1, <2>1 DEF NumbersTyped
  <2> QED
    BY <2>2, <2>3
<1>5. CASE Hub
  <2>1. CASE HubMoves
    <3>1. /\ told' \in Ranges /\ believed' = NoRange /\ gen' = gen + 1
          /\ UNCHANGED <<lastReady, conn, link>>
      BY <2>1 DEF HubMoves, socketVars
    <3>2. gen \in Nat /\ conn \in Nat
      BY <1>1 DEF NumbersTyped
    <3>3. gen' \in Nat /\ gen' >= gen
      BY <3>1, <3>2
    <3>4. RangesTyped'
      BY <1>1, <3>1 DEF RangesTyped
    <3>5. NumbersTyped'
      BY <1>1, <3>1, <3>3 DEF NumbersTyped
    <3> QED
      BY <3>3, <3>4, <3>5
  <2>2. CASE HubPrefetches \/ \E r \in Reqs : HubAsks(r) \/ HubEnds(r)
    <3>1. UNCHANGED <<told, believed, lastReady, gen, conn, link>>
      BY <2>2 DEF HubPrefetches, HubAsks, HubEnds, hubVars, socketVars
    <3>2. RangesTyped'
      BY <1>1, <3>1 DEF RangesTyped
    <3>3. NumbersTyped' /\ gen' >= gen
      BY <1>1, <3>1 DEF NumbersTyped
    <3> QED
      BY <3>2, <3>3
  <2> QED
    BY <1>5, <2>1, <2>2 DEF Hub
<1>6. CASE TakeFrame
  <2>1. CASE StartAssign
    BY <1>1, <2>1 DEF StartAssign, RangesTyped, NumbersTyped, NoReady, hubVars, socketVars
  <2>2. CASE OverrunsCache
    BY <1>1, <1>2, <2>2 DEF OverrunsCache, Raise, Broken, Lost, Heard
  <2> QED
    BY <1>1, <1>2, <1>6, <2>1, <2>2 DEF TakeFrame, Reclaim, HubReady, TakePrefetch, StartForward,
         Reset, hubVars, socketVars
<1>7. ASSUME NEW c \in Conns, WorkStep(c)
      PROVE  RangesTyped' /\ NumbersTyped' /\ gen' >= gen
  <2>1. CASE Commit(c)
    <3>1. work[c].range \in Ranges
      BY <1>1, <2>1, WorkCases DEF Commit, At, Loads
    <3> QED
      BY <1>1, <2>1, <3>1 DEF Commit, HubReady, RangesTyped, NumbersTyped
  <2>2. CASE FailFetch(c) \/ FailLoadCpu(c) \/ FailLoadNpu(c) \/ CutForward(c)
    BY <1>2, <2>2 DEF FailFetch, FailLoadCpu, FailLoadNpu, CutForward, Raise, Broken, Lost, Heard
  <2> QED
    BY <1>1, <1>2, <1>7, <2>1, <2>2 DEF WorkStep, Fetch, LoadCpu, LoadNpu, Answer, hubVars, socketVars
<1>8. CASE Drop \/ StaleWatch \/ Teardown
  BY <1>1, <1>2, <1>8 DEF Drop, StaleWatch, Teardown, Lost, nodeVars, hubVars
<1>9. CASE Prefetched \/ FailPrefetch \/ UNCHANGED vars
  BY <1>1, <1>2, <1>9 DEF Prefetched, FailPrefetch, vars, nodeVars, hubVars, socketVars
<1> QED
  BY <1>3, <1>4, <1>5, <1>6, <1>7, <1>8, <1>9 DEF Next

\* A cache counts passes.
LEMMA CacheTypedStep ==
  ASSUME AppTyped, [Next]_vars
  PROVE  CacheTyped'
<1> USE DEF CacheTyped
<1>1. CacheTyped /\ WorkTyped /\ QueueTyped
  BY DEF AppTyped
<1>2. CASE UNCHANGED cache
  BY <1>1, <1>2
<1>3. CASE cache' = [r \in Reqs |-> NoCache]
  BY <1>3 DEF NoCache
<1>4. ASSUME NEW r \in Reqs, NEW x, NEW n \in Nat,
             cache' = [cache EXCEPT ![r] = [by |-> x, n |-> n]]
      PROVE  CacheTyped'
  <2>1. \A s \in Reqs : cache'[s] = IF s = r THEN [by |-> x, n |-> n] ELSE cache[s]
    BY <1>1, <1>4
  <2>2. cache' = [s \in Reqs |-> cache'[s]]
    BY <1>1, <1>4
  <2> QED
    BY <1>1, <2>1, <2>2
<1>5. CASE TakeFrame
  <2>1. CASE StartForward
    <3> DEFINE f == Head(queue)
    <3>1. f.r \in Reqs
      BY <1>1, <2>1, HeadTyped DEF StartForward, Takes, ForwardFrames
    <3>2. Opened(f.r).n \in Nat /\ Opened(f.r) = [by |-> Opened(f.r).by, n |-> Opened(f.r).n]
      BY <1>1, <3>1 DEF Opened, NoCache
    <3>3. cache' = cache \/ cache' = [cache EXCEPT ![f.r] = Opened(f.r)]
      BY <2>1 DEF StartForward
    <3> HIDE DEF f
    <3> QED
      BY <1>2, <1>4, <3>1, <3>2, <3>3
  <2>2. CASE Reset
    <3>1. Head(queue).r \in Reqs
      BY <1>1, <2>2, HeadTyped DEF Reset, Takes, ResetFrames
    <3>2. cache' = [cache EXCEPT ![Head(queue).r] = [by |-> <<>>, n |-> 0]]
      BY <2>2 DEF Reset, NoCache
    <3> QED
      BY <1>4, <3>1, <3>2
  <2> QED
    BY <1>2, <1>5, <2>1, <2>2 DEF TakeFrame, Reclaim, StartAssign, TakePrefetch, OverrunsCache,
         engineVars
<1>6. ASSUME NEW c \in Conns, WorkStep(c)
      PROVE  CacheTyped'
  <2>1. CASE Answer(c)
    <3> DEFINE r == work[c].r
    <3>1. r \in Reqs
      BY <1>1, <2>1, WorkCases DEF Answer, At, Forwards
    <3>2. cache' = cache \/ cache' = [cache EXCEPT ![r].n = @ + 1]
      BY <2>1 DEF Answer
    <3>3. cache[r].n \in Nat /\ cache[r] = [by |-> cache[r].by, n |-> cache[r].n]
      BY <1>1, <3>1
    <3>4. [cache[r] EXCEPT !.n = @ + 1] = [by |-> cache[r].by, n |-> cache[r].n + 1]
      BY <3>3
    <3>6. cache[r].n + 1 \in Nat
      BY <3>3
    <3>5. cache' = cache \/ cache' = [cache EXCEPT ![r] = [by |-> cache[r].by, n |-> cache[r].n + 1]]
      BY <3>2, <3>4
    <3> HIDE DEF r
    <3> QED
      BY <1>2, <1>4, <3>1, <3>5, <3>6
  <2>2. CASE LoadCpu(c) \/ FailLoadCpu(c)
    BY <1>3, <2>2 DEF LoadCpu, FailLoadCpu
  <2> QED
    BY <1>2, <1>6, <2>1, <2>2 DEF WorkStep, Fetch, FailFetch, LoadNpu, FailLoadNpu, Commit,
         CutForward, engineVars
<1>7. CASE Restart
  BY <1>3, <1>7 DEF Restart
<1>8. CASE Drop \/ StaleWatch \/ Teardown \/ Connect
  BY <1>2, <1>8 DEF Drop, StaleWatch, Teardown, Connect, Hello, engineVars
<1>9. CASE Hub \/ Prefetched \/ FailPrefetch \/ UNCHANGED vars
  BY <1>2, <1>9 DEF Hub, HubMoves, HubPrefetches, HubAsks, HubEnds, Prefetched, FailPrefetch,
       vars, engineVars
<1> QED
  BY <1>5, <1>6, <1>7, <1>8, <1>9 DEF Next

\* A request, by its fields.
LEMMA RequestFields ==
  ASSUME NEW st \in ReqStates, NEW g \in Nat, NEW n \in Nat, NEW right, NEW lost,
         NEW q, q = RequestOf(st, g, n, right, lost)
  PROVE  /\ q.st = st /\ q.gen = g /\ q.n = n /\ q.right = right /\ q.lost = lost
         /\ IsRequest(q)
<1>1. q.st = st /\ q.gen = g /\ q.n = n /\ q.right = right /\ q.lost = lost
  BY DEF RequestOf
<1> QED
  BY <1>1 DEF IsRequest

\* What becomes of a request: its state changes, it is sent on in the last
\* assign, it is answered, the app stops under it.
MovedTo(s, st) == [s EXCEPT !.st = st]
AskedIn(s, g)  == [s EXCEPT !.st = "asked", !.gen = g]
Answered(s, b) == [s EXCEPT !.st = "between", !.n = @ + 1, !.right = b]
Stopped(s)     == [s EXCEPT !.lost = TRUE, !.st = IF @ = "asked" THEN "broken" ELSE @]

\* A request that only changes its state.
LEMMA StateChanges ==
  ASSUME NEW s, IsRequest(s), NEW st \in ReqStates, NEW q, q = MovedTo(s, st)
  PROVE  /\ q.st = st /\ q.gen = s.gen /\ q.n = s.n /\ q.right = s.right /\ q.lost = s.lost
         /\ IsRequest(q)
<1>1. q = RequestOf(st, s.gen, s.n, s.right, s.lost) /\ s.gen \in Nat /\ s.n \in Nat
  BY DEF IsRequest, RequestOf, MovedTo
<1> QED
  BY <1>1, RequestFields

\* A request that is sent on.
LEMMA IsAsked ==
  ASSUME NEW s, IsRequest(s), NEW g \in Nat, NEW q, q = AskedIn(s, g)
  PROVE  /\ q.st = "asked" /\ q.gen = g /\ q.n = s.n /\ q.right = s.right /\ q.lost = s.lost
         /\ IsRequest(q)
<1>1. q = RequestOf("asked", g, s.n, s.right, s.lost)
  BY DEF IsRequest, RequestOf, AskedIn
<1>2. "asked" \in ReqStates /\ s.n \in Nat
  BY DEF IsRequest, ReqStates
<1> QED
  BY <1>1, <1>2, RequestFields

\* A request that is answered.
LEMMA IsAnswered ==
  ASSUME NEW s, IsRequest(s), NEW b, NEW q, q = Answered(s, b)
  PROVE  /\ q.st = "between" /\ q.gen = s.gen /\ q.n = s.n + 1 /\ q.lost = s.lost
         /\ q.right = b
         /\ IsRequest(q)
<1>1. q = RequestOf("between", s.gen, s.n + 1, b, s.lost)
  BY DEF IsRequest, RequestOf, Answered
<1>2. "between" \in ReqStates /\ s.gen \in Nat /\ s.n + 1 \in Nat
  BY DEF IsRequest, ReqStates
<1> QED
  BY <1>1, <1>2, RequestFields

\* A request the app was stopped under.
LEMMA IsStopped ==
  ASSUME NEW s, IsRequest(s), NEW q, q = Stopped(s)
  PROVE  /\ q.st = IF s.st = "asked" THEN "broken" ELSE s.st
         /\ q.gen = s.gen /\ q.n = s.n /\ q.lost
         /\ IsRequest(q)
<1>1. PICK st \in ReqStates : st = IF s.st = "asked" THEN "broken" ELSE s.st
  BY DEF IsRequest, ReqStates
<1>2. PICK t : t = TRUE
  OBVIOUS
<1>3. q = RequestOf(st, s.gen, s.n, s.right, t) /\ s.gen \in Nat /\ s.n \in Nat
  BY <1>1, <1>2 DEF IsRequest, RequestOf, Stopped
<1>4. q.st = st /\ q.gen = s.gen /\ q.n = s.n /\ q.lost = t /\ IsRequest(q)
  BY <1>3, RequestFields
<1> QED
  BY <1>1, <1>2, <1>4

\* A socket that is lost breaks what waits for an answer and nothing else.
LEMMA LostRequests ==
  ASSUME RequestTyped, Lost, gen' = gen
  PROVE  /\ RequestTyped'
         /\ \A r \in Reqs :
              /\ req'[r].st = IF req[r].st = "asked" THEN "broken" ELSE req[r].st
              /\ req'[r].gen = req[r].gen /\ req'[r].n = req[r].n
              /\ req'[r].right = req[r].right /\ req'[r].lost = req[r].lost
<1>1. req' = [r \in Reqs |-> IF req[r].st = "asked"
                             THEN [req[r] EXCEPT !.st = "broken"] ELSE req[r]]
  BY DEF Lost
<1>2. ASSUME NEW r \in Reqs
      PROVE  /\ req'[r].st = IF req[r].st = "asked" THEN "broken" ELSE req[r].st
             /\ req'[r].gen = req[r].gen /\ req'[r].n = req[r].n
             /\ req'[r].right = req[r].right /\ req'[r].lost = req[r].lost
             /\ IsRequest(req'[r]) /\ (req[r].st # "asked" => req'[r] = req[r])
  <2>1. IsRequest(req[r]) /\ "broken" \in ReqStates
    BY DEF RequestTyped, ReqStates
  <2>2. CASE req[r].st = "asked"
    <3>1. req'[r] = MovedTo(req[r], "broken")
      BY <1>1, <2>2 DEF MovedTo
    <3> QED
      BY <2>1, <2>2, <3>1, StateChanges
  <2>3. CASE req[r].st # "asked"
    <3>1. req'[r] = req[r]
      BY <1>1, <2>3
    <3> QED
      BY <2>1, <2>3, <3>1
  <2> QED
    BY <2>2, <2>3
<1>3. req' = [r \in Reqs |-> req'[r]]
  BY <1>1
<1>4. \A r \in Reqs : req'[r].gen <= gen /\ (req'[r].st = "new" => req'[r] = NewReq)
  BY <1>2 DEF RequestTyped
<1> QED
  BY <1>2, <1>3, <1>4 DEF RequestTyped

\* A request never comes from a later assign than the last.
LEMMA RequestTypedStep ==
  ASSUME AppTyped, [Next]_vars
  PROVE  RequestTyped'
<1>1. RequestTyped /\ WorkTyped /\ QueueTyped /\ NumbersTyped /\ gen' >= gen /\ gen' \in Nat
  BY RangesTypedStep DEF AppTyped, NumbersTyped
<1>2. CASE UNCHANGED req
  <2>1. \A r \in Reqs : req[r].gen \in Nat /\ req[r].gen <= gen
    BY <1>1 DEF RequestTyped, IsRequest
  <2>2. gen \in Nat
    BY <1>1 DEF NumbersTyped
  <2>3. \A r \in Reqs : req[r].gen <= gen'
    BY <1>1, <2>1, <2>2
  <2> QED
    BY <1>1, <1>2, <2>3 DEF RequestTyped
<1>3. ASSUME NEW r \in Reqs, NEW q, IsRequest(q), q.st # "new", q.gen <= gen, gen' = gen,
             req' = [req EXCEPT ![r] = q]
      PROVE  RequestTyped'
  <2>1. \A s \in Reqs : req'[s] = IF s = r THEN q ELSE req[s]
    BY <1>1, <1>3 DEF RequestTyped
  <2>2. req' = [s \in Reqs |-> req'[s]]
    BY <1>1, <1>3 DEF RequestTyped
  <2> QED
    BY <1>1, <1>3, <2>1, <2>2 DEF RequestTyped
<1>4. ASSUME NEW c, Broken(c), gen' = gen PROVE RequestTyped'
  BY <1>1, <1>2, <1>4, LostRequests DEF Broken
<1>5. ASSUME NEW c, NEW r \in Reqs, NEW q, IsRequest(q), q.st # "new", q.gen <= gen,
             gen' = gen, HubAnswer(c, r, q)
      PROVE  RequestTyped'
  BY <1>2, <1>3, <1>5 DEF HubAnswer
<1>5a. \A r \in Reqs : IsRequest(req[r]) /\ req[r].gen <= gen
  BY <1>1 DEF RequestTyped
<1>5b. "broken" \in ReqStates /\ "over" \in ReqStates
  BY DEF ReqStates
<1>6. CASE Hub
  <2>1. ASSUME NEW r \in Reqs, HubAsks(r) PROVE RequestTyped'
    <3>1. PICK q : q = AskedIn(req[r], gen)
      OBVIOUS
    <3>4. gen \in Nat
      BY <1>1 DEF NumbersTyped
    <3>2. IsRequest(q) /\ q.st = "asked" /\ q.gen = gen
      BY <1>5a, <3>1, <3>4, IsAsked
    <3>5. req' = [req EXCEPT ![r].st = "asked", ![r].gen = gen] /\ gen' = gen
      BY <2>1 DEF HubAsks
    <3>3. req' = [req EXCEPT ![r] = q]
      BY <3>1, <3>5 DEF AskedIn
    <3>6. gen' = gen /\ q.gen <= gen /\ q.st # "new"
      BY <3>2, <3>4, <3>5
    <3> QED
      BY <1>3, <3>2, <3>3, <3>6
  <2>2. ASSUME NEW r \in Reqs, HubEnds(r) PROVE RequestTyped'
    <3>1. PICK q : q = MovedTo(req[r], "over")
      OBVIOUS
    <3>2. IsRequest(q) /\ q.st = "over" /\ q.gen = req[r].gen
      BY <1>5a, <1>5b, <3>1, StateChanges
    <3>3. req' = [req EXCEPT ![r] = q] /\ gen' = gen
      BY <2>2, <3>1 DEF HubEnds, MovedTo
    <3> QED
      BY <1>5a, <1>3, <3>2, <3>3
  <2> QED
    BY <1>2, <1>6, <2>1, <2>2 DEF Hub, HubMoves, HubPrefetches, hubVars
<1>7. CASE TakeFrame
  <2>1. CASE StartForward
    <3> DEFINE r == Head(queue).r
    <3>1. r \in Reqs
      BY <1>1, <2>1, HeadTyped DEF StartForward, Takes, ForwardFrames
    <3>2. PICK q : q = MovedTo(req[r], "broken")
      OBVIOUS
    <3>3. (UNCHANGED req \/ HubAnswer(conn, r, q)) /\ gen' = gen
      BY <2>1, <3>2 DEF StartForward, MovedTo
    <3> HIDE DEF r
    <3>4. IsRequest(q) /\ q.st = "broken" /\ q.gen = req[r].gen
      BY <1>5a, <1>5b, <3>1, <3>2, StateChanges
    <3> QED
      BY <1>5a, <1>2, <1>5, <3>1, <3>3, <3>4
  <2>2. CASE OverrunsCache
    BY <1>4, <2>2 DEF OverrunsCache, Raise
  <2> QED
    BY <1>2, <1>7, <2>1, <2>2 DEF TakeFrame, Reclaim, StartAssign, TakePrefetch, Reset, hubVars
<1>8. ASSUME NEW c \in Conns, WorkStep(c) PROVE RequestTyped'
  <2>1. CASE Answer(c)
    <3> DEFINE r == work[c].r
    <3>1. r \in Reqs
      BY <1>1, <2>1, WorkCases DEF Answer, At, Forwards
    <3>0. PICK b : b = (req[r].right /\ work[c].right)
      OBVIOUS
    <3>2. PICK q : q = Answered(req[r], b)
      OBVIOUS
    <3>3. HubAnswer(c, r, q) /\ gen' = gen
      BY <2>1, <3>0, <3>2 DEF Answer, Answered
    <3> HIDE DEF r
    <3>4. IsRequest(q) /\ q.st = "between" /\ q.gen = req[r].gen
      BY <1>5a, <3>1, <3>2, IsAnswered
    <3> QED
      BY <1>5a, <1>5, <3>1, <3>3, <3>4
  <2> QED
    BY <1>2, <1>4, <1>8, <2>1 DEF WorkStep, Fetch, FailFetch, LoadCpu, FailLoadCpu, LoadNpu,
         FailLoadNpu, Commit, CutForward, Raise, hubVars
<1>9. CASE Restart
  <2>1. req' = [r \in Reqs |->
          IF req[r].st = "new" THEN req[r]
          ELSE [req[r] EXCEPT !.lost = TRUE, !.st = IF @ = "asked" THEN "broken" ELSE @]]
        /\ gen' = gen
    BY <1>9 DEF Restart
  <2>2. ASSUME NEW r \in Reqs
        PROVE  IsRequest(req'[r]) /\ req'[r].gen <= gen /\ (req'[r].st = "new" => req'[r] = NewReq)
    <3>1. CASE req[r].st = "new"
      BY <1>1, <2>1, <3>1 DEF RequestTyped
    <3>2. CASE req[r].st # "new"
      <4>1. req'[r] = Stopped(req[r])
        BY <2>1, <3>2 DEF Stopped
      <4>2. IsRequest(req'[r]) /\ req'[r].gen = req[r].gen /\ req'[r].st # "new"
        BY <1>5a, <3>2, <4>1, IsStopped
      <4> QED
        BY <1>5a, <4>2
    <3> QED
      BY <3>1, <3>2
  <2>3. req' = [r \in Reqs |-> req'[r]]
    BY <2>1
  <2> QED
    BY <2>1, <2>2, <2>3 DEF RequestTyped
<1>10. CASE Drop \/ StaleWatch
  BY <1>1, <1>10, LostRequests DEF Drop, StaleWatch
<1>11. CASE Teardown \/ Connect \/ Prefetched \/ FailPrefetch \/ UNCHANGED vars
  BY <1>2, <1>11 DEF Teardown, Connect, Hello, Prefetched, FailPrefetch, vars, hubVars
<1> QED
  BY <1>6, <1>7, <1>8, <1>9, <1>10, <1>11 DEF Next

\* Every step keeps the shapes.
LEMMA AppTypedStep ==
  ASSUME AppTyped, [Next]_vars
  PROVE  AppTyped'
BY WorkTypedStep, QueueTypedStep, RangesTypedStep, CacheTypedStep, RequestTypedStep
   DEF AppTyped

-----------------------------------------------------------------------------
(***************************************************************************)
(* What makes the answers of the CPU engine right.  A range is in force    *)
(* while it is loaded, is the hub's last one, and no assign that waits     *)
(* says otherwise; only then does the hub route on it.  A request that is  *)
(* alive (asked, or between two passes of the last assign) has a cache     *)
(* that fits the chain and its passes; a load drops every cache, and it    *)
(* cannot begin while a request is alive.                                  *)
(***************************************************************************)
\* What the executor of the last socket is at.
Now        == IF conn \in Conns THEN work[conn] ELSE Idle
Loading    == Now.op \in {"fetch", "load", "hash"}
Serving(r) == Now.op = "fwd" /\ Now.r = r

Waits(i, t)   == i \in DOMAIN queue /\ queue[i].t = t
Asks(i, r)    == Waits(i, "fwd") /\ queue[i].r = r
NoAssignWaits == \A i : ~Waits(i, "assign")
InForce       == cfg /\ layers = told /\ \A i : Waits(i, "assign") => queue[i].range = told

\* The engine has the chain of the range that is up, or is loading one.
EngineInv ==
  /\ cfg => layers \in Ranges /\ chain = Chain(layers) /\ lastReady.range = layers
  /\ Loading => ~cfg /\ layers = Now.range
  /\ Now.op = "hash" => chain = Chain(layers)

\* The last assign carries what the hub told last, and nothing comes after it.
AssignInv ==
  /\ \A i : Waits(i, "assign") => queue[i].gen <= gen
  /\ \A i : Waits(i, "assign") /\ queue[i].gen = gen =>
       queue[i].range = told /\ \A j : Waits(j, "assign") => j <= i
  /\ Loading => Now.gen <= gen
  /\ Loading /\ Now.gen = gen => Now.range = told /\ NoAssignWaits

\* The hub routes on the range in force only.
BeliefInv ==
  believed # NoRange => link = "open" /\ InForce /\ believed = told /\ NoAssignWaits

\* A forward that waits will find the range it was routed on.
ForwardInv ==
  link = "open" => \A i : Waits(i, "fwd") =>
    cfg /\ layers = queue[i].for /\ \A j : Waits(j, "assign") => j > i

\* Where the forward of a request is: at one place while it is asked, nowhere
\* between its passes; its cache is reset when it is over.
PlaceInv == \A r \in Reqs :
  /\ req[r].st \in {"new", "between"} => ~Serving(r) /\ \A i : ~Asks(i, r)
  /\ req[r].st = "asked" =>
       /\ link = "open" /\ (Serving(r) \/ \E i : Asks(i, r))
       /\ \A i, j : Asks(i, r) /\ Asks(j, r) => i = j
       /\ Serving(r) => \A i : ~Asks(i, r)
  /\ \A i : Waits(i, "reset") /\ queue[i].r = r => req[r].st = "over"

\* A request that is alive has a cache of all its passes, through the chain.
Alive(r)     == ~req[r].lost /\ (req[r].st = "asked" \/ (req[r].st = "between" /\ req[r].gen = gen))
CacheFits(r) == cache[r] = [by |-> chain, n |-> req[r].n] \/ (cache[r] = NoCache /\ req[r].n = 0)
CacheInv == \A r \in Reqs :
  /\ req[r].st = "new" => cache[r] = NoCache
  /\ ~req[r].lost => req[r].right
  /\ Alive(r) => CacheFits(r) /\ (req[r].gen = gen => InForce)
  /\ Alive(r) /\ Serving(r) => Now.right /\ cache[r] = [by |-> chain, n |-> req[r].n]

AnswersInv == EngineInv /\ AssignInv /\ BeliefInv /\ ForwardInv /\ PlaceInv /\ CacheInv

-----------------------------------------------------------------------------
\* The thread is idle, loads or forwards.
LEMMA NowTyped ==
  ASSUME WorkTyped
  PROVE  /\ Now = Idle \/ Now \in Loads \/ Now \in Forwards
         /\ Idle.op = "idle"
         /\ Loading => Now \in Loads /\ Now.range \in Ranges /\ Now.gen \in Nat
         /\ Now.op = "fwd" => Now \in Forwards /\ Now.r \in Reqs
<1>1. Now = Idle \/ Now \in Loads \/ Now \in Forwards
  BY DEF WorkTyped, Works, Now
<1>2. Idle.op = "idle"
  BY DEF Idle
<1> QED
  BY <1>1, <1>2 DEF Loading, Loads, Forwards

\* The frames that wait: all of them, or all but the first.
Moved(d) ==
  /\ \A i : i \in DOMAIN queue' =>
       i \in Nat /\ i >= 1 /\ i + d \in DOMAIN queue /\ queue'[i] = queue[i + d]
  /\ \A k : k \in DOMAIN queue /\ k > d => k - d \in DOMAIN queue' /\ queue'[k - d] = queue[k]

\* Frames that stay where they are.
LEMMA QueueStays ==
  ASSUME QueueTyped, queue' = queue
  PROVE  Moved(0) /\ \A k \in DOMAIN queue : k \in Nat /\ k > 0
<1>1. DOMAIN queue = 1 .. Len(queue) /\ Len(queue) \in Nat
  BY DEF QueueTyped
<1> QED
  BY <1>1 DEF Moved

\* Frames behind the one that is taken.
LEMMA QueueTaken ==
  ASSUME QueueTyped, queue # <<>>, queue' = Tail(queue)
  PROVE  /\ Moved(1) /\ 1 \in DOMAIN queue /\ Head(queue) = queue[1]
         /\ \A k \in DOMAIN queue : k \in Nat /\ k >= 1
<1>1. queue \in Seq(Frames)
  BY DEF QueueTyped
<1>2. Len(queue) \in Nat /\ Len(queue) > 0 /\ DOMAIN queue = 1 .. Len(queue)
  BY <1>1, EmptySeq
<1>3. /\ Len(Tail(queue)) = Len(queue) - 1 /\ Head(queue) = queue[1]
      /\ DOMAIN Tail(queue) = 1 .. (Len(queue) - 1)
      /\ \A k \in 1 .. (Len(queue) - 1) : Tail(queue)[k] = queue[k + 1]
  BY <1>1, <1>2
<1> QED
  BY <1>2, <1>3 DEF Moved

\* One frame more, behind the others.
LEMMA QueueGrows ==
  ASSUME QueueTyped, NEW f, Frame(f)
  PROVE  \E n \in Nat : /\ DOMAIN queue' = DOMAIN queue \cup {n} /\ queue'[n] = f
                        /\ \A k \in DOMAIN queue : k \in Nat /\ k < n /\ queue'[k] = queue[k]
<1>1. queue \in Seq(Frames \cup {f}) /\ queue' = Append(queue, f)
  BY DEF QueueTyped, Frame
<1>2. /\ Len(queue) \in Nat /\ DOMAIN queue = 1 .. Len(queue)
      /\ DOMAIN queue' = 1 .. (Len(queue) + 1) /\ queue'[Len(queue) + 1] = f
      /\ \A k \in 1 .. Len(queue) : queue'[k] = queue[k]
  BY <1>1
<1>3. DOMAIN queue' = DOMAIN queue \cup {Len(queue) + 1}
  BY <1>2
<1>4. \A k \in DOMAIN queue : k \in Nat /\ k < Len(queue) + 1 /\ queue'[k] = queue[k]
  BY <1>2
<1> QED
  BY <1>2, <1>3, <1>4

\* What the thread is at goes on, or ends.
SameTask ==
  /\ Now'.op = Now.op \/ (Now.op = "fetch" /\ Now'.op = "load")
  /\ Loading => Now'.range = Now.range /\ Now'.gen = Now.gen
  /\ Now.op = "fwd" => Now'.r = Now.r /\ Now'.right = Now.right
EndsTask == Now'.op = "idle"

\* While a range is loaded nothing is asked, and no request of the last assign
\* is alive.
LEMMA LoadingNoneAlive ==
  ASSUME AnswersInv, Loading, NEW r \in Reqs
  PROVE  req[r].st # "asked" /\ ~Alive(r) /\ ~InForce /\ believed = NoRange
<1>1. ~cfg /\ ~Serving(r)
  BY DEF AnswersInv, EngineInv, Loading, Serving
<1>2. ~InForce /\ believed = NoRange
  BY <1>1 DEF AnswersInv, BeliefInv, InForce
<1>3. req[r].st # "asked"
  BY <1>1 DEF AnswersInv, PlaceInv, ForwardInv, Asks
<1>4. ~Alive(r)
  BY <1>2, <1>3 DEF AnswersInv, CacheInv, Alive
<1> QED
  BY <1>2, <1>3, <1>4

\* The socket is gone: what was asked on it is broken, and what is left is less.
Severs ==
  /\ link' # "open" /\ believed' = NoRange
  /\ \A r \in Reqs :
       /\ req'[r].st = IF req[r].st = "asked" THEN "broken" ELSE req[r].st
       /\ req'[r].gen = req[r].gen /\ req'[r].n = req[r].n
       /\ req'[r].right = req[r].right /\ req'[r].lost = req[r].lost

\* Nothing more is lost with a socket than what was asked on it.
LEMMA SeveredKeeps ==
  ASSUME AppTyped, AnswersInv, Severs, UNCHANGED <<cfg, layers, lastReady, told, gen>>,
         NEW d \in {0, 1},
         \A i : i \in DOMAIN queue' => i \in Nat /\ i + d \in DOMAIN queue /\ queue'[i] = queue[i + d],
         SameTask \/ EndsTask,
         \/ UNCHANGED <<chain, cache>>
         \/ Loading /\ EndsTask /\ \A r \in Reqs : cache'[r] = NoCache
  PROVE  AnswersInv'
<1>1. \A i, t : Waits(i, t)' => i \in Nat /\ Waits(i + d, t) /\ queue'[i] = queue[i + d]
  BY DEF Waits
<1>2. /\ Loading' => /\ Loading /\ Now'.range = Now.range /\ Now'.gen = Now.gen
                     /\ UNCHANGED <<chain, cache>> /\ (Now'.op = "hash" => Now.op = "hash")
      /\ \A r : Serving(r)' => Serving(r) /\ Now'.right = Now.right
  BY DEF SameTask, EndsTask, Loading, Serving
<1>3. EngineInv'
  <2>1. cfg' => UNCHANGED <<chain, cache>>
    BY DEF AnswersInv, EngineInv
  <2> QED
    BY <1>2, <2>1 DEF AnswersInv, EngineInv, Loading
<1>4. NoAssignWaits => NoAssignWaits'
  BY <1>1 DEF NoAssignWaits
<1>5. InForce => InForce'
  BY <1>1 DEF InForce
<1>6. AssignInv'
  <2>1. ASSUME NEW i, Waits(i, "assign")'
        PROVE  /\ queue'[i].gen <= gen'
               /\ queue'[i].gen = gen' =>
                    queue'[i].range = told' /\ \A j : Waits(j, "assign")' => j <= i
    <3>1. i \in Nat /\ Waits(i + d, "assign") /\ queue'[i] = queue[i + d]
      BY <1>1, <2>1
    <3>2. \A j : Waits(j, "assign")' => j \in Nat /\ Waits(j + d, "assign")
      BY <1>1
    <3>3. queue[i + d].gen = gen => queue[i + d].range = told /\ \A j : Waits(j, "assign") => j <= i + d
      BY <3>1 DEF AnswersInv, AssignInv
    <3>4. queue[i + d].gen <= gen
      BY <3>1 DEF AnswersInv, AssignInv
    <3> QED
      BY <3>1, <3>2, <3>3, <3>4
  <2>2. (Loading => Now.gen <= gen /\ (Now.gen = gen => Now.range = told /\ NoAssignWaits))'
    BY <1>2, <1>4 DEF AnswersInv, AssignInv
  <2> QED
    BY <2>1, <2>2 DEF AssignInv
<1>7. BeliefInv' /\ ForwardInv'
  BY DEF Severs, BeliefInv, ForwardInv
<1>8. PlaceInv'
  <2> SUFFICES ASSUME NEW r \in Reqs
               PROVE  /\ (req[r].st \in {"new", "between"} => ~Serving(r) /\ \A i : ~Asks(i, r))'
                      /\ req'[r].st # "asked"
                      /\ (\A i : Waits(i, "reset") /\ queue[i].r = r => req[r].st = "over")'
    BY DEF PlaceInv
  <2>1. req'[r].st = IF req[r].st = "asked" THEN "broken" ELSE req[r].st
    BY DEF Severs
  <2>2. \A i : Asks(i, r)' => Asks(i + d, r)
    BY <1>1 DEF Asks
  <2>3. req'[r].st \in {"new", "between"} => ~Serving(r) /\ \A i : ~Asks(i, r)
    BY <2>1 DEF AnswersInv, PlaceInv
  <2>4. \A i : Waits(i, "reset") /\ queue[i].r = r => req[r].st = "over"
    BY DEF AnswersInv, PlaceInv
  <2> QED
    BY <1>1, <1>2, <2>1, <2>2, <2>3, <2>4
<1>9. CacheInv'
  <2> SUFFICES ASSUME NEW r \in Reqs
               PROVE  /\ req'[r].st = "new" => cache'[r] = NoCache
                      /\ ~req'[r].lost => req'[r].right
                      /\ Alive(r)' => ~Serving(r)' /\ CacheFits(r)' /\ (req'[r].gen = gen' => InForce')
    BY DEF CacheInv
  <2>1. /\ req'[r].st = IF req[r].st = "asked" THEN "broken" ELSE req[r].st
        /\ req'[r].gen = req[r].gen /\ req'[r].n = req[r].n
        /\ req'[r].right = req[r].right /\ req'[r].lost = req[r].lost
    BY DEF Severs
  <2>2. req'[r].st = "new" => cache'[r] = NoCache
    BY <2>1 DEF AnswersInv, CacheInv
  <2>3. ~req'[r].lost => req'[r].right
    BY <2>1 DEF AnswersInv, CacheInv
  <2>4. ASSUME Alive(r)'
        PROVE  ~Serving(r)' /\ CacheFits(r)' /\ (req'[r].gen = gen' => InForce')
    <3>1. Alive(r) /\ req[r].st = "between"
      BY <2>1, <2>4 DEF Alive
    <3>2. UNCHANGED <<chain, cache>>
      BY <3>1, LoadingNoneAlive
    <3>3. ~Serving(r) /\ CacheFits(r) /\ (req[r].gen = gen => InForce)
      BY <3>1 DEF AnswersInv, PlaceInv, CacheInv
    <3> QED
      BY <1>2, <1>5, <2>1, <3>2, <3>3 DEF CacheFits
  <2> QED
    BY <2>2, <2>3, <2>4
<1> QED
  BY <1>3, <1>6, <1>7, <1>8, <1>9 DEF AnswersInv

\* Frames move up: what a frame that stays was, and what it becomes.
LEMMA MovedFrames ==
  ASSUME NEW d \in {0, 1}, Moved(d), \A k \in DOMAIN queue : k \in Nat /\ k >= 1
  PROVE  /\ \A i, t : Waits(i, t)' => i \in Nat /\ Waits(i + d, t) /\ queue'[i] = queue[i + d]
         /\ \A i, r : Asks(i, r)' => i \in Nat /\ Asks(i + d, r)
         /\ \A k, t : Waits(k, t) => k \in Nat /\ k >= 1 /\ (k # 1 \/ d = 0 => Waits(k - d, t)')
         /\ \A k, r : Asks(k, r) => k \in Nat /\ k >= 1 /\ (k # 1 \/ d = 0 => Asks(k - d, r)')
BY DEF Moved, Waits, Asks

\* The last assign stays the last.
LEMMA MovedAssigns ==
  ASSUME AnswersInv, UNCHANGED <<told, gen>>,
         NEW d \in {0, 1}, Moved(d), \A k \in DOMAIN queue : k \in Nat /\ k >= 1
  PROVE  /\ NoAssignWaits => NoAssignWaits'
         /\ \A i : Waits(i, "assign")' =>
              /\ queue'[i].gen <= gen'
              /\ queue'[i].gen = gen' =>
                   queue'[i].range = told' /\ \A j : Waits(j, "assign")' => j <= i
<1>1. \A i, t : Waits(i, t)' => i \in Nat /\ Waits(i + d, t) /\ queue'[i] = queue[i + d]
  BY MovedFrames
<1>2. NoAssignWaits => NoAssignWaits'
  BY <1>1 DEF NoAssignWaits
<1>3. ASSUME NEW i, Waits(i, "assign")'
      PROVE  /\ queue'[i].gen <= gen'
             /\ queue'[i].gen = gen' =>
                  queue'[i].range = told' /\ \A j : Waits(j, "assign")' => j <= i
  <2>1. i \in Nat /\ Waits(i + d, "assign") /\ queue'[i] = queue[i + d]
    BY <1>1, <1>3
  <2>2. \A j : Waits(j, "assign")' => j \in Nat /\ Waits(j + d, "assign")
    BY <1>1
  <2>3. queue[i + d].gen = gen => queue[i + d].range = told /\ \A j : Waits(j, "assign") => j <= i + d
    BY <2>1 DEF AnswersInv, AssignInv
  <2>4. queue[i + d].gen <= gen
    BY <2>1 DEF AnswersInv, AssignInv
  <2> QED
    BY <2>1, <2>2, <2>3, <2>4
<1> QED
  BY <1>2, <1>3

\* A range in force stays in force, and what was routed on it finds it.
LEMMA MovedKeeps ==
  ASSUME AnswersInv, UNCHANGED <<cfg, layers, told, gen, link>>,
         NEW d \in {0, 1}, Moved(d), \A k \in DOMAIN queue : k \in Nat /\ k >= 1
  PROVE  (InForce => InForce') /\ ForwardInv'
<1>1. \A i, t : Waits(i, t)' => i \in Nat /\ Waits(i + d, t) /\ queue'[i] = queue[i + d]
  BY MovedFrames
<1>2. InForce => InForce'
  BY <1>1 DEF InForce
<1>3. ASSUME link' = "open", NEW i, Waits(i, "fwd")'
      PROVE  cfg' /\ layers' = queue'[i].for /\ \A j : Waits(j, "assign")' => j > i
  <2>1. i \in Nat /\ Waits(i + d, "fwd") /\ queue'[i] = queue[i + d]
    BY <1>1, <1>3
  <2>2. cfg /\ layers = queue[i + d].for /\ \A j : Waits(j, "assign") => j > i + d
    BY <1>3, <2>1 DEF AnswersInv, ForwardInv
  <2>3. \A j : Waits(j, "assign")' => j \in Nat /\ Waits(j + d, "assign")
    BY <1>1
  <2> QED
    BY <2>1, <2>2, <2>3
<1> QED
  BY <1>2, <1>3 DEF ForwardInv

\* A frame that asks nothing is taken, or none, and the thread goes on.
LEMMA TakenKeeps ==
  ASSUME AppTyped, AnswersInv,
         UNCHANGED <<cfg, layers, chain, lastReady, told, gen, link, req>>,
         believed' = believed \/ BeliefInv',
         NEW d \in {0, 1}, Moved(d), \A k \in DOMAIN queue : k \in Nat /\ k >= 1,
         d = 1 => ~Waits(1, "fwd"), SameTask,
         \A r \in Reqs : cache'[r] = cache[r] \/ req[r].st = "over"
  PROVE  AnswersInv'
<1>1. /\ \A i, t : Waits(i, t)' => i \in Nat /\ Waits(i + d, t) /\ queue'[i] = queue[i + d]
      /\ \A i, r : Asks(i, r)' => i \in Nat /\ Asks(i + d, r)
      /\ \A k, r : Asks(k, r) => Asks(k - d, r)'
  BY MovedFrames DEF Asks
<1>2. /\ Loading' <=> Loading
      /\ Loading => Now'.range = Now.range /\ Now'.gen = Now.gen
      /\ Now'.op = "hash" => Now.op = "hash"
      /\ \A r : (Serving(r)' <=> Serving(r)) /\ (Serving(r) => Now'.right = Now.right)
  BY DEF SameTask, Loading, Serving
<1>3. /\ NoAssignWaits => NoAssignWaits'
      /\ InForce => InForce'
      /\ ForwardInv'
  BY MovedKeeps, MovedAssigns
<1>4. EngineInv'
  BY <1>2 DEF AnswersInv, EngineInv
<1>5. AssignInv'
  <2>1. (Loading => Now.gen <= gen /\ (Now.gen = gen => Now.range = told /\ NoAssignWaits))'
    BY <1>2, <1>3 DEF AnswersInv, AssignInv
  <2> QED
    BY <2>1, MovedAssigns DEF AssignInv
<1>6. BeliefInv'
  BY <1>3 DEF AnswersInv, BeliefInv
<1>7. PlaceInv'
  <2> SUFFICES ASSUME NEW r \in Reqs
               PROVE  /\ (req[r].st \in {"new", "between"} => ~Serving(r) /\ \A i : ~Asks(i, r))'
                      /\ (req[r].st = "asked" =>
                            /\ link = "open" /\ (Serving(r) \/ \E i : Asks(i, r))
                            /\ \A i, j : Asks(i, r) /\ Asks(j, r) => i = j
                            /\ Serving(r) => \A i : ~Asks(i, r))'
                      /\ (\A i : Waits(i, "reset") /\ queue[i].r = r => req[r].st = "over")'
    BY DEF PlaceInv
  <2>1. (req[r].st \in {"new", "between"} => ~Serving(r) /\ \A i : ~Asks(i, r))'
    BY <1>1, <1>2 DEF AnswersInv, PlaceInv
  <2>2. ASSUME req'[r].st = "asked"
        PROVE  /\ link' = "open" /\ (Serving(r)' \/ \E i : Asks(i, r)')
               /\ \A i, j : Asks(i, r)' /\ Asks(j, r)' => i = j
               /\ Serving(r)' => \A i : ~Asks(i, r)'
    <3>1. /\ link = "open" /\ (Serving(r) \/ \E i : Asks(i, r))
          /\ \A i, j : Asks(i, r) /\ Asks(j, r) => i = j
          /\ Serving(r) => \A i : ~Asks(i, r)
      BY <2>2 DEF AnswersInv, PlaceInv
    <3>2. ASSUME NEW i, NEW j, Asks(i, r)', Asks(j, r)' PROVE i = j
      <4>1. i \in Nat /\ j \in Nat /\ i + d = j + d
        BY <1>1, <3>1, <3>2
      <4> QED
        BY <4>1
    <3>3. Serving(r)' \/ \E i : Asks(i, r)'
      BY <1>1, <1>2, <3>1
    <3>4. Serving(r)' => \A i : ~Asks(i, r)'
      BY <1>1, <1>2, <3>1
    <3> QED
      BY <3>1, <3>2, <3>3, <3>4
  <2>3. (\A i : Waits(i, "reset") /\ queue[i].r = r => req[r].st = "over")'
    BY <1>1 DEF AnswersInv, PlaceInv
  <2> QED
    BY <2>1, <2>2, <2>3
<1>8. CacheInv'
  <2> SUFFICES ASSUME NEW r \in Reqs
               PROVE  /\ req'[r].st = "new" => cache'[r] = NoCache
                      /\ ~req'[r].lost => req'[r].right
                      /\ Alive(r)' => CacheFits(r)' /\ (req'[r].gen = gen' => InForce')
                      /\ Alive(r)' /\ Serving(r)' =>
                           Now'.right /\ cache'[r] = [by |-> chain', n |-> req'[r].n]
    BY DEF CacheInv
  <2>1. (req'[r].st = "new" => cache'[r] = NoCache) /\ (~req'[r].lost => req'[r].right)
    BY DEF AnswersInv, CacheInv
  <2>2. (Alive(r)' <=> Alive(r)) /\ (Alive(r) => cache'[r] = cache[r])
    BY DEF Alive
  <2>3. Alive(r)' => CacheFits(r)' /\ (req'[r].gen = gen' => InForce')
    BY <1>3, <2>2 DEF AnswersInv, CacheInv, CacheFits
  <2>4. Alive(r)' /\ Serving(r)' =>
          Now'.right /\ cache'[r] = [by |-> chain', n |-> req'[r].n]
    BY <1>2, <2>2 DEF AnswersInv, CacheInv
  <2> QED
    BY <2>1, <2>3, <2>4
<1> QED
  BY <1>3, <1>4, <1>5, <1>6, <1>7, <1>8 DEF AnswersInv

\* The thread that is to take a frame is idle; the frame is the first.
LEMMA TakesFirst ==
  ASSUME AppTyped, NEW t, Takes(t)
  PROVE  /\ conn \in Conns /\ Now = Idle /\ Now.op = "idle"
         /\ Moved(1) /\ Waits(1, t) /\ Head(queue) = queue[1]
         /\ \A k \in DOMAIN queue : k \in Nat /\ k >= 1
         /\ Head(queue).t \in {"assign", "prefetch"} => Head(queue) \in RangeFrames
         /\ Head(queue).t = "fwd" => Head(queue) \in ForwardFrames
         /\ Head(queue).t = "reset" => Head(queue) \in ResetFrames
<1>1. /\ link # "down" /\ work[conn] = Idle /\ queue # <<>> /\ Head(queue).t = t
      /\ queue' = Tail(queue)
  BY DEF Takes
<1>2. QueueTyped /\ NumbersTyped
  BY DEF AppTyped
<1>3. conn \in Conns /\ Now = Idle /\ Now.op = "idle"
  BY <1>1, <1>2 DEF NumbersTyped, Now, Idle
<1>4. /\ Moved(1) /\ 1 \in DOMAIN queue /\ Head(queue) = queue[1]
      /\ \A k \in DOMAIN queue : k \in Nat /\ k >= 1
  BY <1>1, <1>2, QueueTaken
<1>5. Waits(1, t)
  BY <1>1, <1>4 DEF Waits
<1> QED
  BY <1>1, <1>2, <1>3, <1>4, <1>5, HeadTyped

\* An assign of the range that is up: the hub may route on it again.
LEMMA ReclaimKeeps ==
  ASSUME AppTyped, AnswersInv, Reclaim
  PROVE  AnswersInv'
<1>1. /\ Takes("assign") /\ cfg /\ layers = Head(queue).range
      /\ HubReady(conn, Head(queue).gen, lastReady)
      /\ UNCHANGED <<cfg, layers, chain, cache, lastReady, told, gen, link, conn, work, req>>
  BY DEF Reclaim, SameRange, socketVars, engineVars
<1>2. /\ Now = Idle /\ Now.op = "idle" /\ Now' = Now
      /\ Moved(1) /\ Waits(1, "assign") /\ Head(queue) = queue[1]
      /\ \A k \in DOMAIN queue : k \in Nat /\ k >= 1
  BY <1>1, TakesFirst DEF Now
<1>3. SameTask
  BY <1>2 DEF SameTask, Loading
<1>4. ~Waits(1, "fwd")
  BY <1>2 DEF Waits
<1>5. believed' = believed \/ BeliefInv'
  <2>1. CASE Heard(conn) /\ Head(queue).gen = gen
    <3>1. link' = "open" /\ believed' = layers
      BY <1>1, <2>1 DEF HubReady, Heard, AnswersInv, EngineInv
    <3>2. queue[1].range = told /\ \A j : Waits(j, "assign") => j <= 1
      BY <1>2, <2>1 DEF AnswersInv, AssignInv
    <3>3. NoAssignWaits'
      <4> SUFFICES ASSUME NEW i, Waits(i, "assign")' PROVE FALSE
        BY DEF NoAssignWaits
      <4>1. i \in Nat /\ i >= 1 /\ Waits(i + 1, "assign")
        BY <1>2 DEF Moved, Waits
      <4>2. i + 1 <= 1
        BY <3>2, <4>1
      <4> QED
        BY <4>1, <4>2
    <3>4. InForce'
      BY <1>1, <1>2, <3>2, <3>3 DEF InForce, NoAssignWaits
    <3> QED
      BY <1>1, <1>2, <3>1, <3>2, <3>3, <3>4 DEF BeliefInv
  <2>2. CASE ~(Heard(conn) /\ Head(queue).gen = gen)
    BY <1>1, <2>2 DEF HubReady
  <2> QED
    BY <2>1, <2>2
<1>6. \A r \in Reqs : cache'[r] = cache[r] \/ req[r].st = "over"
  BY <1>1
<1>7. UNCHANGED <<cfg, layers, chain, lastReady, told, gen, link, req>>
  BY <1>1
<1>8. 1 \in {0, 1} /\ (1 = 1 => ~Waits(1, "fwd"))
  BY <1>4
<1> QED
  BY <1>2, <1>3, <1>5, <1>6, <1>7, <1>8, TakenKeeps

\* An assign of another range is taken while no request is alive.
LEMMA LoadStartsKeeps ==
  ASSUME AppTyped, AnswersInv, StartAssign
  PROVE  AnswersInv'
<1> DEFINE f == Head(queue)
<1>1. /\ Takes("assign") /\ ~SameRange(f.range)
      /\ ~cfg' /\ layers' = f.range
      /\ work' = [work EXCEPT ![conn] = [op |-> "fetch", range |-> f.range,
                                          gen |-> f.gen, cut |-> FALSE]]
      /\ UNCHANGED <<chain, cache, told, gen, believed, link, conn, req>>
  BY DEF StartAssign, socketVars, engineVars, hubVars
<1>2. /\ conn \in Conns /\ Now = Idle /\ Now.op = "idle"
      /\ Moved(1) /\ Waits(1, "assign") /\ f = queue[1]
      /\ \A k \in DOMAIN queue : k \in Nat /\ k >= 1
  BY <1>1, TakesFirst
<1>3. Now' = [op |-> "fetch", range |-> f.range, gen |-> f.gen, cut |-> FALSE]
  <2>1. DOMAIN work = Conns
    BY DEF AppTyped, WorkTyped
  <2> QED
    BY <1>1, <1>2, <2>1 DEF Now
<1>4. Loading' /\ Now'.op = "fetch" /\ Now'.range = f.range /\ Now'.gen = f.gen
  BY <1>3 DEF Loading
<1>5. ~InForce /\ believed = NoRange
  <2>1. SUFFICES ASSUME InForce PROVE FALSE
    BY DEF AnswersInv, BeliefInv
  <2>2. cfg /\ layers = f.range
    BY <1>2, <2>1 DEF InForce
  <2>3. lastReady # NoReady
    <3>1. lastReady.range \in Ranges
      BY <2>2 DEF AnswersInv, EngineInv
    <3>2. NoReady.range = <<0, 0>> /\ <<0, 0>> \notin Ranges
      BY DEF NoReady, NoRange, Ranges
    <3> QED
      BY <3>1, <3>2
  <2> QED
    BY <1>1, <2>2, <2>3 DEF SameRange
<1> HIDE DEF f
<1>6. \A i : Waits(i, "fwd") => link # "open"
  BY <1>2 DEF AnswersInv, ForwardInv, Waits
<1>7. \A r \in Reqs : req[r].st # "asked" /\ ~Alive(r)
  <2> TAKE r \in Reqs
  <2>1. req[r].st # "asked"
    BY <1>2, <1>6 DEF AnswersInv, PlaceInv, Serving, Asks
  <2> QED
    BY <1>5, <2>1 DEF AnswersInv, CacheInv, Alive
<1>8. /\ \A i, t : Waits(i, t)' => i \in Nat /\ i >= 1 /\ Waits(i + 1, t) /\ queue'[i] = queue[i + 1]
  BY <1>2 DEF Moved, Waits
<1>9. EngineInv'
  BY <1>1, <1>4 DEF EngineInv
<1>10. AssignInv'
  <2>1. \A i : Waits(i, "assign")' =>
          /\ queue'[i].gen <= gen'
          /\ queue'[i].gen = gen' =>
               queue'[i].range = told' /\ \A j : Waits(j, "assign")' => j <= i
    BY <1>1, <1>2, MovedAssigns
  <2>2. f.gen <= gen /\ (f.gen = gen => f.range = told /\ \A j : Waits(j, "assign") => j <= 1)
    BY <1>2 DEF AnswersInv, AssignInv
  <2>3. (\A j : Waits(j, "assign") => j <= 1) => NoAssignWaits'
    <3> SUFFICES ASSUME \A j : Waits(j, "assign") => j <= 1, NEW i, Waits(i, "assign")'
                 PROVE  FALSE
      BY DEF NoAssignWaits
    <3>1. i \in Nat /\ i >= 1 /\ Waits(i + 1, "assign")
      BY <1>8
    <3>2. i + 1 <= 1
      BY <3>1
    <3> QED
      BY <3>1, <3>2
  <2> QED
    BY <1>1, <1>4, <2>1, <2>2, <2>3 DEF AssignInv
<1>11. BeliefInv'
  BY <1>1, <1>5 DEF BeliefInv
<1>12. ForwardInv'
  BY <1>1, <1>6, <1>8 DEF ForwardInv
<1>13. PlaceInv'
  <2>1. \A i, r : Asks(i, r)' => Asks(i + 1, r)
    BY <1>8 DEF Asks
  <2>2. \A r : ~Serving(r)'
    BY <1>4 DEF Serving
  <2>3. \A i : \A r \in Reqs : Waits(i, "reset")' /\ queue'[i].r = r => req[r].st = "over"
    BY <1>8 DEF AnswersInv, PlaceInv
  <2>4. \A r \in Reqs : req[r].st \in {"new", "between"} => \A i : ~Asks(i, r)'
    BY <2>1 DEF AnswersInv, PlaceInv
  <2> QED
    BY <1>1, <1>7, <2>2, <2>3, <2>4 DEF PlaceInv
<1>14. CacheInv'
  <2>1. \A r \in Reqs : ~Alive(r)'
    BY <1>1, <1>7 DEF Alive
  <2> QED
    BY <1>1, <2>1 DEF AnswersInv, CacheInv
<1> QED
  BY <1>9, <1>10, <1>11, <1>12, <1>13, <1>14 DEF AnswersInv

\* A socket that is lost, and an exception that is raised, leave no request asked.
LEMMA LostSevers ==
  ASSUME AppTyped, Lost, gen' = gen
  PROVE  Severs
BY LostRequests DEF AppTyped, Lost, Severs

\* The same of an exception, whether its socket is still there or not.
LEMMA BrokenSevers ==
  ASSUME AppTyped, AnswersInv, Broken(conn), gen' = gen
  PROVE  Severs
<1>1. CASE Heard(conn)
  BY <1>1, LostSevers DEF Broken
<1>2. CASE ~Heard(conn)
  <2>1. link # "open" /\ UNCHANGED <<link, believed, req>>
    BY <1>2 DEF Broken, Heard
  <2>2. believed = NoRange /\ \A r \in Reqs : req[r].st # "asked"
    BY <2>1 DEF AnswersInv, BeliefInv, PlaceInv
  <2> QED
    BY <2>1, <2>2 DEF Severs
<1> QED
  BY <1>1, <1>2

\* The thread that works is the one of the last socket.
LEMMA WorkIsNow ==
  ASSUME AppTyped, OneWorker, ~overlap, NEW c \in Conns, work[c] # Idle, UNCHANGED conn
  PROVE  /\ c = conn /\ Now = work[c] /\ Now' = work'[c] /\ DOMAIN work = Conns
         /\ QueueTyped
BY DEF OneWorker, Now, AppTyped, WorkTyped

\* What fails ends with the socket, if there still is one.
LEMMA FailedKeeps ==
  ASSUME AppTyped, AnswersInv, OneWorker, ~overlap, NEW c \in Conns, work[c] # Idle,
         FailFetch(c) \/ FailLoadCpu(c) \/ CutForward(c)
  PROVE  AnswersInv'
<1>1. /\ Raise(c) /\ UNCHANGED <<cfg, layers, lastReady, told, gen, conn, queue>>
      /\ \/ UNCHANGED <<chain, cache>>
         \/ work[c].op = "load" /\ \A r \in Reqs : cache'[r] = NoCache
  BY DEF FailFetch, FailLoadCpu, CutForward, At, engineVars
<1>2. c = conn /\ Now = work[c] /\ Now' = work'[c] /\ DOMAIN work = Conns /\ QueueTyped
  BY <1>1, WorkIsNow
<1>3. Severs
  BY <1>1, <1>2, BrokenSevers DEF Raise
<1>4. EndsTask
  <2>1. work'[c] = Idle
    BY <1>1, <1>2 DEF Raise
  <2> QED
    BY <1>2, <2>1 DEF EndsTask, Idle
<1>5. \A i : i \in DOMAIN queue' => i \in Nat /\ i + 0 \in DOMAIN queue /\ queue'[i] = queue[i + 0]
  BY <1>1, <1>2, QueueStays DEF Moved
<1>6. \/ UNCHANGED <<chain, cache>>
      \/ Loading /\ EndsTask /\ \A r \in Reqs : cache'[r] = NoCache
  BY <1>1, <1>2, <1>4 DEF Loading
<1>7. UNCHANGED <<cfg, layers, lastReady, told, gen>> /\ 0 \in {0, 1}
  BY <1>1
<1> QED
  BY <1>3, <1>4, <1>5, <1>6, <1>7, SeveredKeeps

\* A forward beyond its cache ends the socket, or finds it gone.
LEMMA OverrunKeeps ==
  ASSUME AppTyped, AnswersInv, OverrunsCache
  PROVE  AnswersInv'
<1>1. /\ Takes("fwd") /\ Raise(conn)
      /\ UNCHANGED <<cfg, layers, lastReady, told, gen, conn, chain, cache>>
  BY DEF OverrunsCache, engineVars
<1>2. conn \in Conns /\ Now.op = "idle" /\ Moved(1)
  BY <1>1, TakesFirst
<1>3. Severs
  BY <1>1, BrokenSevers DEF Raise
<1>4. EndsTask
  <2>1. DOMAIN work = Conns
    BY DEF AppTyped, WorkTyped
  <2>2. work'[conn] = Idle
    BY <1>1, <1>2, <2>1 DEF Raise
  <2> QED
    BY <1>1, <1>2, <2>2 DEF EndsTask, Now, Idle
<1>5. \A i : i \in DOMAIN queue' => i \in Nat /\ i + 1 \in DOMAIN queue /\ queue'[i] = queue[i + 1]
  BY <1>2 DEF Moved
<1>6. UNCHANGED <<cfg, layers, lastReady, told, gen>> /\ UNCHANGED <<chain, cache>> /\ 1 \in {0, 1}
  BY <1>1
<1> QED
  BY <1>3, <1>4, <1>5, <1>6, SeveredKeeps

\* The caches go before the layers do.
LEMMA LoadCpuKeeps ==
  ASSUME AppTyped, AnswersInv, OneWorker, ~overlap, NEW c \in Conns, work[c] # Idle, LoadCpu(c)
  PROVE  AnswersInv'
<1>1. /\ UNCHANGED <<cfg, layers, lastReady, told, gen, conn, queue, link, believed, req>>
      /\ work[c].op = "load" /\ work' = [work EXCEPT ![c].op = "hash"]
      /\ cache' = [r \in Reqs |-> NoCache] /\ chain' = Chain(work[c].range)
  BY DEF LoadCpu, At, To, socketVars, hubVars
<1>2. c = conn /\ Now = work[c] /\ Now' = work'[c] /\ DOMAIN work = Conns /\ QueueTyped
  BY <1>1, WorkIsNow
<1>3. Loading /\ Now.op = "load" /\ Now \in Loads
  BY <1>1, <1>2, NowTyped DEF Loading, AppTyped
<1>4. Now'.op = "hash" /\ Now'.range = Now.range /\ Now'.gen = Now.gen
  BY <1>1, <1>2, <1>3 DEF Loads
<1>5. \A r \in Reqs : req[r].st # "asked" /\ ~Alive(r)
  BY <1>3, LoadingNoneAlive
<1>6. \A i, t : Waits(i, t)' <=> Waits(i, t)
  BY <1>1 DEF Waits
<1>7. EngineInv'
  BY <1>1, <1>2, <1>3, <1>4 DEF AnswersInv, EngineInv, Loading
<1>8. AssignInv'
  BY <1>1, <1>3, <1>4, <1>6 DEF AnswersInv, AssignInv, Loading, NoAssignWaits
<1>9. BeliefInv' /\ ForwardInv'
  BY <1>1, <1>6 DEF AnswersInv, BeliefInv, ForwardInv, InForce, NoAssignWaits
<1>10. PlaceInv'
  BY <1>1, <1>4, <1>5, <1>6 DEF AnswersInv, PlaceInv, Serving, Asks
<1>11. CacheInv'
  <2>1. \A r \in Reqs : ~Alive(r)'
    BY <1>1, <1>5 DEF Alive
  <2> QED
    BY <1>1, <2>1 DEF AnswersInv, CacheInv
<1> QED
  BY <1>7, <1>8, <1>9, <1>10, <1>11 DEF AnswersInv

\* The range that was loaded is up, and in force if it is still the hub's.
LEMMA CommitKeeps ==
  ASSUME AppTyped, AnswersInv, OneWorker, ~overlap, NEW c \in Conns, work[c] # Idle, Commit(c)
  PROVE  AnswersInv'
<1>1. /\ UNCHANGED <<layers, chain, cache, told, gen, conn, queue, link, req>>
      /\ work[c].op = "hash" /\ work' = [work EXCEPT ![c] = Idle]
      /\ cfg' /\ lastReady'.range = work[c].range
      /\ HubReady(c, work[c].gen, lastReady')
  BY DEF Commit, At, engineVars
<1>2. c = conn /\ Now = work[c] /\ Now' = work'[c] /\ DOMAIN work = Conns /\ QueueTyped
  BY <1>1, WorkIsNow
<1>3. Loading /\ Now.op = "hash" /\ Now.range \in Ranges
  BY <1>1, <1>2, NowTyped DEF Loading, AppTyped
<1>4. Now'.op = "idle"
  BY <1>1, <1>2 DEF Idle
<1>5. \A r \in Reqs : req[r].st # "asked" /\ ~Alive(r)
  BY <1>3, LoadingNoneAlive
<1>6. \A i, t : Waits(i, t)' <=> Waits(i, t)
  BY <1>1 DEF Waits
<1>7. ~cfg /\ layers = Now.range /\ chain = Chain(layers)
  BY <1>3 DEF AnswersInv, EngineInv
<1>8. EngineInv'
  BY <1>1, <1>2, <1>3, <1>4, <1>7 DEF EngineInv, Loading
<1>9. AssignInv'
  BY <1>1, <1>4, <1>6 DEF AnswersInv, AssignInv, Loading
<1>10. BeliefInv'
  <2>1. CASE Heard(conn) /\ Now.gen = gen
    <3>1. Now.range = told /\ NoAssignWaits
      BY <1>3, <2>1 DEF AnswersInv, AssignInv
    <3>2. believed' = told' /\ link' = "open"
      BY <1>1, <1>2, <2>1, <3>1 DEF HubReady, Heard
    <3>3. NoAssignWaits'
      BY <1>6, <3>1 DEF NoAssignWaits
    <3>4. InForce'
      BY <1>1, <1>7, <3>1, <3>3 DEF InForce, NoAssignWaits
    <3> QED
      BY <3>2, <3>3, <3>4 DEF BeliefInv
  <2>2. CASE ~(Heard(conn) /\ Now.gen = gen)
    BY <1>1, <1>2, <1>7, <2>2 DEF HubReady, AnswersInv, BeliefInv, InForce
  <2> QED
    BY <2>1, <2>2
<1>11. ForwardInv'
  BY <1>1, <1>6, <1>7 DEF AnswersInv, ForwardInv
<1>12. PlaceInv'
  BY <1>1, <1>4, <1>5, <1>6 DEF AnswersInv, PlaceInv, Serving, Asks
<1>13. CacheInv'
  <2>1. \A r \in Reqs : ~Alive(r)'
    BY <1>1, <1>5 DEF Alive
  <2> QED
    BY <1>1, <2>1 DEF AnswersInv, CacheInv
<1> QED
  BY <1>8, <1>9, <1>10, <1>11, <1>12, <1>13 DEF AnswersInv

\* A chain of a range has a layer.
LEMMA ChainOfRange == \A r \in Ranges : Chain(r) # <<>>
<1> TAKE r \in Ranges
<1>1. r[1] \in Nat /\ r[2] \in Nat /\ r[1] < r[2]
  BY NLayersAssumption DEF Ranges
<1>2. 1 \in DOMAIN Chain(r)
  BY <1>1 DEF Chain
<1> QED
  BY <1>2

\* A forward finds the chain and the cache it was sent for, or nobody waits for it.
LEMMA ForwardStartsKeeps ==
  ASSUME AppTyped, AnswersInv, StartForward
  PROVE  AnswersInv'
<1> DEFINE f == Head(queue)
<1>1. /\ Takes("fwd")
      /\ UNCHANGED <<cfg, layers, lastReady, chain, told, gen, link, believed, conn>>
  BY DEF StartForward, socketVars
<1>2. /\ conn \in Conns /\ Now = Idle /\ Now.op = "idle" /\ DOMAIN work = Conns
      /\ Moved(1) /\ Waits(1, "fwd") /\ f = queue[1]
      /\ \A k \in DOMAIN queue : k \in Nat /\ k >= 1
      /\ f \in ForwardFrames
  BY <1>1, TakesFirst DEF AppTyped, WorkTyped, Waits
<1>3. CASE ~cfg
  <2>1. /\ HubAnswer(conn, f.r, [req[f.r] EXCEPT !.st = "broken"])
        /\ UNCHANGED <<work, cache>>
    BY <1>3 DEF StartForward
  <2>2. link # "open"
    BY <1>2, <1>3 DEF AnswersInv, ForwardInv
  <2>3. req' = req /\ link' # "open"
    BY <1>1, <2>1, <2>2 DEF HubAnswer, Heard
  <2>4. believed = NoRange /\ \A r \in Reqs : req[r].st # "asked"
    BY <2>2 DEF AnswersInv, BeliefInv, PlaceInv
  <2>5. Severs
    BY <1>1, <2>3, <2>4 DEF Severs
  <2>6. EndsTask
    BY <1>1, <1>2, <2>1 DEF EndsTask, Now
  <2>7. \A i : i \in DOMAIN queue' => i \in Nat /\ i + 1 \in DOMAIN queue /\ queue'[i] = queue[i + 1]
    BY <1>2 DEF Moved
  <2>8. UNCHANGED <<cfg, layers, lastReady, told, gen>> /\ UNCHANGED <<chain, cache>> /\ 1 \in {0, 1}
    BY <1>1, <2>1
  <2> QED
    BY <2>5, <2>6, <2>7, <2>8, SeveredKeeps
<1>4. CASE cfg
  <2>1. /\ cache' = [cache EXCEPT ![f.r] = Opened(f.r)]
        /\ work' = [work EXCEPT ![conn] =
              [op |-> "fwd", r |-> f.r, right |-> Right(f), cut |-> FALSE]]
        /\ req' = req
    BY <1>4 DEF StartForward
  <2>2. Now' = [op |-> "fwd", r |-> f.r, right |-> Right(f), cut |-> FALSE]
    BY <1>1, <1>2, <2>1 DEF Now
  <2>3. Now'.op = "fwd" /\ Now'.r = f.r /\ Now'.right = Right(f)
    BY <2>2
  <2>4. f.r \in Reqs /\ Asks(1, f.r) /\ f.for = queue[1].for
    BY <1>2 DEF ForwardFrames, Asks
  <2>5. \A r \in Reqs : cache'[r] = IF r = f.r THEN Opened(f.r) ELSE cache[r]
    BY <2>1, <2>4 DEF AppTyped, CacheTyped
  <2>6. req[f.r].st \notin {"new", "between"}
    BY <2>4 DEF AnswersInv, PlaceInv
  <2>7. /\ \A i, t : Waits(i, t)' => i \in Nat /\ i >= 1 /\ Waits(i + 1, t) /\ queue'[i] = queue[i + 1]
        /\ \A i, r : Asks(i, r)' => i \in Nat /\ i >= 1 /\ Asks(i + 1, r)
        /\ \A k, r : Asks(k, r) /\ k # 1 => Asks(k - 1, r)'
    BY <1>2, MovedFrames DEF Moved, Waits, Asks
  <2>8. (InForce => InForce') /\ ForwardInv' /\ (NoAssignWaits => NoAssignWaits')
    BY <1>1, <1>2, MovedKeeps, MovedAssigns
  <2>9. ~Loading' /\ Now'.op # "hash"
    BY <2>3 DEF Loading
  <2>10. Alive(f.r) => Right(f) /\ Opened(f.r) = [by |-> chain, n |-> req[f.r].n]
    <3> SUFFICES ASSUME Alive(f.r)
                 PROVE  Right(f) /\ Opened(f.r) = [by |-> chain, n |-> req[f.r].n]
      OBVIOUS
    <3>1. req[f.r].st = "asked" /\ link = "open"
      BY <2>4, <2>6 DEF Alive, AnswersInv, PlaceInv
    <3>2. chain = Chain(f.for)
      BY <1>2, <1>4, <2>4, <3>1 DEF AnswersInv, ForwardInv, EngineInv
    <3>3. CacheFits(f.r)
      BY <2>4 DEF AnswersInv, CacheInv
    <3>4. Opened(f.r) = [by |-> chain, n |-> req[f.r].n]
      BY <3>3 DEF CacheFits, Opened, NoCache
    <3> QED
      BY <3>2, <3>4 DEF Right
  <2> HIDE DEF f
  <2>11. EngineInv'
    BY <1>1, <2>9 DEF AnswersInv, EngineInv
  <2>12. AssignInv'
    BY <1>1, <1>2, <2>9, MovedAssigns DEF AssignInv
  <2>13. BeliefInv'
    BY <1>1, <2>8 DEF AnswersInv, BeliefInv
  <2>14. PlaceInv'
    <3> SUFFICES ASSUME NEW r \in Reqs
                 PROVE  /\ (req[r].st \in {"new", "between"} => ~Serving(r) /\ \A i : ~Asks(i, r))'
                        /\ (req[r].st = "asked" =>
                              /\ link = "open" /\ (Serving(r) \/ \E i : Asks(i, r))
                              /\ \A i, j : Asks(i, r) /\ Asks(j, r) => i = j
                              /\ Serving(r) => \A i : ~Asks(i, r))'
                        /\ (\A i : Waits(i, "reset") /\ queue[i].r = r => req[r].st = "over")'
      BY DEF PlaceInv
    <3>1. (req[r].st \in {"new", "between"} => ~Serving(r) /\ \A i : ~Asks(i, r))'
      BY <2>1, <2>3, <2>6, <2>7 DEF AnswersInv, PlaceInv, Serving
    <3>2. ASSUME req'[r].st = "asked"
          PROVE  /\ link' = "open" /\ (Serving(r)' \/ \E i : Asks(i, r)')
                 /\ \A i, j : Asks(i, r)' /\ Asks(j, r)' => i = j
                 /\ Serving(r)' => \A i : ~Asks(i, r)'
      <4>1. /\ link = "open" /\ \E i : Asks(i, r)
            /\ \A i, j : Asks(i, r) /\ Asks(j, r) => i = j
        BY <1>2, <2>1, <3>2 DEF AnswersInv, PlaceInv, Serving
      <4>2. ASSUME NEW i, NEW j, Asks(i, r)', Asks(j, r)' PROVE i = j
        <5>1. i \in Nat /\ j \in Nat /\ i + 1 = j + 1
          BY <2>7, <4>1, <4>2
        <5> QED
          BY <5>1
      <4>3. ASSUME r = f.r, NEW i, Asks(i, r)' PROVE FALSE
        <5>1. i \in Nat /\ i >= 1 /\ i + 1 = 1
          BY <2>4, <2>7, <4>1, <4>3
        <5> QED
          BY <5>1
      <4>4. r # f.r => \E i : Asks(i, r)'
        <5> SUFFICES ASSUME r # f.r PROVE \E i : Asks(i, r)'
          OBVIOUS
        <5>1. PICK k : Asks(k, r)
          BY <4>1
        <5>2. k # 1
          BY <1>2, <5>1 DEF Asks
        <5> QED
          BY <2>7, <5>1, <5>2
      <4> QED
        BY <1>1, <2>3, <4>1, <4>2, <4>3, <4>4 DEF Serving
    <3>3. (\A i : Waits(i, "reset") /\ queue[i].r = r => req[r].st = "over")'
      BY <2>1, <2>7 DEF AnswersInv, PlaceInv
    <3> QED
      BY <3>1, <3>2, <3>3
  <2>15. CacheInv'
    <3> SUFFICES ASSUME NEW r \in Reqs
                 PROVE  /\ req'[r].st = "new" => cache'[r] = NoCache
                        /\ ~req'[r].lost => req'[r].right
                        /\ Alive(r)' => CacheFits(r)' /\ (req'[r].gen = gen' => InForce')
                        /\ Alive(r)' /\ Serving(r)' =>
                             Now'.right /\ cache'[r] = [by |-> chain', n |-> req'[r].n]
      BY DEF CacheInv
    <3>1. (req'[r].st = "new" => cache'[r] = NoCache) /\ (~req'[r].lost => req'[r].right)
      BY <2>1, <2>5, <2>6 DEF AnswersInv, CacheInv
    <3>2. Alive(r)' <=> Alive(r)
      BY <1>1, <2>1 DEF Alive
    <3>3. CASE r = f.r
      <4>1. Alive(r)' => cache'[r] = [by |-> chain', n |-> req'[r].n] /\ Now'.right
        BY <1>1, <2>1, <2>3, <2>5, <2>10, <3>2, <3>3
      <4>2. Alive(r)' => CacheFits(r)'
        BY <4>1 DEF CacheFits
      <4>3. Alive(r)' => (req'[r].gen = gen' => InForce')
        BY <1>1, <2>1, <2>8, <3>2 DEF AnswersInv, CacheInv
      <4> QED
        BY <3>1, <4>1, <4>2, <4>3
    <3>4. CASE r # f.r
      <4>1. ~Serving(r)' /\ cache'[r] = cache[r]
        BY <2>3, <2>5, <3>4 DEF Serving
      <4> QED
        BY <1>1, <2>1, <2>8, <3>1, <3>2, <4>1 DEF AnswersInv, CacheInv, CacheFits
    <3> QED
      BY <3>3, <3>4
  <2> QED
    BY <2>8, <2>11, <2>12, <2>13, <2>14, <2>15 DEF AnswersInv
<1> QED
  BY <1>3, <1>4

\* An answer that is taken ends one pass more, on a cache of one pass more.
LEMMA AnswerKeeps ==
  ASSUME AppTyped, AnswersInv, OneWorker, ~overlap, NEW c \in Conns, work[c] # Idle, Answer(c)
  PROVE  AnswersInv'
<1> DEFINE r == Now.r
<1>1. /\ UNCHANGED <<cfg, layers, lastReady, chain, told, gen, link, believed, conn, queue>>
      /\ work[c].op = "fwd" /\ work' = [work EXCEPT ![c] = Idle]
  BY DEF Answer, At, socketVars
<1>2. c = conn /\ Now = work[c] /\ Now' = work'[c] /\ DOMAIN work = Conns /\ QueueTyped
  BY <1>1, WorkIsNow
<1>3. Now.op = "fwd" /\ r \in Reqs /\ Now'.op = "idle" /\ Serving(r)
  BY <1>1, <1>2, NowTyped DEF AppTyped, Idle, Serving
<1>4. /\ cache' = IF cache[r] = NoCache THEN cache ELSE [cache EXCEPT ![r].n = @ + 1]
      /\ HubAnswer(c, r, [req[r] EXCEPT !.st = "between", !.n = @ + 1,
                                        !.right = @ /\ work[c].right])
  BY <1>2 DEF Answer
<1>5. \A s \in Reqs : s # r => cache'[s] = cache[s]
  BY <1>3, <1>4 DEF AppTyped, CacheTyped
<1>6. \A n : cache[r] # NoCache /\ cache[r] = [by |-> chain, n |-> n] =>
               cache'[r] = [by |-> chain, n |-> n + 1]
  BY <1>3, <1>4 DEF AppTyped, CacheTyped
<1>7. /\ Moved(0) /\ \A k \in DOMAIN queue : k \in Nat /\ k >= 1
      /\ \A i, t : Waits(i, t)' <=> Waits(i, t)
      /\ \A i, s : Asks(i, s)' <=> Asks(i, s)
  BY <1>1, <1>2, QueueStays DEF Waits, Asks
<1>8. (InForce => InForce') /\ ForwardInv' /\ (NoAssignWaits => NoAssignWaits')
  BY <1>1, <1>7, MovedKeeps, MovedAssigns
<1>9. \A s : ~Serving(s)' /\ (s # r => ~Serving(s))
  BY <1>3 DEF Serving
<1>10. EngineInv' /\ AssignInv' /\ BeliefInv'
  <2>1. ~Loading' /\ Now'.op # "hash"
    BY <1>3 DEF Loading
  <2>2. EngineInv'
    BY <1>1, <2>1 DEF AnswersInv, EngineInv
  <2>3. AssignInv'
    BY <1>1, <1>7, <2>1, MovedAssigns DEF AssignInv
  <2>4. BeliefInv'
    BY <1>1, <1>8 DEF AnswersInv, BeliefInv
  <2> QED
    BY <2>2, <2>3, <2>4
<1>11. \A s \in Reqs : /\ IsRequest(req[s])
                       /\ Alive(s) <=> ~req[s].lost /\ (req[s].st = "asked" \/ (req[s].st = "between" /\ req[s].gen = gen))
  BY DEF Alive, AppTyped, RequestTyped
<1>12. CASE Heard(c) /\ req[r].st = "asked"
  <2>1. PICK b : b = (req[r].right /\ Now.right)
    OBVIOUS
  <2>2. PICK q : q = Answered(req[r], b)
    OBVIOUS
  <2>3. req' = [req EXCEPT ![r] = q]
    BY <1>2, <1>4, <1>12, <2>1, <2>2 DEF HubAnswer, Answered
  <2>4. q.st = "between" /\ q.gen = req[r].gen /\ q.n = req[r].n + 1 /\ q.lost = req[r].lost /\ q.right = b
    BY <1>3, <1>11, <2>2, IsAnswered
  <2>5. \A s \in Reqs : req'[s] = IF s = r THEN q ELSE req[s]
    BY <1>3, <2>3 DEF AppTyped, RequestTyped
  <2> HIDE DEF r
  <2>6. PlaceInv'
    <3> SUFFICES ASSUME NEW s \in Reqs
                 PROVE  /\ (req[s].st \in {"new", "between"} => ~Serving(s) /\ \A i : ~Asks(i, s))'
                        /\ (req[s].st = "asked" =>
                              /\ link = "open" /\ (Serving(s) \/ \E i : Asks(i, s))
                              /\ \A i, j : Asks(i, s) /\ Asks(j, s) => i = j
                              /\ Serving(s) => \A i : ~Asks(i, s))'
                        /\ (\A i : Waits(i, "reset") /\ queue[i].r = s => req[s].st = "over")'
      BY DEF PlaceInv
    <3>1. CASE s = r
      <4>1. \A i : ~Asks(i, r)
        BY <1>3, <1>12 DEF AnswersInv, PlaceInv
      <4>2. \A i : Waits(i, "reset") /\ queue[i].r = r => req[r].st = "over"
        BY <1>3 DEF AnswersInv, PlaceInv
      <4> QED
        BY <1>1, <1>7, <1>9, <1>12, <2>4, <2>5, <3>1, <4>1, <4>2
    <3>2. CASE s # r
      <4>1. req'[s] = req[s] /\ ~Serving(s) /\ ~Serving(s)'
        BY <1>9, <2>5, <3>2
      <4> QED
        BY <1>1, <1>7, <4>1 DEF AnswersInv, PlaceInv
    <3> QED
      BY <3>1, <3>2
  <2>7. CacheInv'
    <3> SUFFICES ASSUME NEW s \in Reqs
                 PROVE  /\ req'[s].st = "new" => cache'[s] = NoCache
                        /\ ~req'[s].lost => req'[s].right
                        /\ Alive(s)' => CacheFits(s)' /\ (req'[s].gen = gen' => InForce')
      BY <1>9 DEF CacheInv
    <3>1. CASE s = r
      <4>1. ~req[r].lost => /\ Alive(r) /\ req[r].right /\ Now.right
                            /\ cache[r] = [by |-> chain, n |-> req[r].n]
                            /\ req[r].gen = gen => InForce
        BY <1>3, <1>11, <1>12 DEF AnswersInv, CacheInv
      <4>2. ~req'[s].lost => req'[s].right
        BY <2>1, <2>4, <2>5, <3>1, <4>1
      <4>3. ASSUME Alive(s)'
            PROVE  CacheFits(s)' /\ (req'[s].gen = gen' => InForce')
        <5>1. ~req[r].lost /\ req[r].gen = gen
          BY <1>1, <2>4, <2>5, <3>1, <4>3 DEF Alive
        <5>2. InForce /\ InForce'
          BY <1>8, <4>1, <5>1
        <5>3. chain # <<>>
          BY <5>2, ChainOfRange DEF InForce, AnswersInv, EngineInv
        <5>4. cache[r] # NoCache
          BY <4>1, <5>1, <5>3 DEF NoCache
        <5>5. cache'[r] = [by |-> chain, n |-> req[r].n + 1]
          BY <1>6, <4>1, <5>1, <5>4
        <5> QED
          BY <1>1, <2>4, <2>5, <3>1, <5>2, <5>5 DEF CacheFits
      <4> QED
        BY <2>4, <2>5, <3>1, <4>2, <4>3
    <3>2. CASE s # r
      <4>1. req'[s] = req[s] /\ cache'[s] = cache[s]
        BY <1>5, <2>5, <3>2
      <4>2. Alive(s)' <=> Alive(s)
        BY <1>1, <4>1 DEF Alive
      <4> QED
        BY <1>1, <1>8, <4>1, <4>2 DEF AnswersInv, CacheInv, CacheFits
    <3> QED
      BY <3>1, <3>2
  <2> QED
    BY <1>8, <1>10, <2>6, <2>7 DEF AnswersInv
<1>13. CASE ~(Heard(c) /\ req[r].st = "asked")
  <2>1. req' = req
    BY <1>4, <1>13 DEF HubAnswer
  <2>2. req[r].st \notin {"new", "between", "asked"}
    BY <1>2, <1>3, <1>13 DEF AnswersInv, PlaceInv, Heard
  <2> HIDE DEF r
  <2>3. PlaceInv'
    BY <1>1, <1>7, <1>9, <2>1, <2>2 DEF AnswersInv, PlaceInv
  <2>4. CacheInv'
    <3> SUFFICES ASSUME NEW s \in Reqs
                 PROVE  /\ req'[s].st = "new" => cache'[s] = NoCache
                        /\ ~req'[s].lost => req'[s].right
                        /\ Alive(s)' => CacheFits(s)' /\ (req'[s].gen = gen' => InForce')
      BY <1>9 DEF CacheInv
    <3>1. Alive(s)' <=> Alive(s)
      BY <1>1, <2>1 DEF Alive
    <3>2. req[s].st = "new" \/ Alive(s) => cache'[s] = cache[s]
      BY <1>5, <2>2 DEF Alive
    <3> QED
      BY <1>1, <1>8, <2>1, <3>1, <3>2 DEF AnswersInv, CacheInv, CacheFits
  <2> QED
    BY <1>8, <1>10, <2>3, <2>4 DEF AnswersInv
<1> QED
  BY <1>12, <1>13

\* At most one frame joins those that wait, behind them.
Joined(n, f) ==
  /\ \A i, t : Waits(i, t) => Waits(i, t)' /\ queue'[i] = queue[i] /\ i \in Nat /\ i < n
  /\ \A i, t : Waits(i, t)' => Waits(i, t) \/ (i = n /\ t = f.t /\ queue'[i] = f)

\* A frame that is sent joins.
LEMMA FrameJoined ==
  ASSUME QueueTyped, NEW f, Frame(f)
  PROVE  \E n \in Nat : Joined(n, f) /\ Waits(n, f.t)' /\ queue'[n] = f
<1>1. PICK n \in Nat : /\ DOMAIN queue' = DOMAIN queue \cup {n} /\ queue'[n] = f
                       /\ \A k \in DOMAIN queue : k \in Nat /\ k < n /\ queue'[k] = queue[k]
  BY QueueGrows
<1> QED
  BY <1>1 DEF Joined, Waits

\* Nothing joins when nothing is sent.
LEMMA NoneJoined ==
  ASSUME QueueTyped, queue' = queue, NEW f
  PROVE  \E n \in Nat : Joined(n, f)
<1>1. Len(queue) \in Nat /\ DOMAIN queue = 1 .. Len(queue)
  BY DEF QueueTyped
<1>2. Joined(Len(queue) + 1, f)
  BY <1>1 DEF Joined, Waits
<1> QED
  BY <1>1, <1>2

\* A frame that is no assign changes nothing of what is in force.
LEMMA JoinedKeeps ==
  ASSUME AnswersInv, NEW n \in Nat, NEW f, Joined(n, f), f.t # "assign", Now' = Now,
         UNCHANGED <<cfg, layers, chain, lastReady, told, gen, link, believed>>,
         f.t = "fwd" => cfg /\ layers = f.for /\ NoAssignWaits
  PROVE  /\ InForce => InForce'
         /\ EngineInv' /\ AssignInv' /\ BeliefInv' /\ ForwardInv'
<1>1. /\ \A i : Waits(i, "assign")' <=> Waits(i, "assign")
      /\ \A i, t : Waits(i, t) => queue'[i] = queue[i] /\ i \in Nat /\ i < n
      /\ \A i, t : Waits(i, t)' => Waits(i, t) \/ (i = n /\ t = f.t /\ queue'[i] = f)
  BY DEF Joined
<1>2. (NoAssignWaits => NoAssignWaits') /\ (InForce => InForce')
  BY <1>1 DEF NoAssignWaits, InForce
<1>3. EngineInv'
  BY DEF AnswersInv, EngineInv, Loading
<1>4. AssignInv'
  BY <1>1, <1>2 DEF AnswersInv, AssignInv, Loading
<1>5. BeliefInv'
  BY <1>2 DEF AnswersInv, BeliefInv
<1>6. ForwardInv'
  BY <1>1 DEF AnswersInv, ForwardInv, NoAssignWaits
<1> QED
  BY <1>2, <1>3, <1>4, <1>5, <1>6

\* A prefetch asks nothing.
LEMMA HubPrefetchesKeeps ==
  ASSUME AppTyped, AnswersInv, HubPrefetches
  PROVE  AnswersInv'
<1>1. UNCHANGED <<cfg, layers, chain, lastReady, told, gen, link, believed, work, conn, cache, req>>
  BY DEF HubPrefetches, socketVars, engineVars, hubVars
<1>2. PICK r \in Ranges : Frame([t |-> "prefetch", c |-> conn, range |-> r, gen |-> gen])
  BY DEF HubPrefetches
<1>3. PICK f : f = [t |-> "prefetch", c |-> conn, range |-> r, gen |-> gen]
  OBVIOUS
<1>4. f.t = "prefetch" /\ Frame(f) /\ QueueTyped /\ Now' = Now
  BY <1>1, <1>2, <1>3 DEF AppTyped, Now
<1>5. PICK n \in Nat : Joined(n, f)
  BY <1>4, FrameJoined
<1>6. (InForce => InForce') /\ EngineInv' /\ AssignInv' /\ BeliefInv' /\ ForwardInv'
  BY <1>1, <1>4, <1>5, JoinedKeeps
<1>7. /\ \A i, s : Asks(i, s)' <=> Asks(i, s)
      /\ \A i : Waits(i, "reset")' => Waits(i, "reset") /\ queue'[i] = queue[i]
  BY <1>4, <1>5 DEF Joined, Asks
<1>8. PlaceInv'
  BY <1>1, <1>4, <1>7 DEF AnswersInv, PlaceInv, Serving
<1>9. CacheInv'
  BY <1>1, <1>4, <1>6 DEF AnswersInv, CacheInv, Alive, CacheFits, Serving
<1> QED
  BY <1>6, <1>8, <1>9 DEF AnswersInv

\* A move ends the assign of every request that is between two passes.
LEMMA HubMovesKeeps ==
  ASSUME AppTyped, AnswersInv, HubMoves
  PROVE  AnswersInv'
<1>1. /\ UNCHANGED <<cfg, layers, chain, lastReady, link, work, conn, cache, req>>
      /\ gen' = gen + 1 /\ believed' = NoRange
  BY DEF HubMoves, socketVars, engineVars
<1>2. PICK r \in Ranges : told' = r /\ Frame([t |-> "assign", c |-> conn, range |-> r, gen |-> gen'])
  BY DEF HubMoves
<1>3. PICK f : f = [t |-> "assign", c |-> conn, range |-> r, gen |-> gen']
  OBVIOUS
<1>4. /\ f.t = "assign" /\ f.range = told' /\ f.gen = gen' /\ Frame(f)
      /\ QueueTyped /\ WorkTyped /\ gen \in Nat /\ Now' = Now
  BY <1>1, <1>2, <1>3 DEF AppTyped, NumbersTyped, Now
<1>5. PICK n \in Nat : Joined(n, f)
  BY <1>4, FrameJoined
<1>6. /\ \A i, s : Asks(i, s)' <=> Asks(i, s)
      /\ \A i : Waits(i, "reset")' => Waits(i, "reset") /\ queue'[i] = queue[i]
      /\ \A i : Waits(i, "fwd")' => Waits(i, "fwd") /\ queue'[i] = queue[i] /\ i \in Nat /\ i < n
      /\ \A i : Waits(i, "assign") => queue'[i] = queue[i] /\ i \in Nat /\ i < n
      /\ \A i : Waits(i, "assign")' => Waits(i, "assign") \/ (i = n /\ queue'[i] = f)
  BY <1>4, <1>5 DEF Joined, Asks
<1>7. EngineInv'
  BY <1>1, <1>4 DEF AnswersInv, EngineInv, Loading
<1>8. AssignInv'
  <2>1. ASSUME NEW i, Waits(i, "assign")'
        PROVE  /\ queue'[i].gen <= gen'
               /\ queue'[i].gen = gen' =>
                    queue'[i].range = told' /\ \A j : Waits(j, "assign")' => j <= i
    <3>1. CASE Waits(i, "assign")
      <4>1. queue'[i].gen <= gen /\ queue'[i].gen \in Nat
        <5>1. queue[i] \in Frames /\ queue[i].t = "assign"
          BY <1>4, <3>1 DEF QueueTyped, Waits
        <5>2. queue[i].gen \in Nat
          BY <5>1 DEF Frames, RangeFrames, ForwardFrames, ResetFrames
        <5> QED
          BY <1>6, <3>1, <5>2 DEF AnswersInv, AssignInv
      <4> QED
        BY <1>1, <1>4, <4>1
    <3>2. CASE i = n /\ queue'[i] = f
      <4>1. \A j : Waits(j, "assign")' => j <= n
        BY <1>6
      <4> QED
        BY <1>1, <1>4, <3>2, <4>1
    <3> QED
      BY <1>6, <2>1, <3>1, <3>2
  <2>2. Loading' => Now'.gen \in Nat /\ Now'.gen <= gen
    BY <1>4, NowTyped DEF AnswersInv, AssignInv, Loading
  <2>3. Loading' => Now'.gen <= gen' /\ Now'.gen # gen'
    BY <1>1, <1>4, <2>2
  <2> QED
    BY <2>1, <2>3 DEF AssignInv
<1>9. BeliefInv'
  BY <1>1 DEF BeliefInv
<1>10. ForwardInv'
  BY <1>1, <1>6 DEF AnswersInv, ForwardInv
<1>11. PlaceInv'
  BY <1>1, <1>4, <1>6 DEF AnswersInv, PlaceInv, Serving
<1>12. CacheInv'
  <2> SUFFICES ASSUME NEW s \in Reqs
               PROVE  /\ req'[s].st = "new" => cache'[s] = NoCache
                      /\ ~req'[s].lost => req'[s].right
                      /\ Alive(s)' => CacheFits(s)' /\ (req'[s].gen = gen' => InForce')
                      /\ Alive(s)' /\ Serving(s)' =>
                           Now'.right /\ cache'[s] = [by |-> chain', n |-> req'[s].n]
    BY DEF CacheInv
  <2>1. req[s].gen # gen'
    <3>1. req[s].gen \in Nat /\ req[s].gen <= gen
      BY DEF AppTyped, RequestTyped, IsRequest
    <3> QED
      BY <1>1, <1>4, <3>1
  <2>2. Alive(s)' => Alive(s)
    BY <1>1, <2>1 DEF Alive
  <2> QED
    BY <1>1, <1>4, <2>1, <2>2 DEF AnswersInv, CacheInv, CacheFits, Serving
<1> QED
  BY <1>7, <1>8, <1>9, <1>10, <1>11, <1>12 DEF AnswersInv

\* What is asked is routed on the range in force, and asked once.
LEMMA HubAsksKeeps ==
  ASSUME AppTyped, AnswersInv, NEW r \in Reqs, HubAsks(r)
  PROVE  AnswersInv'
<1>1. /\ UNCHANGED <<cfg, layers, chain, lastReady, told, gen, link, believed, work, conn, cache>>
      /\ link = "open" /\ believed # NoRange
      /\ req[r].st = "new" \/ (req[r].st = "between" /\ req[r].gen = gen)
      /\ req' = [req EXCEPT ![r].st = "asked", ![r].gen = gen]
      /\ Frame([t |-> "fwd", c |-> conn, r |-> r, for |-> believed])
  BY DEF HubAsks, socketVars, engineVars
<1>2. PICK f : f = [t |-> "fwd", c |-> conn, r |-> r, for |-> believed]
  OBVIOUS
<1>3. f.t = "fwd" /\ f.r = r /\ f.for = believed /\ Frame(f) /\ QueueTyped /\ gen \in Nat /\ Now' = Now
  BY <1>1, <1>2 DEF AppTyped, NumbersTyped, Now
<1>4. PICK n \in Nat : Joined(n, f) /\ Waits(n, "fwd")' /\ queue'[n] = f
  BY <1>3, FrameJoined
<1>5. InForce /\ believed = told /\ NoAssignWaits
  BY <1>1 DEF AnswersInv, BeliefInv
<1>6. (InForce => InForce') /\ EngineInv' /\ AssignInv' /\ BeliefInv' /\ ForwardInv'
  <2>1. f.t = "fwd" => cfg /\ layers = f.for /\ NoAssignWaits
    BY <1>3, <1>5 DEF InForce
  <2> QED
    BY <1>1, <1>3, <1>4, <2>1, JoinedKeeps
<1>7. /\ \A i, s : Asks(i, s)' => Asks(i, s) \/ (i = n /\ s = r)
      /\ \A i, s : Asks(i, s) => Asks(i, s)'
      /\ Asks(n, r)'
      /\ \A i : Waits(i, "reset")' => Waits(i, "reset") /\ queue'[i] = queue[i]
  BY <1>3, <1>4 DEF Joined, Asks
<1>8. PICK q : q = AskedIn(req[r], gen)
  OBVIOUS
<1>9. q.st = "asked" /\ q.gen = gen /\ q.n = req[r].n /\ q.right = req[r].right /\ q.lost = req[r].lost
  BY <1>3, <1>8, IsAsked DEF AppTyped, RequestTyped
<1>10. \A s \in Reqs : req'[s] = IF s = r THEN q ELSE req[s]
  BY <1>1, <1>8 DEF AskedIn, AppTyped, RequestTyped
<1>11. ~Serving(r) /\ \A i : ~Asks(i, r)
  BY <1>1 DEF AnswersInv, PlaceInv
<1>12. \A s : Serving(s)' <=> Serving(s)
  BY <1>3 DEF Serving
<1>13. PlaceInv'
  <2> SUFFICES ASSUME NEW s \in Reqs
               PROVE  /\ (req[s].st \in {"new", "between"} => ~Serving(s) /\ \A i : ~Asks(i, s))'
                      /\ (req[s].st = "asked" =>
                            /\ link = "open" /\ (Serving(s) \/ \E i : Asks(i, s))
                            /\ \A i, j : Asks(i, s) /\ Asks(j, s) => i = j
                            /\ Serving(s) => \A i : ~Asks(i, s))'
                      /\ (\A i : Waits(i, "reset") /\ queue[i].r = s => req[s].st = "over")'
    BY DEF PlaceInv
  <2>1. CASE s = r
    <3>1. \A i : ~(Waits(i, "reset") /\ queue[i].r = r)
      BY <1>1 DEF AnswersInv, PlaceInv
    <3>2. req'[s].st = "asked" /\ link' = "open" /\ Asks(n, s)' /\ ~Serving(s)'
      BY <1>1, <1>7, <1>9, <1>10, <1>11, <1>12, <2>1
    <3>3. \A i, j : Asks(i, s)' /\ Asks(j, s)' => i = j
      BY <1>7, <1>11, <2>1
    <3>4. \A i : ~(Waits(i, "reset")' /\ queue'[i].r = s)
      BY <1>7, <2>1, <3>1
    <3> QED
      BY <3>2, <3>3, <3>4
  <2>2. CASE s # r
    <3>1. req'[s] = req[s] /\ (\A i : Asks(i, s)' <=> Asks(i, s)) /\ (Serving(s)' <=> Serving(s))
      BY <1>7, <1>10, <1>12, <2>2
    <3>2. /\ req[s].st \in {"new", "between"} => ~Serving(s) /\ \A i : ~Asks(i, s)
          /\ req[s].st = "asked" =>
               /\ link = "open" /\ (Serving(s) \/ \E i : Asks(i, s))
               /\ \A i, j : Asks(i, s) /\ Asks(j, s) => i = j
               /\ Serving(s) => \A i : ~Asks(i, s)
          /\ \A i : Waits(i, "reset") /\ queue[i].r = s => req[s].st = "over"
      BY DEF AnswersInv, PlaceInv
    <3>3. \A i : Waits(i, "reset")' /\ queue'[i].r = s => req'[s].st = "over"
      BY <1>7, <3>1, <3>2
    <3> QED
      BY <1>1, <3>1, <3>2, <3>3
  <2> QED
    BY <2>1, <2>2
<1>14. CacheInv'
  <2> SUFFICES ASSUME NEW s \in Reqs
               PROVE  /\ req'[s].st = "new" => cache'[s] = NoCache
                      /\ ~req'[s].lost => req'[s].right
                      /\ Alive(s)' => CacheFits(s)' /\ (req'[s].gen = gen' => InForce')
                      /\ Alive(s)' /\ Serving(s)' =>
                           Now'.right /\ cache'[s] = [by |-> chain', n |-> req'[s].n]
    BY DEF CacheInv
  <2>1. CASE s = r
    <3>1. ~req[r].lost => req[r].right
      BY DEF AnswersInv, CacheInv
    <3>2. ~req[r].lost => CacheFits(r)
      <4>1. CASE req[r].st = "new"
        <5>1. req[r] = NewReq
          BY <4>1 DEF AppTyped, RequestTyped
        <5>2. NewReq.n = 0
          BY DEF NewReq
        <5>3. cache[r] = NoCache
          BY <4>1 DEF AnswersInv, CacheInv
        <5> QED
          BY <5>1, <5>2, <5>3 DEF CacheFits
      <4>2. CASE req[r].st = "between" /\ req[r].gen = gen
        BY <4>2 DEF AnswersInv, CacheInv, Alive
      <4> QED
        BY <1>1, <4>1, <4>2
    <3>3. Alive(s)' => ~req[r].lost
      BY <1>9, <1>10, <2>1 DEF Alive
    <3>4. CacheFits(r) => CacheFits(s)'
      BY <1>1, <1>9, <1>10, <2>1 DEF CacheFits
    <3> QED
      BY <1>5, <1>6, <1>9, <1>10, <1>11, <1>12, <2>1, <3>1, <3>2, <3>3, <3>4
  <2>2. CASE s # r
    <3>1. req'[s] = req[s]
      BY <1>10, <2>2
    <3>2. Alive(s)' <=> Alive(s)
      BY <1>1, <3>1 DEF Alive
    <3> QED
      BY <1>1, <1>3, <1>6, <1>12, <3>1, <3>2 DEF AnswersInv, CacheInv, CacheFits
  <2> QED
    BY <2>1, <2>2
<1> QED
  BY <1>6, <1>13, <1>14 DEF AnswersInv

\* A request that is over asks nothing more; its reset waits behind its forward.
LEMMA HubEndsKeeps ==
  ASSUME AppTyped, AnswersInv, NEW r \in Reqs, HubEnds(r)
  PROVE  AnswersInv'
<1>1. /\ UNCHANGED <<cfg, layers, chain, lastReady, told, gen, link, believed, work, conn, cache>>
      /\ req[r].st \in {"between", "asked", "broken"}
      /\ req' = [req EXCEPT ![r].st = "over"]
      /\ queue' = queue \/ Frame([t |-> "reset", c |-> conn, r |-> r])
  BY DEF HubEnds, socketVars, engineVars
<1>2. PICK f : f = [t |-> "reset", c |-> conn, r |-> r]
  OBVIOUS
<1>3. f.t = "reset" /\ f.r = r /\ QueueTyped /\ Now' = Now /\ "over" \in ReqStates
  BY <1>1, <1>2 DEF AppTyped, Now, ReqStates
<1>4. PICK n \in Nat : Joined(n, f)
  BY <1>1, <1>2, <1>3, FrameJoined, NoneJoined
<1>5. (InForce => InForce') /\ EngineInv' /\ AssignInv' /\ BeliefInv' /\ ForwardInv'
  BY <1>1, <1>3, <1>4, JoinedKeeps
<1>6. /\ \A i, s : Asks(i, s)' <=> Asks(i, s)
      /\ \A i : Waits(i, "reset")' => (Waits(i, "reset") /\ queue'[i] = queue[i]) \/ queue'[i].r = r
  BY <1>3, <1>4 DEF Joined, Asks
<1>7. PICK q : q = MovedTo(req[r], "over")
  OBVIOUS
<1>8. q.st = "over" /\ q.right = req[r].right /\ q.lost = req[r].lost
  BY <1>3, <1>7, StateChanges DEF AppTyped, RequestTyped
<1>9. \A s \in Reqs : req'[s] = IF s = r THEN q ELSE req[s]
  BY <1>1, <1>7 DEF MovedTo, AppTyped, RequestTyped
<1>10. \A s : Serving(s)' <=> Serving(s)
  BY <1>3 DEF Serving
<1>11. PlaceInv'
  <2> SUFFICES ASSUME NEW s \in Reqs
               PROVE  /\ (req[s].st \in {"new", "between"} => ~Serving(s) /\ \A i : ~Asks(i, s))'
                      /\ (req[s].st = "asked" =>
                            /\ link = "open" /\ (Serving(s) \/ \E i : Asks(i, s))
                            /\ \A i, j : Asks(i, s) /\ Asks(j, s) => i = j
                            /\ Serving(s) => \A i : ~Asks(i, s))'
                      /\ (\A i : Waits(i, "reset") /\ queue[i].r = s => req[s].st = "over")'
    BY DEF PlaceInv
  <2>1. CASE s = r
    BY <1>8, <1>9, <2>1
  <2>2. CASE s # r
    <3>1. req'[s] = req[s]
      BY <1>9, <2>2
    <3>2. /\ req[s].st \in {"new", "between"} => ~Serving(s) /\ \A i : ~Asks(i, s)
          /\ req[s].st = "asked" =>
               /\ link = "open" /\ (Serving(s) \/ \E i : Asks(i, s))
               /\ \A i, j : Asks(i, s) /\ Asks(j, s) => i = j
               /\ Serving(s) => \A i : ~Asks(i, s)
          /\ \A i : Waits(i, "reset") /\ queue[i].r = s => req[s].st = "over"
      BY DEF AnswersInv, PlaceInv
    <3>3. \A i : Waits(i, "reset")' /\ queue'[i].r = s => req'[s].st = "over"
      BY <1>6, <2>2, <3>1, <3>2
    <3> QED
      BY <1>1, <1>6, <1>10, <3>1, <3>2, <3>3
  <2> QED
    BY <2>1, <2>2
<1>12. CacheInv'
  <2> SUFFICES ASSUME NEW s \in Reqs
               PROVE  /\ req'[s].st = "new" => cache'[s] = NoCache
                      /\ ~req'[s].lost => req'[s].right
                      /\ Alive(s)' => CacheFits(s)' /\ (req'[s].gen = gen' => InForce')
                      /\ Alive(s)' /\ Serving(s)' =>
                           Now'.right /\ cache'[s] = [by |-> chain', n |-> req'[s].n]
    BY DEF CacheInv
  <2>1. CASE s = r
    BY <1>8, <1>9, <2>1 DEF AnswersInv, CacheInv, Alive
  <2>2. CASE s # r
    <3>1. req'[s] = req[s]
      BY <1>9, <2>2
    <3>2. Alive(s)' <=> Alive(s)
      BY <1>1, <3>1 DEF Alive
    <3> QED
      BY <1>1, <1>3, <1>5, <1>10, <3>1, <3>2 DEF AnswersInv, CacheInv, CacheFits
  <2> QED
    BY <2>1, <2>2
<1> QED
  BY <1>5, <1>11, <1>12 DEF AnswersInv

\* A new socket has at most the assign of what the hub told last.
LEMMA ConnectKeeps ==
  ASSUME AppTyped, AnswersInv, LiveQueue, Connect, ~overlap'
  PROVE  AnswersInv'
<1>1. /\ UNCHANGED <<cfg, layers, chain, cache, lastReady, told, gen, req, work>>
      /\ link = "down" /\ link' = "open" /\ conn' = conn + 1 /\ believed' = NoRange
      /\ queue' = queue \/ Frame([t |-> "assign", c |-> conn', range |-> told, gen |-> gen])
      /\ \A c \in Conns : work[c] = Idle
  BY DEF Connect, Hello, engineVars
<1>2. Now = Idle /\ Now' = Idle /\ Idle.op = "idle"
  BY <1>1 DEF Now, Idle
<1>3. ~Loading /\ ~Loading' /\ Now'.op # "hash" /\ \A r : ~Serving(r) /\ ~Serving(r)'
  BY <1>2 DEF Loading, Serving
<1>4. QueueTyped /\ gen \in Nat /\ \A i, t : ~Waits(i, t)
  BY <1>1 DEF LiveQueue, AppTyped, NumbersTyped, Waits
<1>5. PICK f : f = [t |-> "assign", c |-> conn', range |-> told, gen |-> gen]
  OBVIOUS
<1>6. PICK n \in Nat : Joined(n, f)
  BY <1>1, <1>4, <1>5, FrameJoined, NoneJoined
<1>7. \A i, t : Waits(i, t)' => i = n /\ t = "assign" /\ queue'[i].range = told /\ queue'[i].gen = gen
  BY <1>4, <1>5, <1>6 DEF Joined
<1>8. InForce => InForce'
  BY <1>1, <1>7 DEF InForce
<1>9. EngineInv'
  BY <1>1, <1>3 DEF AnswersInv, EngineInv
<1>10. AssignInv'
  BY <1>1, <1>3, <1>4, <1>7 DEF AssignInv
<1>11. BeliefInv' /\ ForwardInv'
  BY <1>1, <1>7 DEF BeliefInv, ForwardInv
<1>12. \A r \in Reqs : req[r].st # "asked"
  BY <1>1 DEF AnswersInv, PlaceInv
<1>13. PlaceInv'
  BY <1>1, <1>3, <1>7, <1>12 DEF PlaceInv, Asks
<1>14. CacheInv'
  BY <1>1, <1>3, <1>8 DEF AnswersInv, CacheInv, Alive, CacheFits
<1> QED
  BY <1>9, <1>10, <1>11, <1>13, <1>14 DEF AnswersInv

\* What is started again knows nothing, and no request under it is alive.
LEMMA RestartKeeps ==
  ASSUME AppTyped, Restart
  PROVE  AnswersInv'
<1>1. /\ cfg' = FALSE /\ work' = [c \in Conns |-> Idle] /\ queue' = <<>>
      /\ cache' = [r \in Reqs |-> NoCache] /\ link' = "down" /\ believed' = NoRange
      /\ req' = [r \in Reqs |->
           IF req[r].st = "new" THEN req[r]
           ELSE [req[r] EXCEPT !.lost = TRUE, !.st = IF @ = "asked" THEN "broken" ELSE @]]
  BY DEF Restart
<1>2. Now'.op = "idle"
  BY <1>1 DEF Now, Idle
<1>3. ~Loading' /\ Now'.op # "hash" /\ \A r : ~Serving(r)'
  BY <1>2 DEF Loading, Serving
<1>4. \A i, t : ~Waits(i, t)'
  <2>1. queue' = <<>>
    BY DEF Restart
  <2>2. DOMAIN queue' = {}
    BY <2>1
  <2> QED
    BY <2>2 DEF Waits
<1>5. ASSUME NEW r \in Reqs
      PROVE  /\ req'[r].st # "asked" /\ cache'[r] = NoCache /\ (~req'[r].lost => req'[r].right)
             /\ req'[r].st = "between" => req'[r].lost
  <2>1. CASE req[r].st = "new"
    <3>1. req'[r] = NewReq /\ req'[r].st = "new"
      BY <1>1, <2>1 DEF AppTyped, RequestTyped
    <3>2. NewReq.right
      BY DEF NewReq
    <3> QED
      BY <1>1, <3>1, <3>2
  <2>2. CASE req[r].st # "new"
    <3>1. req'[r] = Stopped(req[r])
      BY <1>1, <2>2 DEF Stopped
    <3>2. req'[r].lost /\ req'[r].st # "asked"
      BY <3>1, IsStopped DEF AppTyped, RequestTyped
    <3> QED
      BY <1>1, <3>2
  <2> QED
    BY <2>1, <2>2
<1>6. EngineInv' /\ AssignInv' /\ BeliefInv' /\ ForwardInv'
  BY <1>1, <1>3, <1>4 DEF EngineInv, AssignInv, BeliefInv, ForwardInv
<1>7. PlaceInv'
  BY <1>3, <1>4, <1>5 DEF PlaceInv, Asks
<1>8. CacheInv'
  BY <1>3, <1>5 DEF CacheInv, Alive
<1> QED
  BY <1>6, <1>7, <1>8 DEF AnswersInv

\* Fetching and prefetching, and frames that ask nothing.
LEMMA QuietKeeps ==
  ASSUME AppTyped, AnswersInv,
         UNCHANGED <<cfg, layers, chain, cache, lastReady, told, gen, link, believed, req, queue>>,
         SameTask
  PROVE  AnswersInv'
<1>1. /\ Moved(0) /\ \A k \in DOMAIN queue : k \in Nat /\ k >= 1
  BY QueueStays DEF AppTyped
<1>2. UNCHANGED <<cfg, layers, chain, lastReady, told, gen, link, req>>
  OBVIOUS
<1>3. (0 \in {0, 1}) /\ (0 = 1 => ~Waits(1, "fwd")) /\ \A r \in Reqs : cache'[r] = cache[r] \/ req[r].st = "over"
  OBVIOUS
<1> QED
  BY <1>1, <1>2, <1>3, TakenKeeps

\* A prefetch is handed on, a reset clears a cache nobody needs.
LEMMA FrameTakenKeeps ==
  ASSUME AppTyped, AnswersInv, TakePrefetch \/ Reset
  PROVE  AnswersInv'
<1>1. PICK t \in {"prefetch", "reset"} : Takes(t) /\ (t = "reset" <=> ~TakePrefetch)
  <2>1. TakePrefetch => Takes("prefetch")
    BY DEF TakePrefetch
  <2>2. Reset => Takes("reset")
    BY DEF Reset
  <2> QED
    BY <2>1, <2>2
<1>2. /\ conn \in Conns /\ Now = Idle /\ Now.op = "idle" /\ Moved(1) /\ Waits(1, t)
      /\ Head(queue) = queue[1] /\ \A k \in DOMAIN queue : k \in Nat /\ k >= 1
  BY <1>1, TakesFirst
<1>3. UNCHANGED <<cfg, layers, chain, lastReady, told, gen, link, req, believed, work, conn>>
  BY DEF TakePrefetch, Reset, socketVars, engineVars, hubVars
<1>4. SameTask
  BY <1>2, <1>3 DEF SameTask, Now, Loading
<1>5. \A r \in Reqs : cache'[r] = cache[r] \/ req[r].st = "over"
  <2>1. CASE TakePrefetch
    BY <2>1 DEF TakePrefetch, engineVars
  <2>2. CASE ~TakePrefetch
    <3>1. t = "reset" /\ cache' = [cache EXCEPT ![Head(queue).r] = NoCache]
      BY <1>1, <2>2 DEF Reset
    <3>2. \A r \in Reqs : r # Head(queue).r => cache'[r] = cache[r]
      BY <3>1 DEF AppTyped, CacheTyped
    <3>3. \A r \in Reqs : r = Head(queue).r => req[r].st = "over"
      BY <1>2, <3>1 DEF AnswersInv, PlaceInv
    <3> QED
      BY <3>2, <3>3
  <2> QED
    BY <2>1, <2>2
<1>6. (1 \in {0, 1}) /\ (1 = 1 => ~Waits(1, "fwd"))
  BY <1>2 DEF Waits
<1> QED
  BY <1>2, <1>3, <1>4, <1>5, <1>6, TakenKeeps

-----------------------------------------------------------------------------
\* All of it on the CPU engine, unless a thread outlived its socket; a step never
\* changes the engine, and only a restart makes an end of such a thread.
AnswersSound == engine = "cpu" => overlap \/ AnswersInv

AppInv == AppTyped /\ OneWorker /\ LiveQueue /\ AnswersSound

\* A thread that outlived its socket is only forgotten by a restart.
LEMMA OverlapLasts ==
  ASSUME [Next]_vars, ~overlap'
  PROVE  ~overlap \/ Restart
BY DEF Next, Drop, StaleWatch, Teardown, Connect, Hello, Hub, HubMoves, HubPrefetches, HubAsks,
       HubEnds, TakeFrame, Reclaim, StartAssign, TakePrefetch, StartForward, OverrunsCache, Reset,
       WorkStep, Fetch, FailFetch, LoadCpu, FailLoadCpu, LoadNpu, FailLoadNpu, Commit, Answer,
       CutForward, Prefetched, FailPrefetch, vars, history

\* The app keeps the engine it was started with.
LEMMA EngineStays ==
  ASSUME [Next]_vars
  PROVE  engine' = engine
BY DEF Next, Drop, StaleWatch, Teardown, Connect, Hello, Restart, Hub, HubMoves, HubPrefetches,
       HubAsks, HubEnds, TakeFrame, Reclaim, StartAssign, TakePrefetch, StartForward,
       OverrunsCache, Reset, WorkStep, Fetch, FailFetch, LoadCpu, FailLoadCpu, LoadNpu,
       FailLoadNpu, Commit, Answer, CutForward, Prefetched, FailPrefetch, vars, nodeVars

\* What the executor of the last socket does.
LEMMA WorkKeeps ==
  ASSUME AppTyped, AnswersInv, OneWorker, ~overlap, engine = "cpu", NEW c \in Conns, WorkStep(c)
  PROVE  AnswersInv'
<1>1. work[c] # Idle
  BY DEF WorkStep, Fetch, FailFetch, LoadCpu, FailLoadCpu, LoadNpu, FailLoadNpu, Commit, Answer,
         CutForward, At
<1>2. CASE Fetch(c)
  <2>1. /\ UNCHANGED <<cfg, layers, chain, cache, lastReady, told, gen, link, believed, req, queue>>
        /\ UNCHANGED conn /\ work[c].op = "fetch" /\ work' = [work EXCEPT ![c].op = "load"]
    BY <1>2 DEF Fetch, At, To, socketVars, engineVars, hubVars
  <2>2. c = conn /\ Now = work[c] /\ Now' = work'[c] /\ DOMAIN work = Conns
    BY <1>1, <2>1, WorkIsNow
  <2>3. Now \in Loads
    BY <2>1, <2>2, NowTyped DEF AppTyped, Loading
  <2>4. SameTask
    BY <2>1, <2>2, <2>3 DEF SameTask, Loads
  <2> QED
    BY <2>1, <2>4, QuietKeeps
<1>3. CASE FailFetch(c) \/ FailLoadCpu(c) \/ CutForward(c)
  BY <1>1, <1>3, FailedKeeps
<1>4. CASE LoadCpu(c)
  BY <1>1, <1>4, LoadCpuKeeps
<1>5. CASE Commit(c)
  BY <1>1, <1>5, CommitKeeps
<1>6. CASE Answer(c)
  BY <1>1, <1>6, AnswerKeeps
<1>7. ~LoadNpu(c) /\ ~FailLoadNpu(c)
  BY DEF LoadNpu, FailLoadNpu
<1> QED
  BY <1>2, <1>3, <1>4, <1>5, <1>6, <1>7 DEF WorkStep

\* Drops, the hub's watch and the end of a dead socket.
LEMMA SocketEndsKeeps ==
  ASSUME AppTyped, AnswersInv, Drop \/ StaleWatch \/ Teardown
  PROVE  AnswersInv'
<1>1. UNCHANGED <<cfg, layers, lastReady, told, gen>> /\ UNCHANGED <<chain, cache>>
  BY DEF Drop, StaleWatch, Teardown, nodeVars, engineVars, hubVars
<1>2. CASE Drop \/ StaleWatch
  <2>1. Lost /\ UNCHANGED <<work, conn, queue>>
    BY <1>2 DEF Drop, StaleWatch, nodeVars
  <2>2. Severs
    BY <1>1, <2>1, LostSevers
  <2>3. SameTask
    BY <2>1 DEF SameTask, Now
  <2>4. \A i : i \in DOMAIN queue' => i \in Nat /\ i + 0 \in DOMAIN queue /\ queue'[i] = queue[i + 0]
    BY <2>1, QueueStays DEF Moved, AppTyped
  <2>5. 0 \in {0, 1}
    OBVIOUS
  <2> QED
    BY <1>1, <2>2, <2>3, <2>4, <2>5, SeveredKeeps
<1>3. CASE Teardown
  <2>1. /\ link = "dead" /\ link' = "down" /\ queue' = <<>> /\ UNCHANGED <<conn, believed, req>>
        /\ work' = [work EXCEPT ![conn] = IF work[conn] = Idle THEN Idle
                                          ELSE [work[conn] EXCEPT !.cut = TRUE]]
    BY <1>3 DEF Teardown, hubVars
  <2>2. believed = NoRange /\ \A r \in Reqs : req[r].st # "asked"
    BY <2>1 DEF AnswersInv, BeliefInv, PlaceInv
  <2>3. Severs
    BY <2>1, <2>2 DEF Severs
  <2>4. conn \in Conns /\ DOMAIN work = Conns /\ Now = work[conn] /\ Now' = work'[conn]
    BY <2>1 DEF AppTyped, NumbersTyped, WorkTyped, Now
  <2>5. SameTask
    <3>1. CASE Now = Idle
      BY <2>1, <2>4, <3>1 DEF SameTask, Loading, Idle
    <3>2. CASE Now # Idle
      <4>1. Now' = [Now EXCEPT !.cut = TRUE]
        BY <2>1, <2>4, <3>2
      <4>2. Now \in Loads \/ Now \in Forwards
        BY <3>2, NowTyped DEF AppTyped
      <4>3. CASE Now \in Loads
        BY <4>1, <4>3 DEF SameTask, Loads
      <4>4. CASE Now \in Forwards
        BY <4>1, <4>4 DEF SameTask, Forwards, Loading
      <4> QED
        BY <4>2, <4>3, <4>4
    <3> QED
      BY <3>1, <3>2
  <2>6. DOMAIN queue' = {}
    BY <2>1
  <2>7. \A i : i \in DOMAIN queue' => i \in Nat /\ i + 0 \in DOMAIN queue /\ queue'[i] = queue[i + 0]
    BY <2>6
  <2>8. 0 \in {0, 1}
    OBVIOUS
  <2> QED
    BY <1>1, <2>3, <2>5, <2>7, <2>8, SeveredKeeps
<1> QED
  BY <1>2, <1>3

\* Every step of the phone and the hub, for the CPU engine.
LEMMA AnswersSoundStep ==
  ASSUME AppInv, [Next]_vars
  PROVE  AnswersSound'
<1> SUFFICES ASSUME engine' = "cpu", ~overlap' PROVE AnswersInv'
  BY DEF AnswersSound
<1>1. engine = "cpu" /\ AppTyped /\ OneWorker /\ LiveQueue
  BY EngineStays DEF AppInv
<1>2. CASE Restart
  BY <1>1, <1>2, RestartKeeps
<1>3. CASE ~Restart
  <2>1. ~overlap /\ AnswersInv
    BY <1>1, <1>3, OverlapLasts DEF AppInv, AnswersSound
  <2>2. CASE Drop \/ StaleWatch \/ Teardown
    BY <1>1, <2>1, <2>2, SocketEndsKeeps
  <2>3. CASE Connect
    BY <1>1, <2>1, <2>3, ConnectKeeps
  <2>4. CASE Hub
    BY <1>1, <2>1, <2>4, HubMovesKeeps, HubPrefetchesKeeps, HubAsksKeeps, HubEndsKeeps DEF Hub
  <2>5. CASE TakeFrame
    BY <1>1, <2>1, <2>5, ReclaimKeeps, LoadStartsKeeps, ForwardStartsKeeps, OverrunKeeps,
       FrameTakenKeeps DEF TakeFrame
  <2>6. CASE \E c \in Conns : WorkStep(c)
    BY <1>1, <2>1, <2>6, WorkKeeps
  <2>7. CASE Prefetched \/ FailPrefetch \/ UNCHANGED vars
    <3>1. /\ UNCHANGED <<cfg, layers, chain, cache, lastReady, told, gen, link, believed, req, queue>>
          /\ UNCHANGED <<work, conn>>
      BY <2>7 DEF Prefetched, FailPrefetch, vars, nodeVars, socketVars, engineVars, hubVars
    <3>2. SameTask
      BY <3>1 DEF SameTask, Now
    <3> QED
      BY <1>1, <2>1, <3>1, <3>2, QuietKeeps
  <2> QED
    BY <1>3, <2>2, <2>3, <2>4, <2>5, <2>6, <2>7 DEF Next
<1> QED
  BY <1>2, <1>3

\* An app that was just started.
LEMMA AnswersInit ==
  ASSUME Init
  PROVE  AppInv
<1> USE DEF Init
<1>1. Idle \in Works
  BY DEF Works
<1>2. DOMAIN queue = {} /\ queue \in Seq(Frames)
  OBVIOUS
<1>3. NewReq.st = "new" /\ NewReq.gen = 0 /\ NewReq.n = 0 /\ NewReq.right /\ IsRequest(NewReq)
  <2>1. PICK t : t = TRUE
    OBVIOUS
  <2>2. PICK u : u = FALSE
    OBVIOUS
  <2>3. NewReq = RequestOf("new", 0, 0, t, u)
    BY <2>1, <2>2 DEF NewReq, RequestOf
  <2>4. "new" \in ReqStates /\ 0 \in Nat
    BY DEF ReqStates
  <2>5. NewReq.st = "new" /\ NewReq.gen = 0 /\ NewReq.n = 0 /\ IsRequest(NewReq)
    BY <2>3, <2>4, RequestFields
  <2>6. NewReq.right
    BY DEF NewReq
  <2> QED
    BY <2>5, <2>6
<1>4. AppTyped
  <2>1. WorkTyped /\ QueueTyped
    BY <1>1, <1>2 DEF WorkTyped, QueueTyped
  <2>2. RangesTyped
    BY DEF RangesTyped, NoReady
  <2>3. NumbersTyped
    BY DEF NumbersTyped
  <2>4. CacheTyped
    BY DEF CacheTyped, NoCache
  <2>5. RequestTyped
    BY <1>3 DEF RequestTyped
  <2> QED
    BY <2>1, <2>2, <2>3, <2>4, <2>5 DEF AppTyped
<1>5. OneWorker /\ LiveQueue
  BY NoFrame DEF OneWorker, LiveQueue, FramesOf
<1>6. Now.op = "idle"
  BY DEF Now, Idle
<1>7. ~Loading /\ Now.op # "hash" /\ \A r : ~Serving(r)
  BY <1>6 DEF Loading, Serving
<1>8. \A i, t : ~Waits(i, t)
  BY <1>2 DEF Waits
<1>9. EngineInv /\ AssignInv /\ BeliefInv /\ ForwardInv
  BY <1>7, <1>8 DEF EngineInv, AssignInv, BeliefInv, ForwardInv
<1>10. PlaceInv
  BY <1>3, <1>7, <1>8 DEF PlaceInv, Asks
<1>11. CacheInv
  BY <1>3, <1>7 DEF CacheInv, Alive
<1> QED
  BY <1>4, <1>5, <1>9, <1>10, <1>11 DEF AppInv, AnswersSound, AnswersInv

\* CpuEngine, for every model, number of requests, passes, moves and failures:
\* an answer the hub takes went through the layers it was routed on, with the
\* caches of all earlier passes of its request, unless the app was restarted
\* under the request or a thread of an earlier socket was still at work.
THEOREM CpuAnswersAreRight == Spec => []CpuAnswersRight
<1>1. Init => AppInv
  BY AnswersInit
<1>2. AppInv /\ [Next]_vars => AppInv'
  <2> SUFFICES ASSUME AppInv, [Next]_vars PROVE AppInv'
    OBVIOUS
  <2>1. AppTyped' /\ OneWorker' /\ LiveQueue'
    BY AppTypedStep, OneWorkerStep, LiveQueueStep DEF AppInv
  <2>2. AnswersSound'
    BY AnswersSoundStep
  <2> QED
    BY <2>1, <2>2 DEF AppInv
<1>3. AppInv => CpuAnswersRight
  BY DEF AppInv, AnswersSound, AnswersInv, CacheInv, CpuAnswersRight, AnswersRight
<1> QED
  BY <1>1, <1>2, <1>3, PTL DEF Spec
=============================================================================

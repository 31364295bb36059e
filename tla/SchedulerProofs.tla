--------------------------- MODULE SchedulerProofs ---------------------------
(***************************************************************************)
(* What holds of Scheduler for every set of nodes and every value of its   *)
(* delays: its types, that no request for a plan is lost, and that a plan  *)
(* waits for the grace of nodes that have dropped.                         *)
(*                                                                         *)
(* PromiseKept is inductive with the types: they tell a pending replan from *)
(* none when a timer counts down (a trigger is never "none"), and keep the *)
(* delays comparable.                                                      *)
(***************************************************************************)
EXTENDS Scheduler, TLAPS

SchedInv == SchedTypeOK /\ PromiseKept

\* Every delay that is ever asked for is one a pending replan may have.
LEMMA DelaysBounded ==
  /\ MaxDelay \in Nat
  /\ {0, RetryDelay, Delay(JoinDebounce), Delay(LeaveGrace)} \subseteq 0 .. MaxDelay
  /\ 1 .. LeaveGrace \subseteq 0 .. MaxDelay
BY DelaysAssumption DEF MaxDelay, Largest, Delay

\* No pending replan, and any pending one, differ in the trigger.
LEMMA PendingNamed ==
  ASSUME NEW t \in Task
  PROVE  t # NoTask /\ t.why \in Triggers /\ t.left \in 0 .. MaxDelay
BY DEF Task, NoTask, Triggers

\* A trigger with a delay is a pending replan.
LEMMA RequestTyped ==
  ASSUME NEW w \in Triggers, NEW d \in 0 .. MaxDelay
  PROVE  [why |-> w, left |-> d] \in Task
BY DEF Task

\* schedule_replan leaves a replan pending, due no later than it was promised.
LEMMA ScheduleKeeps ==
  ASSUME SchedInv, NEW w \in Triggers, NEW d \in 0 .. MaxDelay, Schedule(w, d)
  PROVE  /\ task' \in Task /\ owed' \in 0 .. NotOwed
         /\ task' # NoTask /\ task'.left <= owed'
<1> USE DEF SchedInv, SchedTypeOK, PromiseKept, Schedule
<1>1. MaxDelay \in Nat /\ NotOwed = MaxDelay + 1
  BY DelaysBounded DEF NotOwed
<1>2. owed' \in 0 .. NotOwed /\ owed' <= d
  BY <1>1 DEF Smaller
<1>3. [why |-> w, left |-> d] \in Task
  BY RequestTyped
<1>4. task # NoTask => task.left \in 0 .. MaxDelay
  BY PendingNamed
<1>5. CASE task # NoTask /\ d >= task.left
  <2>1. task' = task
    BY <1>5
  <2>2. task.left <= owed'
    BY <1>1, <1>4, <1>5 DEF Smaller
  <2> QED
    BY <1>2, <1>5, <2>1, <2>2
<1>6. CASE ~(task # NoTask /\ d >= task.left)
  <2>1. task' = [why |-> w, left |-> d]
    BY <1>6
  <2>2. d <= owed'
    BY <1>1, <1>4, <1>6 DEF Smaller
  <2> QED
    BY <1>2, <1>3, <2>1, <2>2, PendingNamed
<1> QED
  BY <1>5, <1>6

\* A replan put off stays pending with its trigger.
LEMMA PostponedKeeps ==
  ASSUME SchedInv, task # NoTask, NEW d \in 0 .. MaxDelay, Postponed(d)
  PROVE  SchedInv'
<1> USE DEF SchedInv, SchedTypeOK, PromiseKept, Postponed
<1>1. task \in Task
  OBVIOUS
<1>2. task' \in Task /\ task'.left = d
  BY <1>1 DEF Task
<1>3. owed' \in 0 .. NotOwed
  BY DelaysBounded DEF NotOwed
<1>4. task' # NoTask /\ task'.left <= owed'
  BY <1>2, PendingNamed
<1> QED
  BY <1>2, <1>3, <1>4 DEF clockVars

\* Joins, answers and leaves.
LEMMA NodesKeep ==
  ASSUME SchedInv, NEW n \in Node, Join(n) \/ Ready(n) \/ Leave(n)
  PROVE  SchedInv'
<1>1. PICK w \in Triggers, d \in 0 .. MaxDelay : Schedule(w, d)
  BY DelaysBounded DEF Join, Ready, Leave, Triggers
<1>2. /\ task' \in Task /\ owed' \in 0 .. NotOwed
      /\ task' # NoTask /\ task'.left <= owed'
  BY <1>1, ScheduleKeeps
<1>3. /\ member' \in [Node -> {"unknown", "here", "absent"}]
      /\ absentFor' \in [Node -> 0 .. AbsentTtl + 1]
      /\ \A k \in Node : member'[k] # "absent" => absentFor'[k] = 0
  BY DelaysAssumption DEF Join, Ready, Leave, SchedInv, SchedTypeOK
<1>4. news' \in BOOLEAN /\ UNCHANGED <<override, lock, manual, watch, periodic>>
  BY DEF Join, Ready, Leave, clockVars
<1>5. SchedTypeOK'
  BY <1>2, <1>3, <1>4 DEF SchedInv, SchedTypeOK
<1>6. PromiseKept'
  BY <1>2 DEF PromiseKept
<1> QED
  BY <1>5, <1>6 DEF SchedInv

\* The replan fires, and is put off or carried out.
LEMMA FireKeeps ==
  ASSUME SchedInv, Fire
  PROVE  SchedInv'
<1>1. CASE RetryWhenFree
  BY <1>1, DelaysBounded, PostponedKeeps DEF RetryWhenFree, Due
<1>2. CASE AwaitGrace
  BY <1>2, DelaysBounded, PostponedKeeps DEF AwaitGrace, Due
<1>3. CASE Replan
  <2>1. news' \in BOOLEAN /\ ~news' /\ task' = NoTask /\ owed' = NotOwed
    BY <1>3 DEF Replan
  <2>2. owed' \in 0 .. NotOwed
    BY <2>1, DelaysBounded DEF NotOwed
  <2>3. /\ lock' \in {"free", "auto", "manual"}
        /\ UNCHANGED <<override, member, absentFor, manual, watch, periodic>>
    BY <1>3 DEF Replan, clockVars
  <2>4. SchedTypeOK'
    BY <2>1, <2>2, <2>3 DEF SchedInv, SchedTypeOK
  <2>5. PromiseKept'
    BY <2>1 DEF PromiseKept
  <2> QED
    BY <2>4, <2>5 DEF SchedInv
<1> QED
  BY <1>1, <1>2, <1>3 DEF Fire

\* Plans that are asked for or applied leave the pending replan alone.
LEMMA ApplyKeeps ==
  ASSUME SchedInv, Manual \/ ManualApplies \/ ApplyRetries \/ ApplyEnds
  PROVE  SchedInv'
<1> USE DEF SchedInv, SchedTypeOK, PromiseKept, clockVars
<1>1. CASE Manual
  BY <1>1 DEF Manual
<1>2. CASE ManualApplies
  BY <1>2 DEF ManualApplies
<1>3. CASE ApplyRetries
  BY <1>3 DEF ApplyRetries
<1>4. CASE ApplyEnds
  BY <1>4 DEF ApplyEnds
<1> QED
  BY <1>1, <1>2, <1>3, <1>4

\* stale_watch purges records and may ask for a plan.
LEMMA WatchKeeps ==
  ASSUME SchedInv, Watch
  PROVE  SchedInv'
<1> USE DEF SchedInv, SchedTypeOK
<1>1. /\ member' \in [Node -> {"unknown", "here", "absent"}]
      /\ absentFor' \in [Node -> 0 .. AbsentTtl + 1]
      /\ \A k \in Node : member'[k] # "absent" => absentFor'[k] = 0
  BY DelaysAssumption DEF Watch, Purged
<1>2. watch' \in 0 .. WatchEvery /\ periodic' \in 0 .. Periodic
  BY DelaysAssumption DEF Watch
<1>3. UNCHANGED <<override, lock, manual, news>>
  BY DEF Watch
<1>4. CASE periodic = 0
  <2>1. Schedule("periodic", 0)
    BY <1>4 DEF Watch
  <2>2. /\ task' \in Task /\ owed' \in 0 .. NotOwed
        /\ task' # NoTask /\ task'.left <= owed'
    BY <2>1, ScheduleKeeps, DelaysBounded DEF Triggers
  <2> QED
    BY <1>1, <1>2, <1>3, <2>2 DEF PromiseKept
<1>5. CASE periodic # 0
  BY <1>1, <1>2, <1>3, <1>5 DEF Watch, PromiseKept
<1> QED
  BY <1>4, <1>5

\* A tick counts the delay and the promise down together.
LEMMA TickKeeps ==
  ASSUME SchedInv, Tick
  PROVE  SchedInv'
<1> USE DEF SchedInv, SchedTypeOK
<1>1. /\ absentFor' \in [Node -> 0 .. AbsentTtl + 1]
      /\ \A k \in Node : member'[k] # "absent" => absentFor'[k] = 0
  BY DelaysAssumption DEF Tick, Purged
<1>2. watch' \in 0 .. WatchEvery /\ periodic' \in 0 .. Periodic
  BY DelaysAssumption DEF Tick, Down
<1>3. owed' \in 0 .. NotOwed
  BY DelaysBounded DEF Tick, Down, NotOwed
<1>4. UNCHANGED <<override, member, lock, manual, news>>
  BY DEF Tick
<1>5. CASE task = NoTask
  <2>1. task' = NoTask
    BY <1>5 DEF Tick, Down, NoTask
  <2>2. owed = NotOwed /\ ~news
    BY <1>5 DEF PromiseKept
  <2>3. owed' = NotOwed
    BY <2>2 DEF Tick
  <2> QED
    BY <1>1, <1>2, <1>3, <1>4, <2>1, <2>2, <2>3 DEF PromiseKept
<1>6. CASE task # NoTask
  <2>1. task \in Task /\ task.left \in 0 .. MaxDelay
    BY <1>6, PendingNamed
  <2>2. task' = [task EXCEPT !.left = Down(task.left)]
    BY DEF Tick
  <2>3. Down(task.left) \in 0 .. MaxDelay
    BY <2>1, DelaysBounded DEF Down
  <2>4. task' \in Task /\ task'.left = Down(task.left)
    BY <2>1, <2>2, <2>3 DEF Task
  <2>5. owed' # NotOwed => task'.left <= owed'
    BY <1>6, <2>1, <2>4, DelaysBounded DEF PromiseKept, Tick, Down, NotOwed
  <2> QED
    BY <1>1, <1>2, <1>3, <1>4, <2>4, <2>5, PendingNamed DEF PromiseKept
<1> QED
  BY <1>5, <1>6

\* Nobody has been promised anything at first.
LEMMA InitKeeps == SchedInit => SchedInv
<1> SUFFICES ASSUME SchedInit PROVE SchedInv
  OBVIOUS
<1> USE DEF SchedInit
<1>1. watch \in 0 .. WatchEvery /\ periodic \in 0 .. Periodic
  BY DelaysAssumption
<1>2. owed \in 0 .. NotOwed
  BY DelaysBounded DEF NotOwed
<1>3. absentFor \in [Node -> 0 .. AbsentTtl + 1]
  BY DelaysAssumption
<1>4. news \in BOOLEAN /\ ~news
  OBVIOUS
<1> QED
  BY <1>1, <1>2, <1>3, <1>4 DEF SchedInv, SchedTypeOK, PromiseKept

\* Every step keeps the types and the promise.
LEMMA NextKeeps == SchedInv /\ [SchedNext]_vars => SchedInv'
<1> SUFFICES ASSUME SchedInv, [SchedNext]_vars PROVE SchedInv'
  OBVIOUS
<1>1. CASE UNCHANGED vars
  BY <1>1 DEF vars, clockVars, SchedInv, SchedTypeOK, PromiseKept
<1>2. CASE \E n \in Node : Join(n) \/ Ready(n) \/ Leave(n)
  BY <1>2, NodesKeep
<1>3. CASE Fire
  BY <1>3, FireKeeps
<1>4. CASE Manual \/ ManualApplies \/ ApplyRetries \/ ApplyEnds
  BY <1>4, ApplyKeeps
<1>5. CASE Watch
  BY <1>5, WatchKeeps
<1>6. CASE Tick
  BY <1>6, TickKeeps
<1> QED
  BY <1>1, <1>2, <1>3, <1>4, <1>5, <1>6 DEF SchedNext

\* The invariant of the timers holds throughout.
LEMMA SchedInvariant == SchedSpec => []SchedInv
BY InitKeeps, NextKeeps, PTL DEF SchedSpec

\* Timers and records stay within their bounds, whatever the delays are.
THEOREM SchedTypeCorrect == SchedSpec => []SchedTypeOK
<1>1. SchedInv => SchedTypeOK
  BY DEF SchedInv
<1> QED
  BY <1>1, SchedInvariant, PTL

\* For every choice of debounce, grace and retry delays, no join, leave, ready
\* or periodic request is lost: until a plan has seen it, a replan is pending
\* that is due no later than the soonest request it stands for.
THEOREM NoRequestLost == SchedSpec => []PromiseKept
<1>1. SchedInv => PromiseKept
  BY DEF SchedInv
<1> QED
  BY <1>1, SchedInvariant, PTL

\* Only carrying it out takes a pending replan away.
LEMMA GraceStep ==
  ASSUME SchedInv, [SchedNext]_vars
  PROVE  [task # NoTask /\ task' = NoTask => InGrace = {}]_vars
<1>1. CASE Replan
  BY <1>1 DEF Replan, MayReplan
<1>2. CASE Tick /\ task # NoTask
  <2>1. task \in Task
    BY <1>2 DEF SchedInv, SchedTypeOK
  <2>2. task'.why = task.why /\ task.why # NoTask.why
    BY <1>2, <2>1 DEF Tick, Task, NoTask, Triggers
  <2> QED
    BY <2>2
<1>3. CASE \E n \in Node : Join(n) \/ Ready(n) \/ Leave(n)
  <2>1. PICK w \in Triggers, d \in 0 .. MaxDelay : Schedule(w, d)
    BY <1>3, DelaysBounded DEF Join, Ready, Leave, Triggers
  <2> QED
    BY <2>1, ScheduleKeeps
<1>4. CASE Watch
  <2>1. task' = task \/ Schedule("periodic", 0)
    BY <1>4 DEF Watch
  <2> QED
    BY <2>1, ScheduleKeeps, DelaysBounded DEF Triggers
<1>5. CASE RetryWhenFree \/ AwaitGrace
  <2>1. PICK d \in 0 .. MaxDelay : task # NoTask /\ Postponed(d)
    BY <1>5, DelaysBounded DEF RetryWhenFree, AwaitGrace, Due
  <2>2. task' = [task EXCEPT !.left = d] /\ task \in Task
    BY <2>1 DEF Postponed, SchedInv, SchedTypeOK
  <2>3. task' \in Task
    BY <2>2 DEF Task
  <2> QED
    BY <2>3, PendingNamed
<1>6. CASE Manual \/ ManualApplies \/ ApplyRetries \/ ApplyEnds \/ UNCHANGED vars
  BY <1>6 DEF Manual, ManualApplies, ApplyRetries, ApplyEnds, vars
<1> QED
  BY <1>1, <1>2, <1>3, <1>4, <1>5, <1>6 DEF SchedNext, Fire, Tick

\* For every choice of delays, no automatic plan is made while a node is within
\* the grace of its drop, whichever request the pending replan stands for.
THEOREM GraceAlwaysKept == SchedSpec => GraceKept
BY SchedInvariant, GraceStep, PTL DEF SchedSpec, GraceKept
=============================================================================

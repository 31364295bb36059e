------------------------------ MODULE Scheduler ------------------------------
(***************************************************************************)
(* When the hub plans: schedule_replan keeps one pending replan, which a   *)
(* sooner request replaces and a later one leaves alone; when it fires it  *)
(* waits again for a rebalance under way and for nodes that have just      *)
(* dropped.  stale_watch purges old records and asks for a plan every      *)
(* minute.                                                                 *)
(*                                                                         *)
(* Time passes in ticks that all timers count down; a coroutine whose      *)
(* time has come may run late.  What a plan says and does is Placement's   *)
(* and Rebalance's: here it is computed from the nodes present and then    *)
(* applied under plan_lock for a while, or not.                            *)
(***************************************************************************)
EXTENDS Naturals

CONSTANTS
  Node,          \* node names
  LeaveGrace,    \* LEAVE_GRACE_S
  JoinDebounce,  \* JOIN_DEBOUNCE_S
  RetryDelay,    \* the 2.0 s after which a busy plan_lock is tried again
  AbsentTtl,     \* ABSENT_TTL_S
  Periodic,      \* PERIODIC_S
  WatchEvery,    \* the period of stale_watch
  Overrides,     \* whether --replan-delay is given
  ReplanDelay    \* and what it says

ASSUME DelaysAssumption ==
  /\ {LeaveGrace, JoinDebounce, RetryDelay, AbsentTtl, Periodic, WatchEvery}
       \subseteq Nat \ {0}
  /\ ReplanDelay \in Nat
  /\ Overrides \subseteq BOOLEAN /\ Overrides # {}
  /\ LeaveGrace <= AbsentTtl

Triggers == {"join", "leave", "ready", "periodic"}
Largest(a, b) == IF a >= b THEN a ELSE b
MaxDelay == Largest(Largest(LeaveGrace, JoinDebounce), Largest(RetryDelay, ReplanDelay))
Task == [why : Triggers, left : 0 .. MaxDelay]
NoTask == [why |-> "none", left |-> 0]

VARIABLES
  override,  \* --replan-delay is given
  member,    \* member[n]: "unknown", "here" or "absent" (a record, no socket)
  absentFor, \* absentFor[n]: ticks since absent_since
  task,      \* _replan: the pending replan and the ticks until it is due
  lock,      \* plan_lock: "free", or who applies a plan
  manual,    \* /rebalance: "none", or "waiting" with its plan for plan_lock
  watch,     \* ticks until stale_watch wakes up
  periodic,  \* ticks until it asks for the periodic plan
  news,      \* history: a node joined, left or answered since the last plan
  owed       \* history: ticks within which a replan was promised

vars == <<override, member, absentFor, task, lock, manual, watch, periodic, news, owed>>
clockVars == <<watch, periodic>>

NotOwed == MaxDelay + 1

SchedInit ==
  /\ override \in Overrides
  /\ member = [n \in Node |-> "unknown"]
  /\ absentFor = [n \in Node |-> 0]
  /\ task = NoTask
  /\ lock = "free"
  /\ manual = "none"
  /\ watch = WatchEvery
  /\ periodic = Periodic
  /\ news = FALSE
  /\ owed = NotOwed

-----------------------------------------------------------------------------
Delay(default) == IF override THEN ReplanDelay ELSE default

Smaller(a, b) == IF a <= b THEN a ELSE b

(* Mutant: the debounce starts again with every request.                   *)
ScheduleLast(why, delay) ==
  /\ task' = [why |-> why, left |-> delay]
  /\ owed' = Smaller(owed, delay)

(* schedule_replan: a sooner request replaces the pending one, a later one *)
(* is absorbed.                                                            *)
Schedule(why, delay) ==
  /\ task' = IF task # NoTask /\ delay >= task.left THEN task
             ELSE [why |-> why, left |-> delay]
  /\ owed' = Smaller(owed, delay)

(* hello: also of a node whose old socket is still open.                   *)
Join(n) ==
  /\ member' = [member EXCEPT ![n] = "here"]
  /\ absentFor' = [absentFor EXCEPT ![n] = 0]
  /\ news' = TRUE
  /\ Schedule("join", Delay(JoinDebounce))
  /\ UNCHANGED <<override, lock, manual, clockVars>>

(* The bench and the range of a ready may change the plan at once.         *)
Ready(n) ==
  /\ member[n] = "here"
  /\ news' = TRUE
  /\ Schedule("ready", 0)
  /\ UNCHANGED <<override, member, absentFor, lock, manual, clockVars>>

(* A socket closes, or stale_watch finds it silent.                        *)
Leave(n) ==
  /\ member[n] = "here"
  /\ member' = [member EXCEPT ![n] = "absent"]
  /\ absentFor' = [absentFor EXCEPT ![n] = 0]
  /\ news' = TRUE
  /\ Schedule("leave", Delay(LeaveGrace))
  /\ UNCHANGED <<override, lock, manual, clockVars>>

-----------------------------------------------------------------------------
(* The pending replan fires.                                               *)
InGrace == {n \in Node : member[n] = "absent" /\ absentFor[n] < LeaveGrace}

(* g is what is left of the longest of these graces.                       *)
GraceLeft(g) ==
  /\ \E n \in InGrace : absentFor[n] + g = LeaveGrace
  /\ \A n \in InGrace : absentFor[n] + g >= LeaveGrace

Due == task # NoTask /\ task.left = 0

Postponed(delay) ==
  /\ task' = [task EXCEPT !.left = delay]
  /\ owed' = delay
  /\ UNCHANGED <<override, member, absentFor, lock, manual, clockVars, news>>

(* Mutant of RetryWhenFree: a fired replan is dropped.                     *)
GiveUpWhenBusy ==
  /\ Due
  /\ lock # "free"
  /\ task' = NoTask
  /\ UNCHANGED <<override, member, absentFor, lock, manual, clockVars, news, owed>>

(* A rebalance is under way: again after two seconds.                      *)
RetryWhenFree ==
  /\ Due
  /\ lock # "free"
  /\ Postponed(RetryDelay)

(* A node has just dropped: again when the grace of the last one is over.  *)
AwaitGrace ==
  /\ Due
  /\ lock = "free"
  /\ \E g \in 1 .. LeaveGrace : GraceLeft(g) /\ Postponed(g)

(* Mutant: only a leave gives the node its grace.                          *)
MayReplanUnlessLeft == Due /\ lock = "free" /\ (task.why = "leave" => InGrace = {})

MayReplan == Due /\ lock = "free" /\ InGrace = {}

(* The plan is computed before anything else runs, and applied or not.     *)
Replan ==
  /\ MayReplan
  /\ task' = NoTask
  /\ owed' = NotOwed
  /\ news' = FALSE
  /\ lock' \in {"free", "auto"}
  /\ UNCHANGED <<override, member, absentFor, manual, clockVars>>

(* /rebalance: refused while a plan is applied; else it computes its plan, *)
(* parks who is left out, and waits for plan_lock.                         *)
Manual ==
  /\ lock = "free"
  /\ manual = "none"
  /\ news' = FALSE
  /\ manual' \in {"none", "waiting"}
  /\ UNCHANGED <<override, member, absentFor, task, lock, clockVars, owed>>

ManualApplies ==
  /\ manual = "waiting"
  /\ lock = "free"
  /\ manual' = "none"
  /\ lock' = "manual"
  /\ UNCHANGED <<override, member, absentFor, task, clockVars, news, owed>>

(* A retry of apply_plan plans again, with the nodes it finds.             *)
ApplyRetries ==
  /\ lock # "free"
  /\ news' = FALSE
  /\ UNCHANGED <<override, member, absentFor, task, lock, manual, clockVars, owed>>

(* It commits, abandons the plan or raises; each gives up the lock.        *)
ApplyEnds ==
  /\ lock # "free"
  /\ lock' = "free"
  /\ UNCHANGED <<override, member, absentFor, task, manual, clockVars, news, owed>>

-----------------------------------------------------------------------------
(* stale_watch: old records go; a minute after the last time it asks for a *)
(* plan.                                                                   *)
Purged(n) == member[n] = "absent" /\ absentFor[n] > AbsentTtl

Watch ==
  /\ watch = 0
  /\ watch' = WatchEvery
  /\ member' = [n \in Node |-> IF Purged(n) THEN "unknown" ELSE member[n]]
  /\ absentFor' = [n \in Node |-> IF Purged(n) THEN 0 ELSE absentFor[n]]
  /\ IF periodic = 0
     THEN /\ periodic' = Periodic
          /\ Schedule("periodic", 0)
     ELSE UNCHANGED <<periodic, task, owed>>
  /\ UNCHANGED <<override, lock, manual, news>>

Down(t) == IF t = 0 THEN 0 ELSE t - 1

(* A second passes.                                                        *)
Tick ==
  /\ absentFor' = [n \in Node |-> IF member[n] = "absent" /\ ~Purged(n)
                                  THEN absentFor[n] + 1 ELSE absentFor[n]]
  /\ task' = [task EXCEPT !.left = Down(@)]
  /\ watch' = Down(watch)
  /\ periodic' = Down(periodic)
  /\ owed' = IF owed = NotOwed THEN owed ELSE Down(owed)
  /\ UNCHANGED <<override, member, lock, manual, news>>

Fire == RetryWhenFree \/ AwaitGrace \/ Replan

SchedNext ==
  \/ \E n \in Node : Join(n) \/ Ready(n) \/ Leave(n)
  \/ Fire
  \/ Manual \/ ManualApplies
  \/ ApplyRetries \/ ApplyEnds
  \/ Watch
  \/ Tick

SchedSpec == SchedInit /\ [][SchedNext]_vars

(* Time passes, coroutines whose time has come run, and an apply_plan ends *)
(* (Rebalance's ApplyEnds).                                                *)
FairSchedSpec ==
  /\ SchedSpec
  /\ WF_vars(Tick)
  /\ WF_vars(Fire)
  /\ WF_vars(Watch)
  /\ WF_vars(ApplyEnds)

-----------------------------------------------------------------------------
(* Properties *)

(* The one type invariant.                                                 *)
SchedTypeOK ==
  /\ override \in Overrides
  /\ member \in [Node -> {"unknown", "here", "absent"}]
  /\ absentFor \in [Node -> 0 .. AbsentTtl + 1]
  /\ \A n \in Node : member[n] # "absent" => absentFor[n] = 0
  /\ task \in Task \cup {NoTask}
  /\ lock \in {"free", "auto", "manual"}
  /\ manual \in {"none", "waiting"}
  /\ watch \in 0 .. WatchEvery
  /\ periodic \in 0 .. Periodic
  /\ news \in BOOLEAN
  /\ owed \in 0 .. NotOwed

(* No trigger is lost between the checks of schedule_replan and of fire:   *)
(* until a plan has seen the news a replan is pending, and it is due no    *)
(* later than the soonest of the requests it stands for.                   *)
PromiseKept ==
  /\ news => task # NoTask
  /\ owed # NotOwed => task # NoTask /\ task.left <= owed

(* "A node that just dropped gets its grace no matter what else asked for  *)
(* a plan" (hub.py:628): a pending replan never plans within LEAVE_GRACE_S *)
(* of a drop, whatever triggered it and whatever else came in between.     *)
GraceKept ==
  [][task # NoTask /\ task' = NoTask => InGrace = {}]_vars

(* A join, leave or ready is seen by a plan in the end, under any traffic  *)
(* of further joins, readies and manual plans, unless nodes keep dropping. *)
NewsIsPlanned ==
  <>[](InGrace = {}) => (news ~> ~news)

=============================================================================

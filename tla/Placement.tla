----------------------------- MODULE Placement ------------------------------
(***************************************************************************)
(* The planner (dllm/placement.py) in the loop the hub runs it in.         *)
(*                                                                         *)
(* placement.plan is a pure function of the node records and the committed *)
(* layout: Plan, built from the definitions above it.  The actions change  *)
(* the records the way the nodes do and apply what the planner decides,    *)
(* each plan in one step: Rebalance models how a plan is really applied.   *)
(*                                                                         *)
(* Times are whole milliseconds, and a score (tokens per second) is the    *)
(* inverse of a cycle, so scores are compared through Cycle; no division   *)
(* is rounded that the code does not round.  Abstracted: what a cost comes *)
(* from (bench, averages, priors, penalties) and what a RAM bound comes    *)
(* from, which are inputs; every node has the same wire time and the same  *)
(* batch slope, so one cost orders nodes at every batch size; a node keeps *)
(* on disk the last range it loaded, as np_node.py does.                   *)
(***************************************************************************)
EXTENDS Layers, Integers, FiniteSetsExt, SequencesExt

CONSTANTS
  Costs,          \* Costs[m]: what a layer may cost on m, in ms
  Rams,           \* Rams[m]: what the RAM bound of m, in layers, may become
  Phones,         \* the nodes that report battery and temperature
  MinLayers,      \* --min-layers
  MinNodes,       \* --min-nodes
  Frames,         \* ceil(C / B): frames in flight at the design point
  Util,           \* --utilization, in percent
  HeadMs, HopMs,  \* time of the head, and of one hop (wire and window)
  FetchS, LoadS,  \* seconds to download and to load one layer
  MaxCandidates   \* MAX_CANDIDATES

ASSUME NamesAssumption == Nodes \subseteq Nat /\ Phones \subseteq Nodes
ASSUME RamsAssumption == \A m \in Nodes : Rams[m] \subseteq 0 .. Cap[m]
ASSUME CostsAssumption == \A m \in Nodes : Costs[m] \subseteq Nat \ {0}
ASSUME SettingsAssumption ==
  /\ MinLayers \in Nat \ {0} /\ MinNodes \in Nat \ {0}
  /\ Frames \in Nat \ {0} /\ Util \in 1 .. 100

VARIABLES
  cost,       \* cost[m]: ms per layer at the design point
  ram,        \* ram[m]: layers m may hold right now
  status,     \* absent, fit or hot (present but ineligible)
  loaded,     \* loaded[m]: the range m said it serves (the record's layers)
  disk,       \* disk[m]: the range whose files m has
  committed,  \* plan_state's assignments
  moves       \* plans applied since the records last changed (history)

vars == <<cost, ram, status, loaded, disk, committed, moves>>

NoSplit == <<>>
Abs(i)  == IF i < 0 THEN -i ELSE i

---------------------------------------------------------------------------
(* Splitting the layers over a fixed set S of nodes: how many each takes.   *)

\* Mutant of LargestRemainder: shares in proportion to the costs themselves.
RemainderByCost(S, total) ==
  LET sum   == SumFunctionOnSet(cost, S)
      floor == [m \in S |-> (total * cost[m]) \div sum]
      short == total - SumFunction(floor)
  IN [m \in S |->
        floor[m] + (IF Cardinality({j \in S : j < m}) < short THEN 1 ELSE 0)]

\* Whole shares in proportion to the inverse costs that sum exactly to total;
\* whoever lost most to rounding down gets the layers still missing.
LargestRemainder(S, total) ==
  LET weight == [m \in S |-> FoldFunctionOnSet(LAMBDA a, b : a * b, 1, cost,
                                                S \ {m})]
      sum    == SumFunction(weight)
      lost   == [m \in S |-> (total * weight[m]) % sum]
      floor  == [m \in S |-> (total * weight[m]) \div sum]
      ahead(m) == {j \in S : \/ lost[j] > lost[m]
                             \/ lost[j] = lost[m] /\ j < m}
      short  == total - SumFunction(floor)
  IN [m \in S |-> floor[m] + (IF Cardinality(ahead(m)) < short THEN 1 ELSE 0)]

\* The loop of allocate_balanced.  A node is free, pinned at its RAM or pinned
\* at the minimum; a round shares what the pins leave over the free nodes.
Free(pin) == {m \in DOMAIN pin : pin[m] = "free"}
Pinned(pin) == [m \in DOMAIN pin \ Free(pin) |->
                  IF pin[m] = "ram" THEN ram[m] ELSE MinLayers]
Left(pin) == NLayers - SumFunction(Pinned(pin))
Repin(pin, share) ==
  [m \in DOMAIN pin |->
     IF pin[m] # "free" THEN pin[m]
     ELSE IF share[m] > ram[m] THEN "ram"
     ELSE IF share[m] < MinLayers THEN "min" ELSE "free"]
HandBack(pin) == [m \in DOMAIN pin |-> IF pin[m] = "min" THEN "free" ELSE pin[m]]

Going(pin)  == [pin |-> pin, done |-> FALSE, split |-> NoSplit]
Ended(split) == [pin |-> NoSplit, done |-> TRUE, split |-> split]

\* With every node pinned: a fit, or pinning to the minimum went too far.
AllPinned(pin) ==
  CASE Left(pin) = 0 -> Ended(Pinned(pin))
    [] Left(pin) > 0 /\ HandBack(pin) # pin -> Going(HandBack(pin))
    [] OTHER -> Ended(NoSplit)
Shared(pin, share) ==
  IF Repin(pin, share) # pin THEN Going(Repin(pin, share))
  ELSE Ended([m \in DOMAIN pin |-> IF pin[m] = "free" THEN share[m]
                                   ELSE Pinned(pin)[m]])
Round(pin) == IF Free(pin) = {} THEN AllPinned(pin)
              ELSE Shared(pin, LargestRemainder(Free(pin), Left(pin)))
Step(s) == IF s.done THEN s ELSE Round(s.pin)

Splittable(S) == /\ \A m \in S : ram[m] >= MinLayers
                 /\ MinLayers * Cardinality(S) <= NLayers
MaxRounds(S)  == 4 * Cardinality(S) + 4
Rounds(S) ==
  LET after[i \in 0 .. MaxRounds(S)] ==
        IF i = 0 THEN Going([m \in S |-> "free"])
        ELSE Step(after[i - 1])
  IN after[MaxRounds(S)]
Balanced(S) == IF Splittable(S) THEN Rounds(S).split ELSE NoSplit

\* The minimum for everyone, the rest to the cheapest that still have room.
Cheapest(S) ==
  LET rest  == NLayers - MinLayers * Cardinality(S)
      room(m) == ram[m] - MinLayers
      before(m) == {j \in S : \/ cost[j] < cost[m]
                              \/ cost[j] = cost[m] /\ j < m}
      given(m) == Max({0, Min({room(m), rest - MapThenSumSet(room, before(m))})})
  IN IF Splittable(S) /\ MapThenSumSet(room, S) >= rest
     THEN [m \in S |-> MinLayers + given(m)] ELSE NoSplit

---------------------------------------------------------------------------
(* From a split to a layout, and what the layout costs.                     *)

Start(order, split, i) == MapThenSumSet(LAMBDA j : split[order[j]], 1 .. (i - 1))
RangeOf(order, split, i) ==
  LET a == Start(order, split, i) IN <<a, a + split[order[i]]>>

\* Layers somebody would have to download (_churn, in layers for bytes).
Missing(m, r) == Cardinality(Held(r) \ Held(disk[m]))
Churn(A) == MapThenSumSet(LAMBDA m : Missing(m, A[m]), Members(A))
ChurnOf(order, split) ==
  MapThenSumSet(LAMBDA i : Missing(order[i], RangeOf(order, split, i)),
                1 .. Len(order))

\* A newcomer goes where the whole order downloads least, the last such place.
Insert(order, split, m) ==
  LET at(i)    == InsertAt(order, i, m)
      churn(i) == ChurnOf(at(i), split)
      slots    == 1 .. (Len(order) + 1)
  IN at(Max({i \in slots : \A j \in slots : churn(i) <= churn(j)}))

CurrentOrder == SetToSortSeq(Members(committed),
                             LAMBDA a, b : committed[a][1] < committed[b][1])
Order(split) ==
  LET S == DOMAIN split
  IN FoldLeft(LAMBDA order, m : Insert(order, split, m),
              SelectSeq(CurrentOrder, LAMBDA m : m \in S),
              SetToSortSeq(S \ Members(committed), <))
Layout(split) ==
  LET order == Order(split)
  IN [m \in Nodes |->
        IF m \in DOMAIN split
        THEN RangeOf(order, split, CHOOSE i \in DOMAIN order : order[i] = m)
        ELSE NoRange]

\* predict's cycle_ms, times Frames * Util: the slowest node stretched by the
\* cap, or one lap of the chain when too few frames are in flight to fill it.
Compute(A, m) == Size(A[m]) * cost[m]
Slowest(A) == Max({Compute(A, m) : m \in Members(A)})
Lap(A) == HeadMs + MapThenSumSet(LAMBDA m : Compute(A, m) + HopMs, Members(A))
Cycle(A) == Max({100 * Frames * Slowest(A), Util * Lap(A)})

---------------------------------------------------------------------------
(* Which set of nodes.                                                      *)

SplitOf(A) == [m \in Members(A) |-> Size(A[m])]
\* EMA drift must not move a single layer: near what runs now, keep it.
CurrentSplit == SplitOf(committed)
\* Mutant of DeadBand: each node for itself.
DeadBandEach(split) ==
  [m \in DOMAIN split |->
     IF m \in Members(committed) /\ Abs(split[m] - Size(committed[m])) <= 1
     THEN Size(committed[m]) ELSE split[m]]
DeadBand(split) ==
  IF /\ DOMAIN split = Members(committed)
     /\ \A m \in DOMAIN split : Abs(split[m] - CurrentSplit[m]) <= 1
  THEN CurrentSplit ELSE split

\* The better of the two allocations for S; on a tie the one that runs now, else
\* the balanced one.  (LayoutOf: a set, empty if there is no split.)
LayoutOf(split) == IF split = NoSplit THEN {} ELSE {Layout(DeadBand(split))}
Fastest(E) == {A \in E : \A X \in E : Cycle(A) <= Cycle(X)}
Preferred(best, balanced) ==
  IF \E A \in best : SplitOf(A) = CurrentSplit
  THEN {A \in best : SplitOf(A) = CurrentSplit}
  ELSE IF best \cap balanced # {} THEN best \cap balanced ELSE best
Better(balanced, cheapest) ==
  Preferred(Fastest(balanced \cup cheapest), balanced)
\* A set of one layout, or of none.
Entry(S) == Better(LayoutOf(Balanced(S)), LayoutOf(Cheapest(S)))

\* Past MAX_CANDIDATES, those that would be cheapest at an even share.
Prune(cands) ==
  IF Cardinality(cands) <= MaxCandidates THEN cands
  ELSE {m \in cands :
          Cardinality({j \in cands : \/ cost[j] < cost[m]
                                     \/ cost[j] = cost[m] /\ j < m})
            < MaxCandidates}

\* Among those within 5% of the best score: fewest nodes, then fewest bytes,
\* then the set that runs now, then the names.
Within(E, best) == {A \in E : 95 * Cycle(A) <= 100 * best}
Near(E) == Within(E, Min({Cycle(A) : A \in E}))
Fewest(E) == {A \in E : \A X \in E :
                Cardinality(Members(A)) <= Cardinality(Members(X))}
LeastChurn(E) == {A \in E : \A X \in E : Churn(A) <= Churn(X)}
Runs(A) == Members(A) = Members(committed)
Stay(E) == {A \in E : Runs(A) \/ \A X \in E : ~Runs(X)}
NamesBefore(S, T) == Min(S \ T) < Min(T \ S)   \* sets of one size
First(E) == CHOOSE A \in E :
              \A X \in E \ {A} : NamesBefore(Members(A), Members(X))
PickBest(E) ==
  IF E = {} THEN NoLayout ELSE First(Stay(LeastChurn(Fewest(Near(E)))))

Least(pool) == Max({1, Min({MinNodes, Cardinality(pool)})})
SetsOf(pool) == {S \in SUBSET pool : /\ Cardinality(S) >= Least(pool)
                                    /\ Cardinality(S) <= NLayers \div MinLayers
                                    /\ SumFunctionOnSet(ram, S) >= NLayers}
Search(cands) ==
  PickBest(UNION {Entry(S) : S \in SetsOf(Prune(cands))})

Present == {m \in Nodes : status[m] # "absent"}
Hot     == {m \in Nodes : status[m] = "hot"}

\* Mutant of Plan: no last resort.
PlanOfFit == Search(Present \ Hot)

\* placement.plan's assignments; hot nodes only when nothing else will do.
OrLastResort(fit) ==
  IF fit = NoLayout /\ Hot # {} THEN Search(Present) ELSE fit
Plan == OrLastResort(Search(Present \ Hot))

---------------------------------------------------------------------------
(* What the cluster can still cover when there is no plan (partial_fill).   *)

Room(A, m) == ram[m] - Size(A[m])

\* Into the gap before order[i]: its left neighbour grows first, then it does.
Stretch(A, order, i) ==
  LET m     == order[i]
      start == A[m][1]
      left  == IF i = 1 THEN 0 ELSE A[order[i - 1]][2]
      grow  == IF i = 1 THEN 0 ELSE Min({Room(A, order[i - 1]), start - left})
      gap   == start - left - grow
      took  == Min({Room(A, m), gap})
  IN IF start <= left THEN A
     ELSE [k \in Nodes |->
             CASE k = m -> <<start - took, A[m][2]>>
               [] i > 1 /\ k = order[i - 1] -> <<A[k][1], left + grow>>
               [] OTHER -> A[k]]

\* The last one grows up to the end of the model.
StretchLast(A, m) ==
  [A EXCEPT ![m] = <<@[1], @[2] + Min({Room(A, m), NLayers - @[2]})>>]

Stretched(A) ==
  LET order == SetToSortSeq(Members(A), LAMBDA a, b : A[a][1] < A[b][1])
      grown == FoldLeft(LAMBDA B, i : Stretch(B, order, i), A,
                        [i \in DOMAIN order |-> i])
  IN IF order = <<>> THEN A ELSE StretchLast(grown, Last(order))

\* A node without a range takes the first layers nobody has.
Covered(A) == UNION {Held(A[m]) : m \in Members(A)}
FillFrom(A, m) ==
  LET free == LayerIds \ Covered(A)
      a    == Min(free)
      ends == {b \in (a + 1) .. Min({NLayers, a + ram[m]}) :
                 a .. (b - 1) \subseteq free}
  IN IF free = {} \/ ram[m] <= 0 THEN A ELSE [A EXCEPT ![m] = <<a, Max(ends)>>]

PartialFill(A, pool) ==
  FoldLeft(FillFrom, Stretched(A), SetToSortSeq(pool \ Members(A), <))

\* plan fills up from what its candidates really hold.
StillHeld == [m \in Nodes |-> IF m \in Present \ Hot /\ loaded[m] = committed[m]
                              THEN committed[m] ELSE NoRange]
Partial == PartialFill(StillHeld, Present \ Hot)

---------------------------------------------------------------------------
(* Whether to apply it.                                                     *)

Complete == /\ committed # NoLayout
            /\ \A m \in Members(committed) : /\ m \in Present
                                             /\ loaded[m] = committed[m]
\* Mutant of Moved: a member that never loaded its range is no change.
MovedOnPaper(A) == {m \in Members(A) : A[m] # committed[m]}
Moved(A) == {m \in Members(A) : A[m] # committed[m] \/ loaded[m] # A[m]}
Changed(A) == A # committed \/ Moved(A) # {}

\* Nodes fetch and load in parallel: the slowest one is the migration.
Migration(A) ==
  Max({0} \cup {Missing(m, A[m]) * FetchS + Size(A[m]) * LoadS :
                  m \in {k \in Members(A) : loaded[k] # A[k]}})

\* should_apply: margin of 15%, payback within 600 s, cooldown.
PaysOff(A, provisional, rested) ==
  LET gained == Cycle(committed) - Cycle(A)
  IN /\ provisional \/ 100 * gained >= 15 * Cycle(A)
     /\ Migration(A) * Cycle(A) <= 600 * Max({0, gained})
     /\ provisional \/ rested

\* Mutant of Evicted: a hot member is reason enough, even one the plan keeps.
EvictedHot(A) == {m \in Members(committed) \cap Hot : Complete}
\* A hot member the plan drops goes without margin.
Evicted(A) == {m \in Members(committed) \cap Hot : Complete /\ m \notin Members(A)}
TooFew(A) == LET now == Cardinality(Members(committed))
             IN now < MinNodes /\ Cardinality(Members(A)) > now
WouldApply(A, force, provisional, rested) ==
  /\ A # NoLayout
  /\ \/ Evicted(A) # {}
     \/ TooFew(A)
     \/ Changed(A) /\ force
     \/ Changed(A) /\ ~Complete
     \/ Changed(A) /\ Complete /\ PaysOff(A, provisional, rested)

---------------------------------------------------------------------------
(* The loop.                                                                *)

Init ==
  /\ cost = [m \in Nodes |-> Min(Costs[m])]
  /\ ram = [m \in Nodes |-> Max(Rams[m])]
  /\ status = [m \in Nodes |-> "absent"]
  /\ loaded = [m \in Nodes |-> NoRange]
  /\ disk = [m \in Nodes |-> NoRange]
  /\ committed = NoLayout
  /\ moves = 0

\* _hello: the record starts with no layers (see Leave); the disk is what the
\* node reports.
Join(m) ==
  /\ status[m] = "absent"
  /\ status' = [status EXCEPT ![m] = "fit"]
  /\ moves' = 0
  /\ UNCHANGED <<cost, ram, loaded, disk, committed>>

\* _left: the record stays, absent; nobody reads its layers until Join.
Leave(m) ==
  /\ m \in Present
  /\ status' = [status EXCEPT ![m] = "absent"]
  /\ loaded' = [loaded EXCEPT ![m] = NoRange]
  /\ moves' = 0
  /\ UNCHANGED <<cost, ram, disk, committed>>

\* A returning member is told its committed range and loads it.
Reload(m) ==
  /\ m \in Present
  /\ committed[m] # NoRange /\ loaded[m] # committed[m]
  /\ loaded' = [loaded EXCEPT ![m] = committed[m]]
  /\ disk' = [disk EXCEPT ![m] = committed[m]]
  /\ moves' = 0
  /\ UNCHANGED <<cost, ram, status, committed>>

\* Heartbeats and hops change what a node costs, what it may hold, and whether
\* it is eligible.
Bench(m) ==
  /\ m \in Present
  /\ \E c \in Costs[m] \ {cost[m]} : cost' = [cost EXCEPT ![m] = c]
  /\ moves' = 0
  /\ UNCHANGED <<ram, status, loaded, disk, committed>>

Memory(m) ==
  /\ m \in Present
  /\ \E r \in Rams[m] \ {ram[m]} : ram' = [ram EXCEPT ![m] = r]
  /\ moves' = 0
  /\ UNCHANGED <<cost, status, loaded, disk, committed>>

Heat(m) ==
  /\ m \in Present \cap Phones
  /\ status' = [status EXCEPT ![m] = IF @ = "fit" THEN "hot" ELSE "fit"]
  /\ moves' = 0
  /\ UNCHANGED <<cost, ram, loaded, disk, committed>>

\* replan: the cooldown may be over or not; a plan may be forced (/rebalance),
\* and the first after a node's bench has its margin waived.
Replan ==
  \E A \in {Plan} :
    /\ \E force, provisional, rested \in BOOLEAN :
         WouldApply(A, force, provisional, rested)
    /\ committed' = A
    /\ loaded' = [m \in Nodes |-> IF A[m] # NoRange THEN A[m] ELSE loaded[m]]
    /\ disk' = [m \in Nodes |-> IF A[m] # NoRange THEN A[m] ELSE disk[m]]
    /\ moves' = moves + 1
    /\ UNCHANGED <<cost, ram, status>>

Next ==
  \/ Replan
  \/ \E m \in Nodes : \/ Join(m) \/ Leave(m) \/ Reload(m)
                      \/ Bench(m) \/ Memory(m) \/ Heat(m)

Spec == Init /\ [][Next]_vars

---------------------------------------------------------------------------
(* Properties.                                                              *)

\* What Rebalance assumes of the planner: a plan tiles the model over present
\* nodes, none beyond what its memory can hold at best.  The allocations, the
\* order, the churn-driven insertions and the dead band each rewrite the split.
\* Where there is no plan, what partial_fill says could be covered counts no layer
\* twice, although members grow into gaps from both sides and shrink to their RAM.
Apart(A) == /\ Covered(A) \subseteq LayerIds
            /\ \A m, k \in Members(A) : m # k => Held(A[m]) \cap Held(A[k]) = {}
PlansAreTilings ==
  IF Plan = NoLayout THEN Apart(Partial) ELSE Plan \in Tilings(Present)

\* If some set of present nodes can house the model within --min-layers and
\* --min-nodes, there is a plan, whatever corner the allocations paint
\* themselves into: allocate_balanced may give up on such a set, the cheapest
\* allocation and the plan with ineligible nodes are what is left.
Housing(S) == /\ Splittable(S) /\ S # {}
              /\ Cardinality(S) >= Min({MinNodes, Cardinality(Present)})
              /\ SumFunctionOnSet(ram, S) >= NLayers
FeasibleIsPlanned == (\E S \in SUBSET Present : Housing(S)) => Plan # NoLayout

\* The balanced allocation is within one layer of the slowest node of the best
\* there is ("minimises the cycle time under load").
Splits(S) == {s \in [S -> MinLayers .. NLayers] :
                SumFunction(s) = NLayers /\ \A m \in S : s[m] <= ram[m]}
SlowestIn(s) == Max({s[m] * cost[m] : m \in DOMAIN s})
NearlyBalanced ==
  \A S \in SUBSET Present :
    S # {} /\ Balanced(S) # NoSplit =>
      /\ Balanced(S) \in Splits(S)
      /\ \A s \in Splits(S) :
           SlowestIn(Balanced(S)) <= SlowestIn(s) + Max({cost[m] : m \in S})

\* A pipeline that is not complete (a member gone, or back without its layers)
\* is replaced as soon as a plan exists, without force, margin or cooldown, even
\* by the very layout that is committed.
BrokenIsReplaced ==
  ~Complete /\ Plan # NoLayout => WouldApply(Plan, FALSE, FALSE, FALSE)

\* With records that do not change the planner comes to rest: replan, run again
\* every PERIODIC_S, never moves the cluster more than twice.  Twice happens:
\* the dead band hides a better split of the current set until another set was
\* committed, and the margin and the payback time keep it from going on.
ComesToRest == moves <= 2
=============================================================================

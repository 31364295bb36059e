---------------------------- MODULE MCRebalance -----------------------------
(***************************************************************************)
(* Small instances of Rebalance: two nodes, two layers.                    *)
(***************************************************************************)
EXTENDS Rebalance, TLC

CONSTANTS n1, n2

AllFiles == {LayerIds}
SmallCap == [n \in Nodes |-> 1]
UnevenCap == [n \in Nodes |-> IF n = n1 THEN 2 ELSE 1]

\* A cluster that has settled on the layout A, its first.  c[n] is the connection
\* n is on: 0 if it has yet to join, and one on its last cannot come back.  A node
\* that keeps files has met every layer before.
SettledOn(A, c) ==
  /\ ws = c
  /\ ready = [n \in Nodes |-> A[n] # NoRange]
  /\ layers = A
  /\ role = [n \in Nodes |-> IF A[n] # NoRange THEN "active"
                             ELSE IF c[n] # 0 THEN "standby" ELSE "none"]
  /\ pendingGen = [n \in Nodes |-> IF A[n] # NoRange THEN 1 ELSE 0]
  /\ fresh = [n \in Nodes |-> c[n] # 0]
  /\ gen = 1 /\ committed = A
  /\ phase = "idle" /\ plan = NoPlan /\ todo = {} /\ wait = NoWait
  /\ gate = TRUE /\ queued = NoPlan /\ inflight = 0
  /\ conn = c
  /\ up = [n \in Nodes |-> c[n] # 0]
  /\ shard = A
  /\ files = [n \in Nodes |-> IF n \in KeepsFiles THEN LayerIds
                              ELSE Held(A[n])]
  /\ disk = [n \in Nodes |-> IF c[n] # 0 THEN files[n] ELSE {}]
  /\ tasks = [n \in Nodes |-> <<>>]
  /\ busy = [n \in Nodes |-> FALSE]
  /\ toNode = [n \in Nodes |-> <<>>]
  /\ toHub = [n \in Nodes |-> [d \in Conns |-> <<>>]]
  /\ open = [n \in Nodes |-> {c[n]} \ {0}]
  /\ faults = 0

\* One half each; everything on n1.
Halves == [n \in Nodes |-> IF n = n1 THEN <<0, 1>>
                           ELSE IF n = n2 THEN <<1, 2>> ELSE NoRange]
Solo   == [n \in Nodes |-> IF n = n1 THEN <<0, 2>> ELSE NoRange]

\* n1 and n2 serve; only n2 may come back; n1 serves and n2 is about to join.
Settled   == SettledOn(Halves, [n \in Nodes |-> 1])
N2Returns == SettledOn(Halves, [n \in Nodes |-> IF n = n2 THEN 1 ELSE MaxConn])
N2Joins   == SettledOn(Solo, [n \in Nodes |-> IF n = n1 THEN 1 ELSE 0])

SettledSpec == Settled /\ [][Next]_vars
N2Spec      == N2Returns /\ [][Next]_vars
JoinSpec    == N2Joins /\ [][Next]_vars /\ Fairness
=============================================================================

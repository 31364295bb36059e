------------------------------- MODULE Layers -------------------------------
(***************************************************************************)
(* Layer ranges and layouts, the data every other module is about.         *)
(*                                                                         *)
(* A model of NLayers decoder layers is split over nodes; a node holds one *)
(* half-open range [a, b) of layers.  A layout says which range each node  *)
(* is to hold.  The planner only hands the hub layouts that tile the model *)
(* and fit each node's memory, and the hub routes a request only over      *)
(* nodes that tile it.                                                     *)
(***************************************************************************)
EXTENDS Naturals, FiniteSets

CONSTANTS
  Nodes,    \* names of the nodes that may ever join
  NLayers,  \* cfg.n_layers
  Cap       \* Cap[n]: the most layers the planner's RAM bound lets n hold

ASSUME NLayersAssumption == NLayers \in Nat \ {0}
ASSUME CapAssumption == Cap \in [Nodes -> 0 .. NLayers]

LayerIds == 0 .. (NLayers - 1)

\* A range is <<first, end>> with end excluded; NoRange holds no layer.
Ranges  == {r \in (0 .. NLayers) \X (0 .. NLayers) : r[1] < r[2]}
NoRange == <<0, 0>>
Held(r) == r[1] .. (r[2] - 1)
Size(r) == r[2] - r[1]

Layouts  == [Nodes -> Ranges \cup {NoRange}]
NoLayout == [n \in Nodes |-> NoRange]

Members(A) == {n \in Nodes : A[n] # NoRange}

\* Every layer has exactly one owner: the ranges, taken in order, meet end to
\* end from layer 0 to the last one.
Tiles(A) ==
  \A l \in LayerIds :
    \E n \in Nodes : /\ l \in Held(A[n])
                     /\ \A k \in Nodes \ {n} : l \notin Held(A[k])

TiledLayouts == {A \in Layouts : Tiles(A)}

\* What the planner may choose for the nodes in S.
Tilings(S) ==
  {A \in TiledLayouts : /\ Members(A) \subseteq S
                        /\ \A n \in S : Size(A[n]) <= Cap[n]}
=============================================================================

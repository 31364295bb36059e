---------------------------- MODULE MCPlacement -----------------------------
(***************************************************************************)
(* A small instance of Placement: three nodes and six layers.  The first   *)
(* could hold the whole model, but its bench and its free memory vary; the *)
(* second is a phone that may overheat; the third holds half the model.    *)
(***************************************************************************)
EXTENDS Placement

LiveRams  == [m \in Nodes |-> <<{2, 5, 6}, {4}, {3}>>[m]]
LiveCosts == [m \in Nodes |-> <<{2, 7}, {5}, {7}>>[m]]
Caps      == [m \in Nodes |-> Max(LiveRams[m])]
=============================================================================

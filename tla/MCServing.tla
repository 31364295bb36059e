------------------------------ MODULE MCServing ------------------------------
(***************************************************************************)
(* Small instances of Serving: one or two requests on a cluster of two     *)
(* nodes that has settled on its first plan.                               *)
(***************************************************************************)
EXTENDS Serving, MCRebalance

CONSTANTS r1, r2

SettledInit == Settled /\ ServingInit

SettledServing == SettledInit /\ [][ServingNext]_allVars

FairServing == SettledServing /\ ServingFairness
=============================================================================

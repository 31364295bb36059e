---------------------------- MODULE LayoutService ----------------------------
(***************************************************************************)
(* What a rebalance promises whoever sends requests (dllm/hub.py).         *)
(*                                                                         *)
(* A caller sees a layout, its generation and a gate.  Nodes, sockets,     *)
(* prefetches, answers, retries and failures are not mentioned: however    *)
(* the hub moves layers, the layout changes only in a whole switch.  The   *)
(* gate closes, the generation goes up by one, a complete layout takes the *)
(* place of the old one, and the gate opens again, in this order and with  *)
(* no request let in between.                                              *)
(***************************************************************************)
EXTENDS Layers

VARIABLES
  layout,   \* the range of each node, nowhere before the first commit
  epoch,    \* generation of the working layout
  stage,    \* "serving", "draining" before a switch, "switching"
  open,     \* requests may begin
  running   \* requests begun and not yet ended

serviceVars == <<layout, epoch, stage, open, running>>

\* In service, on no layout yet or on one that is complete.
Init ==
  /\ layout \in {NoLayout} \cup TiledLayouts
  /\ epoch \in Nat
  /\ stage = "serving"
  /\ open = TRUE
  /\ running = 0

\* A request begins while the gate is open.
Admit ==
  /\ open
  /\ running' = running + 1
  /\ UNCHANGED <<layout, epoch, stage, open>>

\* A request ends, at any stage.
Release ==
  /\ running > 0
  /\ running' = running - 1
  /\ UNCHANGED <<layout, epoch, stage, open>>

\* No new requests; those under way go on with the layout they began with.
Close ==
  /\ stage = "serving" /\ open
  /\ stage' = "draining"
  /\ open' = FALSE
  /\ UNCHANGED <<layout, epoch, running>>

\* The drain is over, by itself or by its deadline: what is sent from now on
\* belongs to the next generation.
Advance ==
  /\ stage = "draining"
  /\ stage' = "switching"
  /\ epoch' = epoch + 1
  /\ UNCHANGED <<layout, open, running>>

\* A layout in which every layer has one owner takes over.
Switch ==
  /\ stage = "switching"
  /\ stage' = "serving"
  /\ layout' \in TiledLayouts
  /\ open' = TRUE
  /\ UNCHANGED <<epoch, running>>

Next == Admit \/ Release \/ Close \/ Advance \/ Switch

Spec == Init /\ [][Next]_serviceVars
=============================================================================

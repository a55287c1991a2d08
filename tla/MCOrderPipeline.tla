-------------------------- MODULE MCOrderPipeline --------------------------
(***************************************************************************)
(* Instances of OrderPipeline for TLC.                                     *)
(***************************************************************************)
EXTENDS OrderPipeline, TLC

CONSTANTS p1, p2
MCOrders == {p1, p2}
MCPaid == {p1, p2}
MCSymmetry == Permutations(MCPaid)
=============================================================================

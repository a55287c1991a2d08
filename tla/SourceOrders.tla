---------------------------- MODULE SourceOrders ----------------------------
(***************************************************************************)
(* The paid orders of the source database and their age, as the checks of  *)
(* the derived views see them.                                             *)
(*                                                                         *)
(* Orders are numbered in the order of their updated_at.  A paid order is  *)
(* not changed any more, so the orders with                                *)
(* updated_at <= now() - max_lag_seconds are always a prefix 1..aged of    *)
(* the orders 1..placed.                                                   *)
(***************************************************************************)
EXTENDS Integers, FiniteSets

CONSTANT MaxOrders            \* bound: how many orders are placed

ASSUME MaxOrdersAssumption == MaxOrders \in Nat

VARIABLES placed,             \* orders 1..placed are paid and committed
          aged                \* orders 1..aged are older than the lag

sourceVars == <<placed, aged>>

Orders == 1..MaxOrders

SourceTypeOK == placed \in 0..MaxOrders /\ aged \in 0..placed

SourceInit == placed = 0 /\ aged = 0

\* The generator commits one more paid order.
Place == /\ placed < MaxOrders
         /\ placed' = placed + 1
         /\ UNCHANGED aged

\* Time passes: the oldest order that was too young comes of age.
ComeOfAge == /\ aged < placed
             /\ aged' = aged + 1
             /\ UNCHANGED placed
=============================================================================

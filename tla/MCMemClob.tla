----------------------------- MODULE MCMemClob -----------------------------
(***************************************************************************)
(* A small book for TLC: three stateful orders, one of them post-only and  *)
(* one immediate-or-cancel and reduce-only, where alice may meet her own   *)
(* order, a short-term order with its replacement, and one liquidation.    *)
(***************************************************************************)
EXTENDS MemClob

Ord(id, owner, isBuy, subticks, size, goodTil, tif, stateful, reduceOnly) ==
  [id |-> id, owner |-> owner, isBuy |-> isBuy, subticks |-> subticks,
   size |-> size, goodTil |-> goodTil, tif |-> tif, stateful |-> stateful,
   reduceOnly |-> reduceOnly]

MCOrders ==
  1 :> Ord("a", "alice", FALSE, 2, 2, 9, "GTT", TRUE, FALSE) @@
  2 :> Ord("p", "alice", TRUE, 2, 2, 9, "PostOnly", TRUE, FALSE) @@
  3 :> Ord("i", "carl", TRUE, 2, 3, 9, "IOC", TRUE, TRUE) @@
  4 :> Ord("s", "bob", FALSE, 2, 2, 3, "GTT", FALSE, FALSE) @@
  5 :> Ord("s", "bob", FALSE, 1, 1, 4, "GTT", FALSE, FALSE)

MCLiquidations ==
  7 :> Ord("liquidation", "dan", FALSE, 1, 2, 0, "IOC", FALSE, FALSE)
=============================================================================

----------------------------- MODULE MCCheckTx ------------------------------
(***************************************************************************)
(* A small instance of CheckTx: a mempool with two order ids, a book whose *)
(* prices lie at both ends of the range, so that the scans wrap, at a tick *)
(* of three that may become one, and six signed short-term orders, five of *)
(* them under one id, of different lifetimes and sizes.                    *)
(***************************************************************************)
EXTENDS CheckTx, TLC

CONSTANTS
  o1, o2, o3,       \* order ids on the book: o1 is a short-term order
  s1, s2,           \* and the subaccounts they belong to
  x, y              \* ids of the signed short-term orders

MCOwner == o1 :> s1 @@ o2 :> s1 @@ o3 :> s2

Signed(id, goodTilBlock, hash, isBuy, quantums) ==
  [id |-> id, goodTilBlock |-> goodTilBlock, hash |-> hash, isBuy |-> isBuy,
   quantums |-> quantums]

MCSignedOrders ==
  {Signed(x, 2, 1, TRUE, 2), Signed(x, 3, 1, TRUE, 1), Signed(x, 3, 2, FALSE, 2),
   Signed(x, 5, 1, TRUE, 3), Signed(x, 6, 1, FALSE, 2), Signed(y, 4, 1, FALSE, 2)}

MCSubaccount == x :> s1 @@ y :> s2

ASSUME PartsWellFormed == Book!WellFormed /\ Fills!WellFormed

Symmetry == Permutations(StatefulIds)
=============================================================================

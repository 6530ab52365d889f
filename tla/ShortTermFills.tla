--------------------------- MODULE ShortTermFills ---------------------------
(***************************************************************************)
(* x/clob: how much of a short-term order has been filled, and until when  *)
(* the chain remembers it.                                                 *)
(*                                                                         *)
(* A short-term order is never written to state.  A proposer puts the      *)
(* signed order in its operations queue and matches it, and may do so      *)
(* again in every block up to the order's GoodTilBlock, or with another    *)
(* order of the same id.  Only the fill amount kept per id stands between  *)
(* the owner and a replay; it is dropped at a prunable height that every   *)
(* match may push further out.                                             *)
(*                                                                         *)
(* The operations of the queue are actions of their own: a prefix of a     *)
(* valid queue is a valid queue, and a queue that fails changes nothing.   *)
(* Prices and collateral only refuse matches: any match may be refused.    *)
(***************************************************************************)
EXTENDS Integers

CONSTANTS
  Orders,            \* the signed orders: see WellFormed
  Ids,               \* order ids
  Subaccount,        \* id |-> the subaccount in the id
  Subaccounts,
  ShortBlockWindow,
  None,              \* no order placed
  MaxHeight          \* bound on block heights

WellFormed ==
  /\ Orders \subseteq
       [id : Ids, goodTilBlock : Nat, hash : Nat, isBuy : BOOLEAN,
        quantums : Nat \ {0}]
  /\ Subaccount \in [Ids -> Subaccounts]
  /\ ShortBlockWindow \in Nat
  /\ MaxHeight \in Nat \ {0}
  /\ None \notin Orders

VARIABLES
  height,
  placed,      \* placedShortTermOrders of the block: id |-> order or None
  fillState,   \* OrderFillState by id; a fillAmount of 0 stands for no entry
  pruneIndex,  \* prunable orders: pairs of a height and an id
  filledBy     \* history: the quantums traded on each signed order

vars == <<height, placed, fillState, pruneIndex, filledBy>>

FillStates == [fillAmount : Nat, prunable : Nat]
NoFill == [fillAmount |-> 0, prunable |-> 0]
NonePlaced == [id \in Ids |-> None]

Init ==
  /\ height = 1
  /\ placed = NonePlaced
  /\ fillState = [id \in Ids |-> NoFill]
  /\ pruneIndex = {}
  /\ filledBy = [o \in Orders |-> 0]

-----------------------------------------------------------------------------

\* MustCmpReplacementOrder(x, y) = -1
IsReplacedBy(x, y) ==
  \/ x.goodTilBlock < y.goodTilBlock
  \/ x.goodTilBlock = y.goodTilBlock /\ x.hash < y.hash

\* validateGoodTilBlock
ValidGoodTilBlock(o) ==
  /\ height =< o.goodTilBlock
  /\ o.goodTilBlock =< height + ShortBlockWindow

\* An InternalOperation_ShortTermOrderPlacement of the queue.
PlaceShortTermOrder(o) ==
  /\ placed[o.id] # None => IsReplacedBy(placed[o.id], o)
  /\ ValidGoodTilBlock(o)
  /\ placed' = [placed EXCEPT ![o.id] = o]
  /\ UNCHANGED <<height, fillState, pruneIndex, filledBy>>

-----------------------------------------------------------------------------

\* getUpdatedOrderFillAmount
FillFits(o, amount) == fillState[o.id].fillAmount + amount =< o.quantums

\* Mutant: no memory beyond the order's own GoodTilBlock.
PruneAtGoodTilBlock(o) ==
  IF fillState[o.id].prunable > o.goodTilBlock
  THEN fillState[o.id].prunable ELSE o.goodTilBlock

\* setOrderFillAmountsAndPruning: the height at which the fill may be dropped.
PrunableHeight(o) ==
  IF fillState[o.id].prunable > o.goodTilBlock + ShortBlockWindow
  THEN fillState[o.id].prunable
  ELSE o.goodTilBlock + ShortBlockWindow

\* AddOrdersForPruning
AddedForPruning(S) == {<<PrunableHeight(o), o.id>> : o \in S}

\* setOrderFillAmountsAndPruning for the orders of S, whose ids differ.
SetOrderFillAmounts(S, amount) ==
  /\ fillState' =
       [id \in Ids |->
          IF \E o \in S : o.id = id
          THEN LET o == CHOOSE p \in S : p.id = id
               IN  [fillAmount |-> fillState[id].fillAmount + amount,
                    prunable |-> PrunableHeight(o)]
          ELSE fillState[id]]
  /\ pruneIndex' = pruneIndex \cup AddedForPruning(S)
  /\ filledBy' =
       [o \in Orders |-> IF o \in S THEN filledBy[o] + amount ELSE filledBy[o]]

\* PersistMatchOrdersToState and ProcessSingleMatch for one fill of two
\* short-term orders, each the latest placed under its id.
MatchOrders(taker, maker, amount) ==
  /\ placed[taker.id] = taker
  /\ placed[maker.id] = maker
  /\ Subaccount[taker.id] # Subaccount[maker.id]
  /\ taker.isBuy # maker.isBuy
  /\ FillFits(taker, amount)
  /\ FillFits(maker, amount)
  /\ SetOrderFillAmounts({taker, maker}, amount)
  /\ UNCHANGED <<height, placed>>

\* A fill against an order that is not short-term: a liquidation order, whose
\* fills are not tracked, or a stateful order.
MatchOneOrder(o, amount) ==
  /\ placed[o.id] = o
  /\ FillFits(o, amount)
  /\ SetOrderFillAmounts({o}, amount)
  /\ UNCHANGED <<height, placed>>

-----------------------------------------------------------------------------

\* Mutant: whatever is listed at the height goes.
PruneAllListed == {id \in Ids : <<height, id>> \in pruneIndex}

\* PruneOrdersForBlockHeight: a listed id is pruned unless a later match has
\* pushed its prunable height out.
Prunable ==
  {id \in Ids : /\ <<height, id>> \in pruneIndex
                /\ fillState[id].fillAmount > 0
                /\ fillState[id].prunable =< height}

\* EndBlocker; the next block starts with an empty queue.
EndBlock ==
  /\ height < MaxHeight
  /\ fillState' =
       [id \in Ids |-> IF id \in Prunable THEN NoFill ELSE fillState[id]]
  /\ pruneIndex' = {e \in pruneIndex : e[1] # height}
  /\ placed' = NonePlaced
  /\ height' = height + 1
  /\ UNCHANGED filledBy

\* validateMatchOrdersOperation: a fill of zero is refused.
Amounts(o) == 1 .. o.quantums

Next ==
  \/ \E o \in Orders : PlaceShortTermOrder(o)
  \/ \E taker, maker \in Orders :
       \E amount \in Amounts(taker) : MatchOrders(taker, maker, amount)
  \/ \E o \in Orders : \E amount \in Amounts(o) : MatchOneOrder(o, amount)
  \/ EndBlock

Spec == Init /\ [][Next]_vars

-----------------------------------------------------------------------------

\* The stores hold what their types say; in particular a recorded fill never
\* exceeds the largest order ever filled under the id, so a fill amount fits
\* the uint64 that the sizes fit.
TypeOK ==
  /\ height \in 1 .. MaxHeight
  /\ placed \in [Ids -> Orders \cup {None}]
  /\ \A id \in Ids : placed[id] # None => placed[id].id = id
  /\ fillState \in [Ids -> FillStates]
  /\ pruneIndex \subseteq Nat \X Ids
  /\ filledBy \in [Orders -> Nat]
  /\ \A id \in Ids :
       fillState[id].fillAmount > 0 =>
         \E o \in Orders : o.id = id /\ fillState[id].fillAmount =< o.quantums

\* Two orders of one id, one of which may replace the other while it is good.
Replaceable(a, b) ==
  /\ a # b
  /\ a.id = b.id
  /\ a.goodTilBlock =< b.goodTilBlock + ShortBlockWindow
  /\ b.goodTilBlock =< a.goodTilBlock + ShortBlockWindow

LargerSize(a, b) == IF a.quantums > b.quantums THEN a.quantums ELSE b.quantums

\* A signed short-term order never trades more than its size, however often
\* proposers place it again; and an order and its replacement together trade
\* no more than the larger of the two, whichever is matched first and however
\* many blocks lie between: the fill amount outlives every order that could
\* still be matched against it.
NoOverfill ==
  /\ \A o \in Orders : filledBy[o] =< o.quantums
  /\ \A a, b \in Orders :
       Replaceable(a, b) => filledBy[a] + filledBy[b] =< LargerSize(a, b)

\* Every fill amount is listed for pruning at its own prunable height, which
\* has not passed: no fill amount stays in state for ever, and the case
\* PruneOrdersForBlockHeight logs as "this should never happen" does not.
PruneListed ==
  \A id \in Ids :
    fillState[id].fillAmount > 0 =>
      /\ <<fillState[id].prunable, id>> \in pruneIndex
      /\ fillState[id].prunable >= height

\* A fill amount is dropped only when no order that contributed to it could be
\* replaced any more: one whole window after the last GoodTilBlock.
KeptWhileNeeded ==
  \A o \in Orders :
    /\ filledBy[o] > 0
    /\ fillState[o.id].fillAmount > 0
    /\ fillState'[o.id].fillAmount = 0
    => height >= o.goodTilBlock + ShortBlockWindow
=============================================================================

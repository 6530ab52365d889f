----------------------------- MODULE OrderBook ------------------------------
(***************************************************************************)
(* x/clob/memclob/orderbook.go: the in-memory order book of one clob pair. *)
(* Orders rest in price levels, first come first served; the best price of *)
(* each side is cached and the next level is searched for from the current *)
(* one, stepping by ticks in uint64 arithmetic.  Five indexes repeat parts *)
(* of the levels (orders by id, by subaccount and side, reduce-only orders,*)
(* orders by expiry block, the total), and two maps hold the cancels.      *)
(*                                                                         *)
(* A Go map whose values are sets, which drops its empty inner sets, is    *)
(* the set of its (key, element) pairs; a level that does not exist is the *)
(* empty sequence.  MemClob models what is done with the book.             *)
(***************************************************************************)
EXTENDS Integers, Sequences, FiniteSets

CONSTANTS
  OrderIds, ShortTermIds,   \* all order ids, and those of short-term orders
  Owner,                    \* Owner[id]: the subaccount an id belongs to
  SubticksPerTick,          \* of the clob pair as it was created
  Prices,                   \* subticks that orders come with
  Width,                    \* the width of Subticks (64 in the code)
  Blocks                    \* GoodTilBlocks of short-term orders and cancels

MaxSubticks == 2 ^ Width - 1

\* What the constants stand for: a tick is at least one subtick.
WellFormed ==
  /\ SubticksPerTick \in Nat \ {0} /\ Width \in Nat
  /\ Prices \subseteq 1 .. MaxSubticks /\ ShortTermIds \subseteq OrderIds

Order ==
  [id : ShortTermIds, isBuy : BOOLEAN, subticks : Prices,
   goodTilBlock : Blocks, reduceOnly : BOOLEAN]
  \cup [id : OrderIds \ ShortTermIds, isBuy : BOOLEAN, subticks : Prices,
        goodTilBlock : {0}, reduceOnly : BOOLEAN]

VARIABLES
  levels,       \* levels[isBuy][subticks]: the ids in the level (Bids, Asks)
  best,         \* best[isBuy]: BestBid, 0 if none; BestAsk, MaxUint64 if none
  orderOf,      \* orderIdToLevelOrder
  openOrders,   \* SubaccountOpenClobOrders: <<subaccount, isBuy, id>>
  reduceOnly,   \* SubaccountOpenReduceOnlyOrders: <<subaccount, id>>
  expirations,  \* blockExpirationsForOrders: <<block, id>>
  total,        \* TotalOpenOrders
  cancelExpiry, \* orderIdToCancelExpiry
  cancelsAt,    \* cancelExpiryToOrderIds: <<block, id>>
  tick          \* SubticksPerTick of the book

bookVars == <<levels, best, orderOf, openOrders, reduceOnly, expirations, total>>
cancelVars == <<cancelExpiry, cancelsAt>>
vars == <<bookVars, cancelVars, tick>>

\* The best price of an empty side.
NoSubticks(isBuy) == IF isBuy THEN 0 ELSE MaxSubticks

Init ==
  /\ levels = [isBuy \in BOOLEAN |-> [p \in Prices |-> <<>>]]
  /\ best = [isBuy \in BOOLEAN |-> NoSubticks(isBuy)]
  /\ orderOf = [id \in {} |-> 0]
  /\ openOrders = {} /\ reduceOnly = {} /\ expirations = {}
  /\ total = 0
  /\ cancelExpiry = [id \in {} |-> 0]
  /\ cancelsAt = {}
  /\ tick = SubticksPerTick

-----------------------------------------------------------------------------
(* The search for the next price level.                                    *)

Populated(side) == {p \in Prices : side[p] # <<>>}

Better(isBuy, p, q) == IF isBuy THEN p > q ELSE p < q

\* The i-th price after start, as uint64 arithmetic computes it.
Step(start, isBuy, i) ==
  (IF isBuy THEN start - i * tick ELSE start + i * tick) % (2 ^ Width)

\* The first loop: at most as many steps as there are levels.
Scanned(side, start, isBuy) ==
  {i \in 1 .. Cardinality(Populated(side)) :
     Step(start, isBuy, i) \in Populated(side)}

\* The fallback over all levels: strictly worse than start, and strictly
\* better than the worst possible price.
Remaining(side, start, isBuy) ==
  {p \in Populated(side) :
     Better(isBuy, start, p) /\ Better(isBuy, p, NoSubticks(isBuy))}

\* The best of some prices.
BestOf(isBuy, prices) ==
  CHOOSE p \in prices : \A q \in prices : p = q \/ Better(isBuy, p, q)

\* Mutant: a level is taken from the wrong end of what remains.
WorstNext(side, start, isBuy) ==
  IF Remaining(side, start, isBuy) # {}
    THEN [subticks |-> BestOf(~isBuy, Remaining(side, start, isBuy)), found |-> TRUE]
    ELSE [subticks |-> NoSubticks(isBuy), found |-> FALSE]

\* findNextBestSubticks, and whether it found any.
FindNextBestSubticks(side, start, isBuy) ==
  IF Scanned(side, start, isBuy) # {}
    THEN [subticks |-> Step(start, isBuy, CHOOSE i \in Scanned(side, start, isBuy) :
                                            \A j \in Scanned(side, start, isBuy) : i <= j),
          found |-> TRUE]
  ELSE IF Remaining(side, start, isBuy) # {}
    THEN [subticks |-> BestOf(isBuy, Remaining(side, start, isBuy)), found |-> TRUE]
  ELSE [subticks |-> NoSubticks(isBuy), found |-> FALSE]

-----------------------------------------------------------------------------
(* Orders.                                                                 *)

BestWith(order) ==
  IF Better(order.isBuy, order.subticks, best[order.isBuy])
    THEN order.subticks ELSE best[order.isBuy]

ExpiryOf(order) ==
  IF order.id \in ShortTermIds THEN {<<order.goodTilBlock, order.id>>} ELSE {}

ReduceOnlyEntry(order) ==
  IF order.reduceOnly THEN {<<Owner[order.id], order.id>>} ELSE {}

\* Stateful validation: the price of an order is a multiple of the tick.
ValidSubticks(order) == order.subticks % tick = 0

\* mustAddOrderToOrderbook; the memclob removes an order before it replaces it.
MustAddOrderToOrderbook(order, forceToFrontOfLevel) ==
  /\ ValidSubticks(order)
  /\ order.id \notin DOMAIN orderOf
  /\ best' = [best EXCEPT ![order.isBuy] = BestWith(order)]
  /\ levels' = [levels EXCEPT ![order.isBuy][order.subticks] =
                  IF forceToFrontOfLevel THEN <<order.id>> \o @
                                         ELSE Append(@, order.id)]
  /\ orderOf' = [id \in DOMAIN orderOf \cup {order.id} |->
                   IF id = order.id THEN order ELSE orderOf[id]]
  /\ openOrders' = openOrders \cup {<<Owner[order.id], order.isBuy, order.id>>}
  /\ total' = total + 1
  /\ expirations' = expirations \cup ExpiryOf(order)
  /\ reduceOnly' = reduceOnly \cup ReduceOnlyEntry(order)
  /\ UNCHANGED <<cancelVars, tick>>

\* The best price of a side without the order: it changes only when the level
\* of the best price has become empty, and then whether or not one was found.
BestWithout(order, side) ==
  IF side[order.subticks] = <<>> /\ best[order.isBuy] = order.subticks
    THEN FindNextBestSubticks(side, order.subticks, order.isBuy).subticks
    ELSE best[order.isBuy]

\* Mutant: the reduce-only index is forgotten.
KeepReduceOnly(order) == reduceOnly

ReduceOnlyWithout(order) == reduceOnly \ ReduceOnlyEntry(order)

ExpirationsWithout(order) == expirations \ ExpiryOf(order)

\* LevelOrders.Remove: the linked list of a level without the node of an order.
Unlinked(level, id) ==
  LET node == CHOOSE k \in DOMAIN level : level[k] = id
  IN  [k \in 1 .. Len(level) - 1 |-> IF k < node THEN level[k] ELSE level[k + 1]]

\* mustRemoveOrder.
MustRemoveOrder(id) ==
  /\ id \in DOMAIN orderOf
  /\ \E order \in {orderOf[id]} :
     \E side \in {[levels[order.isBuy] EXCEPT ![order.subticks] = Unlinked(@, id)]} :
       /\ levels' = [levels EXCEPT ![order.isBuy] = side]
       /\ best' = [best EXCEPT ![order.isBuy] = BestWithout(order, side)]
       /\ openOrders' = openOrders \ {<<Owner[id], order.isBuy, id>>}
       /\ expirations' = ExpirationsWithout(order)
       /\ reduceOnly' = ReduceOnlyWithout(order)
  /\ orderOf' = [other \in DOMAIN orderOf \ {id} |-> orderOf[other]]
  /\ total' = total - 1
  /\ UNCHANGED <<cancelVars, tick>>

-----------------------------------------------------------------------------
(* Cancels of short-term orders.                                           *)

\* addShortTermCancel; the memclob removes an earlier cancel first.
AddShortTermCancel(id, tilBlock) ==
  /\ id \notin DOMAIN cancelExpiry
  /\ cancelExpiry' = [other \in DOMAIN cancelExpiry \cup {id} |->
                        IF other = id THEN tilBlock ELSE cancelExpiry[other]]
  /\ cancelsAt' = cancelsAt \cup {<<tilBlock, id>>}
  /\ UNCHANGED <<bookVars, tick>>

CancelsAtWithout(ids) == {c \in cancelsAt : c[2] \notin ids}

RemoveCancels(ids) ==
  /\ cancelExpiry' = [other \in DOMAIN cancelExpiry \ ids |-> cancelExpiry[other]]
  /\ cancelsAt' = CancelsAtWithout(ids)
  /\ UNCHANGED <<bookVars, tick>>

\* mustRemoveCancel.
MustRemoveCancel(id) == id \in DOMAIN cancelExpiry /\ RemoveCancels({id})

\* removeAllCancelsAtBlock.
RemoveAllCancelsAtBlock(block) ==
  /\ \E c \in cancelsAt : c[1] = block
  /\ RemoveCancels({c[2] : c \in {d \in cancelsAt : d[1] = block}})

-----------------------------------------------------------------------------
(* The tick.                                                               *)

\* SyncOrderbookState, for the tick that UpdateClobPair has accepted: a divisor
\* of the one before, so that the orders on the book stay valid.
SyncOrderbookState(t) ==
  /\ tick % t = 0
  /\ tick' = t
  /\ UNCHANGED <<bookVars, cancelVars>>

Next ==
  \/ \E order \in Order, front \in BOOLEAN : MustAddOrderToOrderbook(order, front)
  \/ \E id \in DOMAIN orderOf : MustRemoveOrder(id)
  \/ \E id \in ShortTermIds, tilBlock \in Blocks : AddShortTermCancel(id, tilBlock)
  \/ \E id \in DOMAIN cancelExpiry : MustRemoveCancel(id)
  \/ \E block \in Blocks : RemoveAllCancelsAtBlock(block)
  \/ \E t \in 1 .. tick : SyncOrderbookState(t)

Spec == Init /\ [][Next]_vars

-----------------------------------------------------------------------------
(* Properties.                                                             *)

\* The cached best prices are the best prices.
BestExact ==
  \A isBuy \in BOOLEAN :
    IF Populated(levels[isBuy]) = {}
      THEN best[isBuy] = NoSubticks(isBuy)
      ELSE /\ best[isBuy] \in Populated(levels[isBuy])
           /\ \A p \in Populated(levels[isBuy]) : ~Better(isBuy, p, best[isBuy])

\* The levels, the best prices and the indexes tell the same story after any
\* sequence of orders and cancels added and removed: every order by id is in
\* its level, once, and in every index that should list it, and there is
\* nothing else in any of them.  getSubaccountOrders and the purge of a block
\* panic and mustRemoveOrder follows a dangling pointer when they do not.
IndexesAgree ==
  /\ BestExact
  /\ \A id \in DOMAIN orderOf :
       LET level == levels[orderOf[id].isBuy][orderOf[id].subticks]
       IN  Cardinality({k \in DOMAIN level : level[k] = id}) = 1
  /\ \A isBuy \in BOOLEAN, p \in Prices : \A k \in DOMAIN levels[isBuy][p] :
       /\ levels[isBuy][p][k] \in DOMAIN orderOf
       /\ orderOf[levels[isBuy][p][k]].isBuy = isBuy
       /\ orderOf[levels[isBuy][p][k]].subticks = p
  /\ openOrders = {<<Owner[id], orderOf[id].isBuy, id>> : id \in DOMAIN orderOf}
  /\ reduceOnly = UNION {ReduceOnlyEntry(orderOf[id]) : id \in DOMAIN orderOf}
  /\ expirations = UNION {ExpiryOf(orderOf[id]) : id \in DOMAIN orderOf}
  /\ total = Cardinality(DOMAIN orderOf)
  /\ cancelsAt = {<<cancelExpiry[id], id>> : id \in DOMAIN cancelExpiry}

\* The levels that are worse than p.
Worse(side, p, isBuy) == {q \in Populated(side) : Better(isBuy, p, q)}

\* The prices that the scan looks at are in range, or none is a multiple of the
\* tick once it has wrapped around.
ScanInRange(side, start, isBuy) ==
  LET length == Cardinality(Populated(side)) * tick
  IN  \/ 2 ^ Width % tick # 0
      \/ IF isBuy THEN length <= start ELSE start + length <= MaxSubticks

\* From every level the search finds the next one and, from the last, none:
\* matching walks the levels in price order and leaves none out, though the
\* scan may wrap around below zero or above the largest uint64 and the tick
\* may change.  Two things are beyond it: an ask at the largest price, which
\* stands for no ask, may be missed; and a tick that divides 2^Width lets a
\* scan that wraps around come upon a level.
NextBestExact ==
  \A isBuy \in BOOLEAN : \A p \in Populated(levels[isBuy]) :
    LET next  == FindNextBestSubticks(levels[isBuy], p, isBuy)
        worse == Worse(levels[isBuy], p, isBuy)
    IN  ScanInRange(levels[isBuy], p, isBuy) =>
          /\ next.found =>
               next.subticks \in worse /\ \A q \in worse : ~Better(isBuy, q, next.subticks)
          /\ worse \ {NoSubticks(isBuy)} # {} => next.found

\* What the comment of findNextBestSubticks says, without exception: it returns
\* the next best level, and whether there is one.
NextBestAsDocumented ==
  \A isBuy \in BOOLEAN : \A p \in Populated(levels[isBuy]) :
    LET next  == FindNextBestSubticks(levels[isBuy], p, isBuy)
        worse == Worse(levels[isBuy], p, isBuy)
    IN  /\ next.found <=> worse # {}
        /\ next.found => next.subticks = BestOf(isBuy, worse)
=============================================================================

--------------------------- MODULE StatefulOrders ---------------------------
(***************************************************************************)
(* x/clob: the life of stateful (long-term and conditional) orders.        *)
(*                                                                         *)
(* The keeper spreads one order over several stores: a placement (in the   *)
(* long-term, the untriggered or the triggered store), an entry in the     *)
(* expirations by time, a fill amount, and a count per subaccount.  The    *)
(* count lives in the memstore, which a restart loses, and so do the lists *)
(* that tell the memclob what the block did.  A block runs in this order:  *)
(* BeginBlocker, the proposed operations (always the first transaction),   *)
(* placements and cancellations, EndBlocker, and, once committed,          *)
(* PrepareCheckState, which purges and refills the order book.             *)
(*                                                                         *)
(* The operations of the proposed queue are actions of their own: a prefix *)
(* of a valid queue is a valid queue, and a queue that fails changes       *)
(* nothing.  A match is modelled from the side of one stateful order; the  *)
(* other side is another such step or an order of another kind.            *)
(***************************************************************************)
EXTENDS Integers, FiniteSets

CONSTANTS
  LongTermIds,       \* ids of long-term orders
  ConditionalIds,    \* ids of conditional orders
  Subaccounts,
  Owner,             \* id |-> subaccount
  Quantums,          \* size of every order
  EquityTierLimit,   \* open stateful orders allowed per subaccount
  StatefulOrderTimeWindow,
  TriggerBelow,      \* take-profit buys and stop-loss sells; the other
                     \* conditional orders trigger when the price rises
  TriggerSubticks,   \* id |-> ConditionalOrderTriggerSubticks
  PriceGrain,        \* prices are rationals: multiples of 1/PriceGrain subtick
  OraclePrices,      \* prices x/prices may report, in grains
  BandDivisor,       \* a trade price counts up to oracle/BandDivisor away
  TradeSubticks,     \* prices of matches, in subticks
  None,              \* no placement, no trade price
  MaxTime,           \* bound on block times
  MaxHeight          \* bound on block heights

Ids == LongTermIds \cup ConditionalIds
Times == 0 .. MaxTime
Heights == 0 .. MaxHeight
Stores == {"LongTerm", "Untriggered", "Triggered"}

\* LongTermOrderPlacement: of the order only GoodTilBlockTime varies; height
\* and index are its PlacementIndex.
Placements == [gtbt : Times, height : Heights, index : Nat]

ASSUME StatefulOrdersAssumption ==
  /\ LongTermIds \cap ConditionalIds = {}
  /\ IsFiniteSet(Ids)
  /\ Owner \in [Ids -> Subaccounts]
  /\ Quantums \in Nat \ {0}
  /\ EquityTierLimit \in Nat
  /\ StatefulOrderTimeWindow \in Nat
  /\ TriggerBelow \subseteq ConditionalIds
  /\ TriggerSubticks \in [ConditionalIds -> Nat]
  /\ PriceGrain \in Nat \ {0}
  /\ BandDivisor \in Nat \ {0}
  /\ OraclePrices \subseteq Nat
  /\ OraclePrices # {}
  /\ \A o \in OraclePrices : o % BandDivisor = 0
  /\ TradeSubticks \subseteq Nat
  /\ MaxTime \in Nat
  /\ MaxHeight \in Nat \ {0}
  /\ None \notin Placements \cup [min : Nat, max : Nat]

VARIABLES
  height, prevTime, blockTime,
  phase,        \* "ops", "txs", "committed" (before PrepareCheckState), "checked"
  store,        \* the three placement stores: None where there is no entry
  expirations,  \* the expiration index: pairs of a time and an id
  fillAmount,   \* order fill amounts; 0 stands for no entry
  orderCount,   \* memstore: stateful orders per subaccount
  nextIndex,    \* transient: NextStatefulOrderBlockTransactionIndex
  events,       \* memstore: ProcessProposerMatchesEvents of the block
  delivered,    \* memstore: ids delivered in the block
  oracle,       \* oracle price of the block, in grains
  tradePrices,  \* transient: lowest and highest price traded in the block
  book          \* memclob: the placement each resting order was placed from

chainVars == <<store, expirations, fillAmount, orderCount, nextIndex>>
memVars == <<events, delivered, oracle, tradePrices, book>>
clockVars == <<height, prevTime, blockTime>>
vars == <<clockVars, phase, chainVars, memVars>>

NoEvents == [filled |-> {}, removed |-> {}, expired |-> {}, triggered |-> {}]
NoneDelivered == [longTerm |-> {}, conditional |-> {}, cancelled |-> {}]

Init ==
  /\ height = 1
  /\ prevTime = 0
  /\ blockTime = 0
  /\ phase = "checked"
  /\ store = [st \in Stores |-> [id \in Ids |-> None]]
  /\ expirations = {}
  /\ fillAmount = [id \in Ids |-> 0]
  /\ orderCount = [s \in Subaccounts |-> 0]
  /\ nextIndex = 0
  /\ events = NoEvents
  /\ delivered = NoneDelivered
  /\ oracle \in OraclePrices
  /\ tradePrices = None
  /\ book = [id \in Ids |-> None]

-----------------------------------------------------------------------------
(* Placement stores.                                                       *)

IsConditionalOrderTriggered(id) == store["Triggered"][id] # None

\* fetchStateStoresForOrder
FetchStore(id) ==
  IF id \in LongTermIds THEN "LongTerm"
  ELSE IF IsConditionalOrderTriggered(id) THEN "Triggered"
  ELSE "Untriggered"

GetLongTermOrderPlacement(id) == store[FetchStore(id)][id]

Exists(id) == GetLongTermOrderPlacement(id) # None

\* FetchOrderFromOrderId: the proposer may use an order that is placed; an
\* untriggered conditional order is not.
IsPlaced(id) == Exists(id) /\ FetchStore(id) # "Untriggered"

\* DeleteLongTermOrderPlacement for every id of S.
StoreWithout(S) ==
  [st \in Stores |-> [id \in Ids |->
     IF id \in S /\ st = FetchStore(id) THEN None ELSE store[st][id]]]

OpenOrders(s, S) == {id \in S : Owner[id] = s /\ Exists(id)}

\* CheckAndDecrementStatefulOrderCount, which stops at zero.
CountWithout(S) ==
  [s \in Subaccounts |->
     LET left == orderCount[s] - Cardinality(OpenOrders(s, S))
     IN  IF left < 0 THEN 0 ELSE left]

\* Mutant: the order goes, its entry in the time slice stays.
KeepTimeSlices(S) == expirations

\* RemoveStatefulOrderIdExpiration at the GoodTilBlockTime of each order.
ExpirationsWithout(S) ==
  expirations \ {<<GetLongTermOrderPlacement(id).gtbt, id>> : id \in S}

FillsWithout(S) == [id \in Ids |-> IF id \in S THEN 0 ELSE fillAmount[id]]

\* MustRemoveStatefulOrder for every id of S, all of them existing.
MustRemoveStatefulOrders(S) ==
  /\ store' = StoreWithout(S)
  /\ orderCount' = CountWithout(S)
  /\ expirations' = ExpirationsWithout(S)
  /\ fillAmount' = FillsWithout(S)

-----------------------------------------------------------------------------
(* Triggering of conditional orders.                                       *)

RoundUp(p) == (p + PriceGrain - 1) \div PriceGrain
RoundDown(p) == p \div PriceGrain

CanTrigger(id, subticks) ==
  IF id \in TriggerBelow THEN TriggerSubticks[id] >= subticks
                         ELSE TriggerSubticks[id] <= subticks

\* Mutant: rounding in the order's favour.
OptimisticPoll(id, p) ==
  CanTrigger(id, IF id \in TriggerBelow THEN RoundDown(p) ELSE RoundUp(p))

\* PollTriggeredConditionalOrders: up for the orders that wait for a fall,
\* down for those that wait for a rise.
Polled(id, p) ==
  CanTrigger(id, IF id \in TriggerBelow THEN RoundUp(p) ELSE RoundDown(p))

Clamp(p, lo, hi) == IF p < lo THEN lo ELSE IF p > hi THEN hi ELSE p

\* getClampedTradePricesForTriggering
ClampedTradePrice(subticks) ==
  LET maxAllowedRange == oracle \div BandDivisor
  IN  Clamp(subticks * PriceGrain, oracle - maxAllowedRange,
            oracle + maxAllowedRange)

\* MaybeTriggerConditionalOrders makes one pass per price: the oracle price,
\* then the lowest and the highest price traded, if there was a trade.
Passes == IF tradePrices = None THEN {1} ELSE {1, 2, 3}

PassPrice(k) ==
  CASE k = 1 -> oracle
    [] k = 2 -> ClampedTradePrice(tradePrices.min)
    [] k = 3 -> ClampedTradePrice(tradePrices.max)

TriggeringPasses(id) == {k \in Passes : Polled(id, PassPrice(k))}

\* The pass that triggers the order: the first that can.
PassOf(id) ==
  CHOOSE k \in TriggeringPasses(id) : \A j \in TriggeringPasses(id) : k <= j

Earlier(p, q) ==
  p.height < q.height \/ (p.height = q.height /\ p.index < q.index)

\* Triggered earlier: in an earlier pass; in one pass the orders that wait for
\* a fall come first, and each list keeps the order of placement.
TriggeredBefore(a, b) ==
  \/ PassOf(a) < PassOf(b)
  \/ /\ PassOf(a) = PassOf(b)
     /\ \/ a \in TriggerBelow /\ b \notin TriggerBelow
        \/ /\ a \in TriggerBelow <=> b \in TriggerBelow
           /\ Earlier(store["Untriggered"][a], store["Untriggered"][b])

\* MustTriggerConditionalOrder writes a new PlacementIndex.
TriggeredPlacement(id, S) ==
  [store["Untriggered"][id] EXCEPT
     !.height = height,
     !.index = nextIndex
               + Cardinality({other \in S : TriggeredBefore(other, id)})]

\* The stores after the orders S expired and the orders T triggered.
StoreAfterEndBlock(S, T) ==
  [StoreWithout(S) EXCEPT
     !["Triggered"] = [id \in Ids |-> IF id \in T THEN TriggeredPlacement(id, T)
                                                  ELSE @[id]],
     !["Untriggered"] = [id \in Ids |-> IF id \in T THEN None ELSE @[id]]]

-----------------------------------------------------------------------------
(* The block.                                                              *)

\* BeginBlocker.  Block times never decrease; two blocks may fall into the
\* same second.  The transient stores start empty.
BeginBlock(t, o) ==
  /\ phase = "checked"
  /\ height < MaxHeight
  /\ t \in blockTime .. MaxTime
  /\ height' = height + 1
  /\ prevTime' = blockTime
  /\ blockTime' = t
  /\ phase' = "ops"
  /\ nextIndex' = 0
  /\ events' = NoEvents
  /\ delivered' = NoneDelivered
  /\ oracle' = o
  /\ tradePrices' = None
  /\ UNCHANGED <<store, expirations, fillAmount, orderCount, book>>

\* SetTradePricesForPerpetual
WithTradePrice(subticks) ==
  IF tradePrices = None THEN [min |-> subticks, max |-> subticks]
  ELSE [min |-> IF subticks < tradePrices.min THEN subticks ELSE tradePrices.min,
        max |-> IF subticks > tradePrices.max THEN subticks ELSE tradePrices.max]

\* getUpdatedOrderFillAmount and the zero-fill check of ProcessSingleMatch.
FillFits(id, amount) == amount > 0 /\ fillAmount[id] + amount <= Quantums

\* PersistMatchOrdersToState, PersistMatchLiquidationToState
MatchOrder(id, amount, subticks) ==
  /\ phase = "ops"
  /\ IsPlaced(id)
  /\ FillFits(id, amount)
  /\ fillAmount' = [fillAmount EXCEPT ![id] = @ + amount]
  /\ events' = [events EXCEPT !.filled = @ \cup {id}]
  /\ tradePrices' = WithTradePrice(subticks)
  /\ UNCHANGED <<clockVars, phase, store, expirations, orderCount, nextIndex,
                 delivered, oracle, book>>

\* PersistOrderRemovalToState
RemoveOrder(id) ==
  /\ phase = "ops"
  /\ IsPlaced(id)
  /\ MustRemoveStatefulOrders({id})
  /\ events' = [events EXCEPT !.removed = @ \cup {id}]
  /\ UNCHANGED <<clockVars, phase, nextIndex, delivered, oracle, tradePrices,
                 book>>

FullyFilled(id) ==
  id \in events.filled /\ Exists(id) /\ fillAmount[id] = Quantums

\* Mutant: fully filled orders leave the state but are not reported.
ReportNone(S) == events

ReportRemoved(S) == [events EXCEPT !.removed = @ \cup S]

\* The end of ProcessProposerOperations: fully filled orders are removed.
EndOperations ==
  LET full == {id \in Ids : FullyFilled(id)}
  IN  /\ phase = "ops"
      /\ phase' = "txs"
      /\ MustRemoveStatefulOrders(full)
      /\ events' = ReportRemoved(full)
      /\ UNCHANGED <<clockVars, nextIndex, delivered, oracle, tradePrices,
                     book>>

InTimeWindow(gtbt) ==
  prevTime < gtbt /\ gtbt <= prevTime + StatefulOrderTimeWindow

Delivered(id) ==
  IF id \in LongTermIds
    THEN [delivered EXCEPT !.longTerm = @ \cup {id}]
    ELSE [delivered EXCEPT !.conditional = @ \cup {id}]

\* HandleMsgPlaceOrder: validation, equity tier, the writes.  An order that
\* fails the collateral check or the checks on its content is not placed.
PlaceStatefulOrder(id, gtbt) ==
  /\ phase = "txs"
  /\ id \notin delivered.cancelled
  /\ id \notin events.removed
  /\ InTimeWindow(gtbt)
  /\ ~Exists(id)
  /\ orderCount[Owner[id]] < EquityTierLimit
  /\ store' = [store EXCEPT ![FetchStore(id)][id] =
                 [gtbt |-> gtbt, height |-> height, index |-> nextIndex]]
  /\ nextIndex' = nextIndex + 1
  /\ orderCount' = [orderCount EXCEPT ![Owner[id]] = @ + 1]
  /\ expirations' = expirations \cup {<<gtbt, id>>}
  /\ delivered' = Delivered(id)
  /\ UNCHANGED <<clockVars, phase, fillAmount, events, oracle, tradePrices,
                 book>>

\* HandleMsgCancelOrder
CancelStatefulOrder(id, cancelGtbt) ==
  /\ phase = "txs"
  /\ InTimeWindow(cancelGtbt)
  /\ Exists(id)
  /\ GetLongTermOrderPlacement(id).gtbt <= cancelGtbt
  /\ MustRemoveStatefulOrders({id})
  /\ delivered' = [delivered EXCEPT !.cancelled = @ \cup {id}]
  /\ UNCHANGED <<clockVars, phase, nextIndex, events, oracle, tradePrices,
                 book>>

\* Mutant: an order is kept through the second it expires in.
DueBefore(t) == {e \in expirations : e[1] < t}

\* RemoveExpiredStatefulOrders: the range of the iterator includes blockTime.
DueBy(t) == {e \in expirations : e[1] <= t}

FillsAfterExpiry(S) == FillsWithout(S)

\* EndBlocker: expire, then trigger.
EndBlock ==
  LET expired == {e[2] : e \in DueBy(blockTime)}
      triggered == {id \in ConditionalIds \ expired :
                      /\ store["Untriggered"][id] # None
                      /\ TriggeringPasses(id) # {}}
  IN  /\ phase = "txs"
      /\ phase' = "committed"
      /\ expirations' = expirations \ DueBy(blockTime)
      /\ fillAmount' = FillsAfterExpiry(expired)
      /\ orderCount' = CountWithout(expired)
      /\ store' = StoreAfterEndBlock(expired, triggered)
      /\ nextIndex' = nextIndex + Cardinality(triggered)
      /\ events' = [events EXCEPT !.expired = expired,
                                  !.triggered = triggered]
      /\ UNCHANGED <<clockVars, delivered, oracle, tradePrices, book>>

\* Mutant: any fill takes the order off the book.
PurgeAnyFilled(id) == id \in events.filled

\* RemoveOrderIfFilled
PurgedAsFilled(id) == id \in events.filled /\ fillAmount[id] >= Quantums

\* PurgeInvalidMemclobState
Purged(id) ==
  \/ PurgedAsFilled(id)
  \/ id \in delivered.cancelled \cup events.expired \cup events.removed

BookAfterPurge == [id \in Ids |-> IF Purged(id) THEN None ELSE book[id]]

\* validateReplacement: an order may only replace one that expires earlier.
CanRest(id, current) ==
  current = None \/ current.gtbt < GetLongTermOrderPlacement(id).gtbt

\* PrepareCheckState: purge, then place the long-term orders delivered and the
\* conditional orders triggered in the block, in so far as they still exist.
\* The memclob may turn any of them down (collateral, self-trade, crossing).
PrepareCheckState ==
  /\ phase = "committed"
  /\ phase' = "checked"
  /\ \E accepted \in SUBSET {id \in delivered.longTerm \cup events.triggered :
                               Exists(id) /\ CanRest(id, BookAfterPurge[id])} :
       book' = [id \in Ids |-> IF id \in accepted
                                 THEN GetLongTermOrderPlacement(id)
                                 ELSE BookAfterPurge[id]]
  /\ UNCHANGED <<clockVars, chainVars, events, delivered, oracle, tradePrices>>

\* Mutant: only placed orders are counted.
CountPlaced(s) == Cardinality({id \in OpenOrders(s, Ids) : IsPlaced(id)})

\* InitMemStore counts the orders in state.
CountInState(s) == Cardinality(OpenOrders(s, Ids))

\* The node stops after a commit and starts again: memstore and memclob are
\* gone; Initialize counts the orders in state and InitStatefulOrders offers
\* every placed one to the memclob.
Restart ==
  /\ phase \in {"committed", "checked"}
  /\ phase' = "checked"
  /\ orderCount' = [s \in Subaccounts |-> CountInState(s)]
  /\ events' = NoEvents
  /\ delivered' = NoneDelivered
  /\ \E accepted \in SUBSET {id \in Ids : IsPlaced(id)} :
       book' = [id \in Ids |-> IF id \in accepted
                                 THEN GetLongTermOrderPlacement(id) ELSE None]
  /\ UNCHANGED <<clockVars, store, expirations, fillAmount, nextIndex, oracle,
                 tradePrices>>

Next ==
  \/ \E t \in Times, o \in OraclePrices : BeginBlock(t, o)
  \/ \E id \in Ids, amount \in 1 .. Quantums, p \in TradeSubticks :
       MatchOrder(id, amount, p)
  \/ \E id \in Ids : RemoveOrder(id)
  \/ EndOperations
  \/ \E id \in Ids, gtbt \in Times : PlaceStatefulOrder(id, gtbt)
  \/ \E id \in Ids, gtbt \in Times : CancelStatefulOrder(id, gtbt)
  \/ EndBlock
  \/ PrepareCheckState
  \/ Restart

Spec == Init /\ [][Next]_vars

-----------------------------------------------------------------------------
(* Properties.                                                             *)

TypeOK ==
  /\ height \in Heights
  /\ prevTime \in Times
  /\ blockTime \in Times
  /\ phase \in {"ops", "txs", "committed", "checked"}
  /\ store \in [Stores -> [Ids -> Placements \cup {None}]]
  /\ expirations \subseteq Times \X Ids
  /\ fillAmount \in [Ids -> 0 .. Quantums]
  /\ orderCount \in [Subaccounts -> Nat]
  /\ nextIndex \in Nat
  /\ events \in [filled : SUBSET Ids, removed : SUBSET Ids,
                 expired : SUBSET Ids, triggered : SUBSET Ids]
  /\ delivered \in [longTerm : SUBSET Ids, conditional : SUBSET Ids,
                    cancelled : SUBSET Ids]
  /\ oracle \in OraclePrices
  /\ tradePrices \in [min : Nat, max : Nat] \cup {None}
  /\ book \in [Ids -> Placements \cup {None}]

\* Every order that exists has exactly one entry in the expiration index, at
\* its own GoodTilBlockTime, and every entry belongs to an order that exists:
\* RemoveExpiredStatefulOrders removes whatever the index names, and an id
\* listed at two times would make EndBlocker panic on duplicate expired ids.
ExpirationsExact ==
  expirations = {<<GetLongTermOrderPlacement(id).gtbt, id>> :
                   id \in {i \in Ids : Exists(i)}}

\* A conditional order is never in both stores, and an order of one kind never
\* in a store of the other: fetchStateStoresForOrder would find only one copy.
OneStore ==
  \A id \in Ids : \A st \in Stores :
    store[st][id] # None => st = FetchStore(id)

\* A fill amount belongs to a placed order: removal, expiry and cancellation
\* all take the fills with them, so that an id that is used again starts
\* unfilled, and an untriggered order has none.
NoOrphanFill == \A id \in Ids : fillAmount[id] > 0 => IsPlaced(id)

\* The count the equity tier limit is checked against is the number of orders
\* in state, also after a restart rebuilt it.
CountAgrees ==
  \A s \in Subaccounts : orderCount[s] = Cardinality(OpenOrders(s, Ids))

\* No order outlives its GoodTilBlockTime: it is gone at the end of the first
\* block whose time reaches it.
ExpiredGone ==
  phase \in {"committed", "checked"} =>
    \A id \in Ids : Exists(id) => blockTime < GetLongTermOrderPlacement(id).gtbt

\* After PrepareCheckState, or after a restart, the memclob holds no ghost:
\* every resting stateful order is the one now in state, placed and not fully
\* filled, however it was filled, removed, cancelled, expired and used again.
BookAgrees ==
  phase = "checked" => \A id \in Ids : book[id] # None =>
    /\ IsPlaced(id)
    /\ book[id] = GetLongTermOrderPlacement(id)
    /\ fillAmount[id] < Quantums

\* PrepareCheckState never takes a live order off the book.
LiveOrdersStay ==
  [][PrepareCheckState =>
       \A id \in Ids :
         (book[id] # None /\ Exists(id) /\ book[id] = GetLongTermOrderPlacement(id))
         => book'[id] = book[id]]_vars

\* A conditional order is triggered at the end of a block exactly when the
\* lowest (for a rise: the highest) of the oracle price and the clamped trade
\* prices has, as an exact rational, reached its trigger price: rounding to
\* subticks neither triggers an order early nor misses one.
TriggersExactly ==
  [][phase = "txs" /\ phase' = "committed" =>
       LET prices == {PassPrice(k) : k \in Passes}
       IN  \A id \in ConditionalIds :
             store["Untriggered"][id] # None =>
               (id \in events'.triggered <=>
                  /\ blockTime < store["Untriggered"][id].gtbt
                  /\ IF id \in TriggerBelow
                       THEN \E p \in prices : p <= TriggerSubticks[id] * PriceGrain
                       ELSE \E p \in prices : p >= TriggerSubticks[id] * PriceGrain)
    ]_vars
=============================================================================

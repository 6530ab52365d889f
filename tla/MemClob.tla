------------------------------ MODULE MemClob ------------------------------
(***************************************************************************)
(* x/clob/memclob: the order book of one clob pair on one node, and the    *)
(* operations queue the node proposes when its turn comes.                 *)
(*                                                                         *)
(* Between two blocks the node matches orders optimistically: fills go to  *)
(* the CheckTx state and to the queue.  After a block, whoever proposed    *)
(* it, PrepareCheckState drops the queue, purges the book of what the      *)
(* block settled, places the stateful orders of the block, replays the old *)
(* queue (post-only orders first) and liquidates.                          *)
(*                                                                         *)
(* Collateral is not modelled: for every maker an order may meet, its fate *)
(* says what the subaccount checks answer.  Placing an order is one step,  *)
(* as CheckTx and PrepareCheckState run under one lock.  A panic of one of *)
(* the Must functions is recorded in `panicked`.                           *)
(***************************************************************************)
EXTENDS Integers, Sequences, FiniteSets, SequencesExt

CONSTANTS
  Signed,           \* hash |-> order, for every order that is ever placed
  LiquidationOrders,\* hash |-> liquidation order
  ShortBlockWindow,
  None,             \* no order
  MaxHeight         \* bound on block heights

Hashes == DOMAIN Signed
Order(h) == IF h \in Hashes THEN Signed[h] ELSE LiquidationOrders[h]
Id(h) == Order(h).id
IsLiquidation(h) == h \notin Hashes
IsStateful(h) == Order(h).stateful
IsPostOnly(h) == Order(h).tif = "PostOnly"
RequiresImmediateExecution(h) == Order(h).tif = "IOC"

Ids == {Id(h) : h \in Hashes}
ShortTermIds == {Id(h) : h \in {g \in Hashes : ~IsStateful(g)}}

\* Quantums and subticks are positive and an id has one owner and one kind; a
\* reduce-only order is IOC (MsgPlaceOrder.ValidateBasic).  A liquidation order
\* is named by the position it closes.
ASSUME MemClobAssumption ==
  /\ Hashes \subseteq Nat
  /\ DOMAIN LiquidationOrders \subseteq Nat
  /\ IsFiniteSet(DOMAIN LiquidationOrders)
  /\ Hashes \cap DOMAIN LiquidationOrders = {}
  /\ ShortBlockWindow \in Nat
  /\ MaxHeight \in Nat
  /\ None \notin Hashes
  /\ \A h \in Hashes \cup DOMAIN LiquidationOrders :
       /\ Order(h).isBuy \in BOOLEAN /\ Order(h).stateful \in BOOLEAN
       /\ Order(h).reduceOnly \in BOOLEAN
       /\ Order(h).size \in Nat \ {0} /\ Order(h).subticks \in Nat \ {0}
       /\ Order(h).goodTil \in Nat
  /\ \A g, h \in Hashes :
       Id(g) = Id(h) => /\ IsStateful(g) = IsStateful(h)
                        /\ Order(g).owner = Order(h).owner
  /\ \A h \in Hashes : Order(h).reduceOnly => RequiresImmediateExecution(h)
  /\ \A k, l \in DOMAIN LiquidationOrders : Id(k) = Id(l) => k = l
  /\ \A l \in DOMAIN LiquidationOrders : Id(l) \notin Ids /\ ~IsStateful(l)

VARIABLES
  height,   \* height of the last committed block
  phase,    \* "prepare": PrepareCheckState or start-up; "open": CheckTx
  chain,    \* committed state: [fill |-> by id,
            \*  placed |-> stateful orders in order of placement]
  fill,     \* fill amounts in the CheckTx state
  mem,      \* the memclob
  pending   \* orders PrepareCheckState has yet to place

vars == <<height, phase, chain, fill, mem, pending>>

NoFills == [id \in Ids |-> 0]

EmptyMemClob ==
  [book |-> <<>>,      \* resting orders in order of arrival
   queue |-> <<>>,     \* OperationsQueue
   queued |-> {},      \* OrderHashesInOperationsQueue
   removals |-> {},    \* OrderRemovalsInOperationsQueue
   matched |-> [id \in Ids |-> None],  \* MatchedOrderIdToOrder
   bytes |-> {},       \* orders in ShortTermOrderHashToTxBytes
   cancels |-> [id \in ShortTermIds |-> 0],  \* short-term cancels; 0 is none
   panicked |-> FALSE]

Init ==
  /\ height = 1
  /\ phase = "open"
  /\ chain = [fill |-> NoFills, placed |-> <<>>]
  /\ fill = NoFills
  /\ mem = EmptyMemClob
  /\ pending = <<>>

-----------------------------------------------------------------------------
(* Orders.                                                                 *)

\* What of a sequence is in S, in the order of the sequence.
Keep(seq, S) ==
  LET kept[i \in 0 .. Len(seq)] ==
        IF i = 0 THEN <<>>
        ELSE IF seq[i] \in S THEN Append(kept[i - 1], seq[i])
        ELSE kept[i - 1]
  IN  kept[Len(seq)]

\* MustCmpReplacementOrder: the later expiration wins, then the larger hash.
IsReplacedBy(g, h) ==
  \/ Order(g).goodTil < Order(h).goodTil
  \/ Order(g).goodTil = Order(h).goodTil /\ g < h

\* GetOrderRemainingAmount
Remaining(h, fills) ==
  IF IsLiquidation(h) THEN Order(h).size
  ELSE IF fills[Id(h)] >= Order(h).size THEN 0
  ELSE Order(h).size - fills[Id(h)]

Crosses(taker, maker) ==
  /\ Order(taker).isBuy # Order(maker).isBuy
  /\ IF Order(taker).isBuy THEN Order(taker).subticks >= Order(maker).subticks
                           ELSE Order(taker).subticks =< Order(maker).subticks

RestingWith(M, id) == {h \in ToSet(M.book) : Id(h) = id}

\* validateGoodTilBlock
ValidGoodTilBlock(goodTil, blockHeight) ==
  blockHeight =< goodTil /\ goodTil =< blockHeight + ShortBlockWindow

-----------------------------------------------------------------------------
(* The operations queue.                                                   *)

Placement(h) ==
  IF IsStateful(h) THEN [op |-> "preexisting", id |-> Id(h)]
                   ELSE [op |-> "place", order |-> h]

\* MustAddShortTermOrderPlacementToOperationsQueue and
\* MustAddStatefulOrderPlacementToOperationsQueue, one order after the other
AddPlacements(M, hs) ==
  [M EXCEPT !.queue = @ \o [i \in DOMAIN hs |-> Placement(hs[i])],
            !.queued = @ \cup ToSet(hs),
            !.panicked = \/ @
                         \/ \E h \in ToSet(hs) :
                              \/ h \in M.queued
                              \/ ~IsStateful(h) /\ h \notin M.bytes]

\* MustAddShortTermOrderTxBytes
AddTxBytes(M, h) ==
  [M EXCEPT !.bytes = @ \cup {h}, !.panicked = @ \/ h \in M.bytes]

\* MustAddOrderRemovalToOperationsQueue for the stateful orders of hs.  Every
\* caller asks IsOrderRemovalInOperationsQueue first.
RemoveFromState(M, hs) ==
  LET new == Keep(hs, {h \in ToSet(hs) : IsStateful(h) /\ Id(h) \notin M.removals})
  IN  [M EXCEPT !.queue = @ \o [i \in DOMAIN new |->
                                  [op |-> "remove", id |-> Id(new[i])]],
                !.removals = @ \cup {Id(h) : h \in ToSet(new)}]

-----------------------------------------------------------------------------
(* The book.                                                               *)

\* mustRemoveOrder for each of S: the transaction bytes go
\* (RemoveShortTermOrderTxBytes) unless the queue needs them.
RemoveAll(M, S) ==
  LET Unneeded == {h \in S : ~IsStateful(h) /\ h \notin M.queued}
  IN  [M EXCEPT !.book = Keep(@, ToSet(@) \ S),
                !.bytes = @ \ Unneeded,
                !.panicked = \/ @
                             \/ ~(S \subseteq ToSet(M.book))
                             \/ ~(Unneeded \subseteq M.bytes)]

\* mustAddOrderToOrderbook
AddToBook(M, h, fills) ==
  [M EXCEPT !.book = Append(@, h),
            !.panicked = \/ @
                         \/ Remaining(h, fills) = 0
                         \/ RestingWith(M, Id(h)) # {}]

Arrival(M, h) == CHOOSE i \in DOMAIN M.book : M.book[i] = h

\* A better price first, at one price the order that came first.
Ahead(M, g, h) ==
  IF Order(g).subticks = Order(h).subticks
    THEN Arrival(M, g) < Arrival(M, h)
    ELSE IF Order(g).isBuy THEN Order(g).subticks > Order(h).subticks
                           ELSE Order(g).subticks < Order(h).subticks

\* Mutant: prices are ignored.
FirstToArrive(M, S) ==
  CHOOSE h \in S : \A g \in S \ {h} : Arrival(M, h) < Arrival(M, g)

\* getBestOrderOnSide, then findNextBestLevelOrder
Best(M, S) == CHOOSE h \in S : \A g \in S \ {h} : Ahead(M, h, g)

Crossing(M, taker) == {h \in ToSet(M.book) : Crosses(taker, h)}

-----------------------------------------------------------------------------
(* Matching.                                                               *)

\* What the authenticator and subaccount checks may say of a match.  A maker
\* fails when its key is no longer authorized or its collateral is short;
\* "closes" is a reduce-only taker whose position is one quantum.
Fates(taker) ==
  {"matches", "makerFails", "takerFails"}
    \cup (IF IsLiquidation(taker) THEN {} ELSE {"bothFail", "isolated"})
    \cup (IF Order(taker).reduceOnly THEN {"closes"} ELSE {})

Fatings(M, taker) == [Crossing(M, taker) -> Fates(taker)]

\* State of the loop of mustPerformTakerOrderMatching.
Unmatched(taker, fills) ==
  [fill |-> fills, fills |-> <<>>, out |-> <<>>, met |-> {},
   left |-> Remaining(taker, fills), status |-> "Success"]

Fill(fills, h, n) ==
  IF IsLiquidation(h) THEN fills ELSE [fills EXCEPT ![Id(h)] = @ + n]

MatchedAmount(r, maker, f) ==
  LET n == Remaining(maker, r.fill)
  IN  IF f = "closes" THEN 1 ELSE IF r.left >= n THEN n ELSE r.left

MatchWith(r, taker, maker, f) ==
  LET n == MatchedAmount(r, maker, f)
  IN  [r EXCEPT !.fill = Fill(Fill(@, taker, n), maker, n),
                !.fills = Append(@, [maker |-> maker, amount |-> n]),
                !.left = @ - n,
                !.status = IF f = "closes" /\ r.left > n
                             THEN "ReduceOnlyResized" ELSE @]

\* What a maker's turn comes to.
Meet(r, taker, maker, f) ==
  LET Out == [r EXCEPT !.out = Append(@, maker)]
  IN  IF Order(maker).owner = Order(taker).owner THEN Out
      ELSE CASE f = "makerFails" -> Out
             [] f = "takerFails" -> [r EXCEPT !.status = "Undercollateralized"]
             [] f = "bothFail" -> [Out EXCEPT !.status = "Undercollateralized"]
             [] f = "isolated" -> [r EXCEPT !.status = "ViolatesIsolated"]
             [] OTHER ->
                  IF IsPostOnly(taker)
                    THEN [r EXCEPT !.status = "PostOnlyWouldCross"]
                    ELSE MatchWith(r, taker, maker, f)

\* One turn of the loop; the order that is being replaced is skipped.
Turn(M, r, taker, fate) ==
  LET maker == Best(M, Crossing(M, taker) \ r.met)
      Met == [r EXCEPT !.met = @ \cup {maker}]
  IN  IF r.status # "Success" \/ r.left = 0 THEN r
      ELSE IF Id(maker) = Id(taker) THEN Met
      ELSE Meet(Met, taker, maker, fate[maker])

\* mustPerformTakerOrderMatching: as long as there is an order that crosses.
PerformTakerOrderMatching(M, fills, taker, fate) ==
  LET n == Cardinality(Crossing(M, taker))
      after[k \in 0 .. n] ==
        IF k = 0 THEN Unmatched(taker, fills)
        ELSE Turn(M, after[k - 1], taker, fate)
  IN  after[n]

\* makerOrdersToRemove, the replaced order included.  Only that one has no
\* removal reason, which MustAddOrderRemovalToOperationsQueue refuses.
RemoveMakers(M, taker, out) ==
  LET Replaced == RestingWith(M, Id(taker))
      Off == RemoveFromState(RemoveAll(M, ToSet(out) \cup Replaced), out)
  IN  [Off EXCEPT !.panicked =
         @ \/ \E h \in Replaced : IsStateful(h) /\ Id(h) \notin Off.removals]

\* MatchedOrderIdToOrder
Matched(M, S) ==
  [M EXCEPT !.matched = [id \in Ids |->
                           IF \E h \in S : Id(h) = id
                             THEN CHOOSE h \in S : Id(h) = id ELSE @[id]],
            !.panicked = \/ @
                         \/ \E h \in S : /\ M.matched[Id(h)] # None
                                         /\ IsReplacedBy(h, M.matched[Id(h)])]

QueueTaker(M, h) ==
  IF IsLiquidation(h) THEN M
  ELSE AddPlacements(IF IsStateful(h) THEN M ELSE AddTxBytes(M, h), <<h>>)

MatchOp(taker, fills) ==
  [op |-> "match", taker |-> Id(taker),
   fills |-> [i \in DOMAIN fills |->
                [id |-> Id(fills[i].maker), amount |-> fills[i].amount]]]

\* mustUpdateMemclobStateWithMatches; the makers are queued unless they are, and
\* leave the book when they are filled
\* (mustUpdateOrderbookStateWithMatchedMakerOrder).
UpdateWithMatches(M, taker, r) ==
  LET makers == [i \in DOMAIN r.fills |-> r.fills[i].maker]
      Makers == ToSet(makers)
      Known == Matched(M, Makers \cup ({taker} \cap Hashes))
      Queued == AddPlacements(Known, Keep(makers, Makers \ M.queued))
      Fed == RemoveAll(Queued, {h \in Makers : r.fill[Id(h)] = Order(h).size})
  IN  [QueueTaker(Fed, taker) EXCEPT
         !.queue = Append(@, MatchOp(taker, r.fills)),
         !.panicked = @ \/ \E h \in Makers : r.fill[Id(h)] > Order(h).size]

Erroneous(status) == status \in {"PostOnlyWouldCross", "ViolatesIsolated"}

\* Mutant: the branched state is written although matching ended in an error.
FillsDespiteError(M, fills, taker, r) ==
  LET Off == RemoveMakers(M, taker, r.out)
      Valid == r.fills # <<>> /\ ~Erroneous(r.status)
  IN  [mem |-> IF Valid THEN UpdateWithMatches(Off, taker, r) ELSE Off,
       fill |-> r.fill, left |-> r.left, status |-> r.status]

\* The second half of matchOrder: fills reach the state only if matching ended
\* without an error; the removals stay either way.
KeepMatches(M, fills, taker, r) ==
  LET Off == RemoveMakers(M, taker, r.out)
      Valid == r.fills # <<>> /\ ~Erroneous(r.status)
  IN  [mem |-> IF Valid THEN UpdateWithMatches(Off, taker, r) ELSE Off,
       fill |-> IF Valid THEN r.fill ELSE fills,
       left |-> r.left, status |-> r.status]

MatchOrder(M, fills, taker, fate) ==
  KeepMatches(M, fills, taker, PerformTakerOrderMatching(M, fills, taker, fate))

-----------------------------------------------------------------------------
(* Placing an order.                                                       *)

\* Mutant: an older order may replace a newer one.
AnyReplacement(existing, h) ==
  /\ Order(existing).isBuy = Order(h).isBuy
  /\ Order(existing).tif = Order(h).tif
  /\ Order(existing).reduceOnly = Order(h).reduceOnly

ValidReplacement(existing, h) ==
  /\ IsReplacedBy(existing, h)
  /\ Order(existing).isBuy = Order(h).isBuy
  /\ Order(existing).tif = Order(h).tif
  /\ Order(existing).reduceOnly = Order(h).reduceOnly

\* Mutant: cancels stop nothing.
DespiteCancels(M, fills, h) ==
  /\ \A g \in RestingWith(M, Id(h)) \cup ({M.matched[Id(h)]} \ {None}) :
       ValidReplacement(g, h)
  /\ Remaining(h, fills) > 0
  /\ RequiresImmediateExecution(h) => fills[Id(h)] = 0

\* validateNewOrder, but for the position a reduce-only order needs.
ValidNewOrder(M, fills, h) ==
  /\ ~IsStateful(h) => M.cancels[Id(h)] < Order(h).goodTil
  /\ \A g \in RestingWith(M, Id(h)) \cup ({M.matched[Id(h)]} \ {None}) :
       ValidReplacement(g, h)
  /\ Remaining(h, fills) > 0
  /\ RequiresImmediateExecution(h) => fills[Id(h)] = 0

\* Mutant: an order that failed while matching rests all the same.
RestAnyway(M, fills, h, left, status) ==
  IF left = 0 THEN M
  ELSE IF RequiresImmediateExecution(h) THEN RemoveFromState(M, <<h>>)
  ELSE AddToBook(IF IsStateful(h) \/ h \in M.queued
                   THEN M ELSE AddTxBytes(M, h), h, fills)

\* What becomes of the order after matching.
Rest(M, fills, h, left, status) ==
  IF status # "Success" THEN RemoveFromState(M, <<h>>)
  ELSE IF left = 0 THEN M
  ELSE IF RequiresImmediateExecution(h) THEN RemoveFromState(M, <<h>>)
  ELSE AddToBook(IF IsStateful(h) \/ h \in M.queued
                   THEN M ELSE AddTxBytes(M, h), h, fills)

PlaceOrder(h, fate) ==
  /\ ValidNewOrder(mem, fill, h)
  /\ \E r \in {MatchOrder(mem, fill, h, fate)} :
       /\ mem' = Rest(r.mem, r.fill, h, r.left, r.status)
       /\ fill' = r.fill

\* PlaceShortTermOrder, in CheckTx: a refused order changes nothing.
PlaceShortTermOrder(h, fate) ==
  /\ phase = "open"
  /\ ~IsStateful(h)
  /\ ValidGoodTilBlock(Order(h).goodTil, height + 1)
  /\ PlaceOrder(h, fate)
  /\ UNCHANGED <<height, phase, chain, pending>>

\* CancelShortTermOrder, in CheckTx
CancelShortTermOrder(id, goodTilBlock) ==
  /\ phase = "open"
  /\ ValidGoodTilBlock(goodTilBlock, height + 1)
  /\ mem.cancels[id] < goodTilBlock
  /\ LET Stale == {h \in RestingWith(mem, id) :
                     Order(h).goodTil =< goodTilBlock}
     IN  mem' = [RemoveAll(mem, Stale) EXCEPT !.cancels[id] = goodTilBlock]
  /\ UNCHANGED <<height, phase, chain, fill, pending>>

-----------------------------------------------------------------------------
(* Delivering a proposed queue (ProcessProposerOperations).                *)

Undelivered ==
  [ok |-> TRUE, fill |-> chain.fill, placed |-> chain.placed,
   short |-> [id \in ShortTermIds |-> None],  \* placedShortTermOrders
   liquidated |-> {}, removed |-> {}, filled |-> {}]

WithId(placed, id) == {h \in ToSet(placed) : Id(h) = id}
Without(placed, S) == Keep(placed, {h \in ToSet(placed) : Id(h) \notin S})

\* FetchOrderFromOrderId
Fetch(d, id) ==
  IF id \in ShortTermIds THEN {d.short[id]} \ {None} ELSE WithId(d.placed, id)

LiquidationsOf(id) == {l \in DOMAIN LiquidationOrders : Id(l) = id}

\* MatchWithOrders.Validate and the fill checks of ProcessSingleMatch
ValidMatch(fills, taker, maker, amount) ==
  /\ Order(taker).owner # Order(maker).owner
  /\ amount > 0
  /\ Crosses(taker, maker)
  /\ ~RequiresImmediateExecution(maker)
  /\ amount =< Remaining(maker, fills)
  /\ amount =< Remaining(taker, fills)

DeliverFill(d, taker, f) ==
  LET Valid == {h \in Fetch(d, f.id) : ValidMatch(d.fill, taker, h, f.amount)}
  IN  IF Valid = {} THEN [d EXCEPT !.ok = FALSE]
      ELSE [d EXCEPT !.fill = Fill([d.fill EXCEPT ![f.id] = @ + f.amount],
                                   taker, f.amount),
                     !.filled = @ \cup {f.id}]

DeliverFills(d, taker, fills) ==
  LET after[i \in 0 .. Len(fills)] ==
        IF i = 0 THEN d ELSE DeliverFill(after[i - 1], taker, fills[i])
  IN  after[Len(fills)]

DeliverMatch(d, op) ==
  LET Takers ==
        {h \in Fetch(d, op.taker) :
           /\ ~IsPostOnly(h)
           /\ RequiresImmediateExecution(h) => d.fill[Id(h)] = 0}
          \cup {l \in LiquidationsOf(op.taker) : l \notin d.liquidated}
      Distinct == \A i, j \in DOMAIN op.fills :
                    op.fills[i].id = op.fills[j].id => i = j
  IN  IF Takers = {} \/ op.fills = <<>> \/ ~Distinct
      THEN [d EXCEPT !.ok = FALSE]
      ELSE DeliverFills([d EXCEPT !.liquidated = @ \cup LiquidationsOf(op.taker),
                                  !.filled = @ \cup ({op.taker} \cap Ids)],
                        CHOOSE h \in Takers : TRUE, op.fills)

DeliverPlacement(d, h) ==
  IF /\ ValidGoodTilBlock(Order(h).goodTil, height + 1)
     /\ d.short[Id(h)] # None => IsReplacedBy(d.short[Id(h)], h)
  THEN [d EXCEPT !.short[Id(h)] = h]
  ELSE [d EXCEPT !.ok = FALSE]

\* PersistOrderRemovalToState: the order must exist.  The checks that go with each
\* removal reason are left out.
DeliverRemoval(d, id) ==
  IF WithId(d.placed, id) = {} THEN [d EXCEPT !.ok = FALSE]
  ELSE [d EXCEPT !.placed = Without(@, {id}),
                 !.fill[id] = 0,
                 !.removed = @ \cup {id}]

\* Preexisting orders are not proposed (GetOperationsToPropose).
DeliverOp(d, op) ==
  CASE op.op = "place" -> DeliverPlacement(d, op.order)
    [] op.op = "match" -> DeliverMatch(d, op)
    [] op.op = "remove" -> DeliverRemoval(d, op.id)
    [] OTHER -> d

Deliver(queue) ==
  LET after[i \in 0 .. Len(queue)] ==
        IF i = 0 THEN Undelivered ELSE DeliverOp(after[i - 1], queue[i])
  IN  after[Len(queue)]

\* Stateful orders leave the state, and their fill amounts with them.
Leave(d, S) ==
  [d EXCEPT !.placed = Without(@, S),
            !.fill = [id \in Ids |-> IF id \in S THEN 0 ELSE @[id]],
            !.removed = @ \cup S]

\* The stateful orders that leave as they are fully filled
FilledOut(d) ==
  {Id(h) : h \in {g \in ToSet(d.placed) : d.fill[Id(g)] = Order(g).size}}

-----------------------------------------------------------------------------
(* A block of whoever proposes, and PrepareCheckState.                     *)

\* The operations of another proposer: at most one order filled.  An IOC
\* order is filled once and its removal is proposed along.
OthersFill(h, n) ==
  LET d == Undelivered
      IOC == IsStateful(h) /\ RequiresImmediateExecution(h)
  IN  Leave([d EXCEPT !.fill[Id(h)] = @ + n, !.filled = {Id(h)}],
            IF IOC THEN {Id(h)} ELSE {})

OthersOperations ==
  {Undelivered} \cup
  UNION {{OthersFill(h, n) : n \in 1 .. Remaining(h, chain.fill)} :
           h \in {g \in Hashes :
                    /\ IF IsStateful(g) THEN g \in ToSet(chain.placed)
                       ELSE ValidGoodTilBlock(Order(g).goodTil, height + 1)
                    /\ RequiresImmediateExecution(g) =>
                         chain.fill[Id(g)] = 0}}

\* RemoveAndClearOperationsQueue: what is on the book and queued leaves it; the
\* bytes of a placed order that is not on the book go as well, once.
ClearQueue(M) ==
  LET Queued(op) == \E i \in DOMAIN M.queue : M.queue[i] = op
      Book == ToSet(M.book)
      Placed == {h \in Hashes : Queued([op |-> "place", order |-> h])}
      Preexisting == {h \in Book : Queued([op |-> "preexisting", id |-> Id(h)])}
      Once == \A i, j \in DOMAIN M.queue :
                M.queue[i].op = "place" /\ M.queue[i] = M.queue[j] => i = j
      Cleared == [M EXCEPT !.queue = <<>>, !.queued = {}, !.removals = {},
                           !.matched = [id \in Ids |-> None],
                           !.bytes = @ \ (Placed \ Book),
                           !.panicked = \/ @ \/ ~Once
                                        \/ ~(Placed \ Book \subseteq M.bytes)]
  IN  RemoveAll(Cleared, (Placed \cap Book) \cup Preexisting)

\* PurgeInvalidMemclobState of block h
Purge(M, d, h) ==
  LET Filled == {g \in ToSet(M.book) :
                   Id(g) \in d.filled /\ d.fill[Id(g)] >= Order(g).size}
      Gone == {g \in ToSet(M.book) : Id(g) \in d.removed}
      Expired == {g \in ToSet(M.book) : ~IsStateful(g) /\ Order(g).goodTil = h}
  IN  [RemoveAll(M, Filled \cup Gone \cup Expired) EXCEPT
         !.cancels = [id \in ShortTermIds |-> IF @[id] = h THEN 0 ELSE @[id]]]

\* Mutant: orders to be removed get no second chance.
WithoutSecondChance(op, placed) ==
  CASE op.op = "place" -> <<op.order>>
    [] op.op = "preexisting" -> Keep(placed, WithId(placed, op.id))
    [] OTHER -> <<>>

\* What ReplayOperations places for an operation.
ReplayedFor(op, placed) ==
  CASE op.op = "place" -> <<op.order>>
    [] op.op \in {"preexisting", "remove"} -> Keep(placed, WithId(placed, op.id))
    [] OTHER -> <<>>

\* The orders ReplayOperations places, each once.
Replayed(queue, placed) ==
  LET Orders(i) == ReplayedFor(queue[i], placed)
      after[i \in 0 .. Len(queue)] ==
        IF i = 0 THEN <<>>
        ELSE after[i - 1]
               \o Keep(Orders(i), ToSet(Orders(i)) \ ToSet(after[i - 1]))
  IN  after[Len(queue)]

\* PrepareCheckState: the post-only orders of both lists come first.
ToPlace(new, replayed) ==
  LET Two == new \o replayed
      First == {h \in ToSet(Two) : IsPostOnly(h)}
  IN  Keep(Two, First) \o Keep(Two, ToSet(Two) \ First)

\* HandleMsgPlaceOrder and validation against the state: the id is free and
\* was not freed by this very block.
MayPlace(d, h) == WithId(d.placed, Id(h)) = {} /\ Id(h) \notin d.removed

\* A block is committed: operations, then at most one stateful order leaves
\* (cancelled, removed or expired) and at most one is placed.
Commit(d, leaving, new, liquidatable) ==
  LET settled == Leave(Leave(d, FilledOut(d)), leaving)
  IN  /\ phase = "open"
      /\ height < MaxHeight
      /\ d.ok
      /\ \A h \in ToSet(new) : MayPlace(settled, h)
      /\ height' = height + 1
      /\ phase' = "prepare"
      /\ chain' = [fill |-> settled.fill, placed |-> settled.placed \o new]
      /\ fill' = settled.fill
      /\ mem' = Purge(ClearQueue(mem), settled, height + 1)
      /\ pending' = ToPlace(new, Replayed(mem.queue, chain'.placed))
                      \o liquidatable

Leaving(d) == {{}} \cup {{Id(h)} : h \in ToSet(d.placed)}
NewlyPlaced == {<<>>} \cup {<<h>> : h \in {g \in Hashes : IsStateful(g)}}

\* LiquidateSubaccountsAgainstOrderbook tries each position at most once.
Liquidatable ==
  LET n == Cardinality(DOMAIN LiquidationOrders)
  IN  UNION {Injection(1 .. k, DOMAIN LiquidationOrders) : k \in 0 .. n}

\* The order PrepareCheckState (or InitStatefulOrders) places next.  Short-
\* term orders are validated again, a reduce-only order needs a position.
PlaceNext(fate, hasPosition) ==
  LET h == Head(pending)
      Valid == /\ \/ IsStateful(h)
                  \/ ValidGoodTilBlock(Order(h).goodTil, height + 1)
               /\ ValidNewOrder(mem, fill, h)
               /\ Order(h).reduceOnly => hasPosition
  IN  /\ phase = "prepare"
      /\ ~IsLiquidation(h)
      /\ IF Valid THEN PlaceOrder(h, fate) ELSE UNCHANGED <<mem, fill>>
      /\ pending' = Tail(pending)
      /\ UNCHANGED <<height, phase, chain>>

\* PlacePerpetualLiquidation
Liquidate(fate) ==
  /\ phase = "prepare"
  /\ IsLiquidation(Head(pending))
  /\ \E r \in {MatchOrder(mem, fill, Head(pending), fate)} :
       mem' = r.mem /\ fill' = r.fill
  /\ pending' = Tail(pending)
  /\ UNCHANGED <<height, phase, chain>>

Open ==
  /\ phase = "prepare"
  /\ pending = <<>>
  /\ phase' = "open"
  /\ UNCHANGED <<height, chain, fill, mem, pending>>

\* A restart: the book is hydrated from the state (InitStatefulOrders).
Restart ==
  /\ phase = "open"
  /\ phase' = "prepare"
  /\ mem' = EmptyMemClob
  /\ fill' = chain.fill
  /\ pending' = chain.placed
  /\ UNCHANGED <<height, chain>>

Next ==
  \/ \E h \in Hashes :
       \E fate \in Fatings(mem, h) : PlaceShortTermOrder(h, fate)
  \/ \E id \in ShortTermIds, gtb \in 1 .. MaxHeight + ShortBlockWindow :
       CancelShortTermOrder(id, gtb)
  \/ \E d \in {Deliver(mem.queue)} \cup OthersOperations :
       \E leaving \in Leaving(d), new \in NewlyPlaced, l \in Liquidatable :
         Commit(d, leaving, new, l)
  \/ /\ pending # <<>>
     /\ \E fate \in Fatings(mem, Head(pending)) :
          \/ \E hasPosition \in BOOLEAN : PlaceNext(fate, hasPosition)
          \/ Liquidate(fate)
  \/ Open
  \/ Restart

Spec == Init /\ [][Next]_vars

-----------------------------------------------------------------------------
(* Properties.                                                             *)

\* None of the Must functions of the memclob and the operations queue panics,
\* whatever order of placements, replacements, cancels, blocks and replays.
NoPanic == ~mem.panicked

\* The deferred check of PlaceOrder: no bid at or above an ask, also while
\* PrepareCheckState is half way and after matching stopped early.
NotCrossed ==
  \A g, h \in ToSet(mem.book) : ~Crosses(g, h)

\* The queue could be proposed at any time: DeliverTx accepts it on top of
\* the committed state and arrives at the fill amounts of the CheckTx state, as
\* far as it does not look at the reasons of removals.
Proposable ==
  LET d == Deliver(mem.queue)
  IN  d.ok /\ \A id \in Ids : id \in d.removed \/ d.fill[id] = fill[id]

\* A short-term order that is cancelled does not rest on the book, and does
\* not come back by a placement or a replay before the cancel expires.
CancelledGone ==
  \A h \in ToSet(mem.book) : IsStateful(h) \/ mem.cancels[Id(h)] < Order(h).goodTil

\* No stateful order is forgotten: once PrepareCheckState is done, each order
\* in state rests on the book, is filled by the queue, or is removed by it.
\* (A reduce-only order refused for want of a position is dropped.)
StatefulAccounted ==
  phase = "open" =>
    \A h \in ToSet(chain.placed) :
      \/ h \in ToSet(mem.book)
      \/ Remaining(h, fill) = 0
      \/ Id(h) \in mem.removals
      \/ Order(h).reduceOnly

\* Orders of one side and price, or better, are served in turn: when a match
\* joins the queue, nothing that was ahead of one of its makers is left.
ServedInTurn ==
  \A i \in DOMAIN mem'.queue \ DOMAIN mem.queue :
    mem'.queue[i].op = "match" =>
      \A j \in DOMAIN mem'.queue[i].fills :
        \A h \in RestingWith(mem, mem'.queue[i].fills[j].id) :
          \A g \in ToSet(mem.book) :
            Order(g).isBuy = Order(h).isBuy /\ Ahead(mem, g, h)
              => g \notin ToSet(mem'.book)

PriceTimePriority == [][ServedInTurn]_vars
=============================================================================

---------------------------- MODULE VaultOrders -----------------------------
(***************************************************************************)
(* The orders a vault keeps on its market (x/vault/keeper/orders.go).  At  *)
(* the end of each block the vault replaces the long-term orders of the    *)
(* last block by those it wants now.  It knows its orders by a list of     *)
(* client ids, one per slot; x/clob refuses an id that is in state, or     *)
(* that was cancelled or removed in the same block, so that a replacement  *)
(* flips the last bit of the id.                                           *)
(*                                                                         *)
(* One vault.  Times are kept as the seconds an order has left, so that    *)
(* nothing bounds the number of blocks; a time in seconds fits in uint32.  *)
(***************************************************************************)
EXTENDS Integers, Sequences

CONSTANTS
  MaxLayers,     \* bound: layers of the quoting parameters
  Prices,        \* what size and subticks of the orders come to
  Expirations,   \* values of OrderExpirationSeconds
  Statuses,      \* statuses an operator sets
  MaxElapsed,    \* bound: seconds between two blocks
  TimeWindow     \* StatefulOrderTimeWindow, in seconds

VARIABLES
  phase,        \* "operations", "messages", "expired" or "end" of a block
  status,       \* status of the vault, "none" if it has no parameters
  layers,       \* quoting parameters in force
  expiration,
  position,     \* "long", "short" or "flat"
  resting,      \* client id |-> [side, price, left]: orders in state
  cancelled,    \* ids cancelled in this block
  removed,      \* ids removed from state in this block, by matches or removals
  recent,       \* most recent client ids
  wanted,       \* orders of the last refresh in this block
  sinceLast,    \* seconds since the previous block
  stranded      \* history: the vault had orders that it could not cancel, because
                \* OrderExpirationSeconds was lowered or too long for the window

vars == <<phase, status, layers, expiration, position, resting, cancelled, removed,
          recent, wanted, sinceLast, stranded>>

\* Client ids: side and layer in the upper bits, and the last bit.
Ids == {"ask", "bid"} \X (0 .. MaxLayers - 1) \X {0, 1}

\* A replacement flips the last bit.
Flip(id) == <<id[1], id[2], 1 - id[3]>>

NoOrders == [id \in {} |-> 0]
Idle == {"none", "standby", "deactivated"}

WellFormed ==
  /\ MaxLayers \in Nat /\ MaxElapsed \in Nat
  /\ Expirations \subseteq Nat \ {0} /\ TimeWindow \in Nat
  /\ Statuses \subseteq {"standby", "quoting", "closeonly", "deactivated"}

Init ==
  /\ phase = "operations"
  /\ status = "none"
  /\ layers \in 1 .. MaxLayers
  /\ expiration \in Expirations
  /\ position = "flat"
  /\ resting = NoOrders
  /\ cancelled = {} /\ removed = {}
  /\ recent = <<>> /\ wanted = <<>>
  /\ sinceLast \in 0 .. MaxElapsed
  /\ stranded = FALSE

-----------------------------------------------------------------------------
(* x/clob, over a record of what is in state and what was cancelled.       *)

Clob == [resting |-> resting, cancelled |-> cancelled]

\* The GoodTilBlockTime of what the vault places or cancels now is not too far
\* from the previous block, whose time x/blocktime replaces after x/vault is done.
InTimeWindow == expiration + sinceLast <= TimeWindow

\* HandleMsgPlaceOrder for an internal order.
Placed(clob, id, order) ==
  IF id \in clob.cancelled \cup removed \cup DOMAIN clob.resting \/ ~InTimeWindow
  THEN clob
  ELSE [resting |->
          [i \in DOMAIN clob.resting \cup {id} |->
             IF i # id THEN clob.resting[i]
             ELSE [side |-> order.side, price |-> order.price, left |-> expiration]],
        cancelled |-> clob.cancelled]

\* PerformOrderCancellationStatefulValidation: a cancellation is good for as
\* long as the order at least.
MayCancel(clob, id) ==
  /\ InTimeWindow
  /\ id \in DOMAIN clob.resting
  /\ expiration >= clob.resting[id].left

\* CancelVaultClobOrder, and TryToCancelVaultClobOrder for an id not in state,
\* of each of some ids; one that is refused is passed over.
Cancelled(clob, ids) ==
  LET gone == {id \in ids : MayCancel(clob, id)}
  IN  [resting |-> [i \in DOMAIN clob.resting \ gone |-> clob.resting[i]],
       cancelled |-> clob.cancelled \cup gone]

\* Orders in state that x/clob would not let the vault cancel now.
OutOfReach == DOMAIN resting # {} /\ ~InTimeWindow

-----------------------------------------------------------------------------
(* RefreshVaultClobOrders.                                                 *)

\* GetVaultClobOrderIds and constructOrder: the id of an order says side and layer.
Quote(side, layer, price) == [id |-> <<side, layer, 0>>, side |-> side, price |-> price]

\* GetVaultClobOrders: an ask and a bid for each layer.
Quotes(price) ==
  [k \in 1 .. 2 * layers |->
     Quote(IF k % 2 = 1 THEN "ask" ELSE "bid", (k - 1) \div 2, price)]

\* Close-only: the first orders of the side that reduces the position.
Reducing(price, n) ==
  [k \in 1 .. n |-> Quote(IF position = "long" THEN "ask" ELSE "bid", k - 1, price)]

\* The lists GetVaultClobOrders may return; none of no size, of a market in
\* final settlement or of a flat position that is only to be closed.
Wanted ==
  {<<>>} \cup
  IF status = "quoting" THEN {Quotes(p) : p \in Prices}
  ELSE IF position = "flat" THEN {}
  ELSE {Reducing(p, n) : p \in Prices, n \in 1 .. layers}

\* Mutant: a slot whose order is gone uses its id again.
SameId(acc, k, order) == IF k > Len(recent) THEN order.id ELSE recent[k]

\* The id for the order of slot k: a new slot takes the id of the order, a
\* slot whose order is as it should be keeps its id, any other flips it.
IdFor(acc, k, order) ==
  IF k > Len(recent) THEN order.id
  ELSE IF /\ recent[k] \in DOMAIN acc.clob.resting
          /\ acc.clob.resting[recent[k]].side = order.side
          /\ acc.clob.resting[recent[k]].price = order.price
       THEN recent[k]
  ELSE Flip(recent[k])

\* One turn of the loop over the orders wanted.  A replacement that cannot
\* cancel does not place; the new id is noted whatever happened.
RefreshSlot(acc, k, order) ==
  LET id   == IdFor(acc, k, order)
      old  == k <= Len(recent) /\ recent[k] \in DOMAIN acc.clob.resting
      clob == IF k <= Len(recent) /\ id = recent[k] /\ old THEN acc.clob
              ELSE IF ~old THEN Placed(acc.clob, id, order)
              ELSE IF ~MayCancel(acc.clob, recent[k]) THEN acc.clob
              ELSE Placed(Cancelled(acc.clob, {recent[k]}), id, order)
  IN  [clob |-> clob, ids |-> Append(acc.ids, id)]

\* Mutant: slots that are no longer wanted are forgotten, not cancelled.
ForgetUnneeded(clob, n) == clob

\* Orders of slots that are no longer wanted are cancelled.
CancelUnneeded(clob, n) == Cancelled(clob, {recent[k] : k \in n + 1 .. Len(recent)})

\* The loop over the slots, from the first on: the outcome after each.
Refreshed(orders) ==
  LET after[k \in 0 .. Len(orders)] ==
        IF k = 0 THEN [clob |-> Clob, ids |-> <<>>]
        ELSE RefreshSlot(after[k - 1], k, orders[k])
  IN  after

RefreshVaultClobOrders(orders) ==
  /\ phase = "expired"
  /\ status \in {"quoting", "closeonly"}
  /\ \E result \in {Refreshed(orders)[Len(orders)]} :
     \E clob \in {CancelUnneeded(result.clob, Len(orders))} :
       /\ resting' = clob.resting
       /\ cancelled' = clob.cancelled
       /\ recent' = result.ids
  /\ wanted' = orders
  /\ phase' = "end"
  /\ stranded' = (stranded \/ OutOfReach)
  /\ UNCHANGED <<status, layers, expiration, position, removed, sinceLast>>

\* An idle vault, one below its activation threshold, or one whose market has
\* no price is left as it is.
RefreshSkipped ==
  /\ phase = "expired"
  /\ wanted' = <<>>
  /\ phase' = "end"
  /\ UNCHANGED <<status, layers, expiration, position, resting, cancelled, removed, recent,
                 sinceLast, stranded>>

-----------------------------------------------------------------------------
(* The rest of a block.                                                    *)

\* "cancel any existing orders".
CancelExisting(clob) == Cancelled(clob, {recent[k] : k \in DOMAIN recent})

\* Orders in state stay good for longer than a cancellation will be.
Shortens(e) == e < expiration /\ DOMAIN resting # {}

\* The proposed operations fill or remove an order of the vault.
RemoveOrder(id) ==
  /\ phase = "operations"
  /\ id \in DOMAIN resting
  /\ resting' = [i \in DOMAIN resting \ {id} |-> resting[i]]
  /\ removed' = removed \cup {id}
  /\ position' \in {"long", "short", "flat"}
  /\ UNCHANGED <<phase, status, layers, expiration, cancelled, recent, wanted, sinceLast,
                 stranded>>

\* An existing vault is set to deactivated or stand-by.
GoesIdle(s) == status # "none" /\ s \in {"standby", "deactivated"}

\* SetVaultParams: status and quoting parameters.  The orders are cancelled
\* with the parameters in force before.
SetVaultParams(s, l, e) ==
  /\ phase \in {"operations", "messages"}
  /\ phase' = "messages"
  /\ status' = s
  /\ layers' = l
  /\ expiration' = e
  /\ stranded' = (stranded \/ Shortens(e) \/ (GoesIdle(s) /\ OutOfReach))
  /\ IF GoesIdle(s)
       THEN /\ recent' = <<>>
            /\ \E clob \in {CancelExisting(Clob)} :
                 resting' = clob.resting /\ cancelled' = clob.cancelled
       ELSE UNCHANGED <<recent, resting, cancelled>>
  /\ UNCHANGED <<position, removed, wanted, sinceLast>>

\* SetDefaultQuotingParams, for a vault that has none of its own.
SetDefaultQuotingParams(l, e) ==
  /\ phase \in {"operations", "messages"}
  /\ phase' = "messages"
  /\ layers' = l
  /\ expiration' = e
  /\ stranded' = (stranded \/ Shortens(e))
  /\ UNCHANGED <<status, position, resting, cancelled, removed, recent, wanted, sinceLast>>

\* AllocateToVault makes a vault that does not exist.
AllocateToVault ==
  /\ phase \in {"operations", "messages"}
  /\ status = "none"
  /\ phase' = "messages"
  /\ status' = "standby"
  /\ UNCHANGED <<layers, expiration, position, resting, cancelled, removed, recent, wanted,
                 sinceLast, stranded>>

Expired(id) == resting[id].left <= 0

\* EndBlocker of x/clob, which comes before that of x/vault.
ExpireOrders ==
  /\ phase \in {"operations", "messages"}
  /\ phase' = "expired"
  /\ resting' = [id \in {i \in DOMAIN resting : ~Expired(i)} |-> resting[id]]
  /\ UNCHANGED <<status, layers, expiration, position, cancelled, removed, recent, wanted,
                 sinceLast, stranded>>

\* An order d seconds later.
Aged(order, d) == [side |-> order.side, price |-> order.price, left |-> order.left - d]

MayDecommission == status = "deactivated"

\* The next block, d seconds later; a deactivated vault without equity is
\* decommissioned as it begins.
NextBlock(d, decommission) ==
  /\ phase = "end"
  /\ phase' = "operations"
  /\ resting' = [id \in DOMAIN resting |-> Aged(resting[id], d)]
  /\ IF decommission
       THEN MayDecommission /\ status' = "none" /\ recent' = <<>>
       ELSE UNCHANGED <<status, recent>>
  /\ cancelled' = {} /\ removed' = {}
  /\ wanted' = <<>>
  /\ sinceLast' = d
  /\ stranded' = (stranded /\ DOMAIN resting # {})
  /\ UNCHANGED <<layers, expiration, position>>

Next ==
  \/ \E orders \in Wanted : RefreshVaultClobOrders(orders)
  \/ RefreshSkipped
  \/ \E id \in Ids : RemoveOrder(id)
  \/ \E l \in 1 .. MaxLayers, e \in Expirations :
       \/ \E s \in Statuses : SetVaultParams(s, l, e)
       \/ SetDefaultQuotingParams(l, e)
  \/ AllocateToVault
  \/ ExpireOrders
  \/ \E d \in 0 .. MaxElapsed, decommission \in BOOLEAN : NextBlock(d, decommission)

Spec == Init /\ [][Next]_vars

-----------------------------------------------------------------------------
(* Properties.                                                             *)

\* Every order of the vault in state is in its list of client ids: none is
\* left behind where no refresh would replace or cancel it, through changes
\* of layers and status, fills, expiries and decommissioning; unless a shorter
\* OrderExpirationSeconds, or one beyond StatefulOrderTimeWindow, has made
\* orders in state uncancellable.
Tracked ==
  ~stranded => \A id \in DOMAIN resting : \E k \in DOMAIN recent : recent[k] = id

\* After a refresh no order of an earlier one is left with a price or a size
\* the vault no longer wants, though orders that cannot be placed are passed
\* over, slots come and go, two slots may come to hold one id, and ids were
\* used in this block already; under the same condition.
NoStaleQuotes ==
  phase = "end" /\ ~stranded /\ wanted # <<>> =>
    \A id \in DOMAIN resting :
      \E k \in DOMAIN wanted :
        /\ recent[k] = id
        /\ resting[id].side = wanted[k].side
        /\ resting[id].price = wanted[k].price
=============================================================================

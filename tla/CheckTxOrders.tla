--------------------------- MODULE CheckTxOrders ----------------------------
(***************************************************************************)
(* Stateful orders and cancellations on their way to a block: a node       *)
(* checks them in CheckTx against the committed state and against what its *)
(* mempool already holds, which it remembers in a transient store (the     *)
(* uncommitted placements, cancellations and their count).  Commit drops   *)
(* the transient store, and the transactions left in the mempool are       *)
(* checked again, which fills it anew.                                     *)
(*                                                                         *)
(* The module follows one node and the orders of one subaccount.  Blocks   *)
(* come from any proposer, so they may hold any transactions.              *)
(***************************************************************************)
EXTENDS Integers, Sequences, FiniteSets

CONSTANTS
  OrderIds,       \* stateful order ids of the subaccount
  Times,          \* block times and GoodTilBlockTimes, 0 .. n
  Limit,          \* equity tier limit of the subaccount
  MaxMempool,     \* bound: transactions in the mempool
  MaxBlockTxs     \* bound: transactions in a block

Tx == [type : {"place", "cancel"}, id : OrderIds, goodTil : Times]

VARIABLES
  phase,        \* "check", "block" (the block is delivered) or "recheck"
  time,         \* time of the previous block
  committed,    \* id |-> goodTil: orders in state
  mempool,      \* the transactions CheckTx accepted, in order
  placements,   \* id |-> goodTil: uncommitted placements
  cancels,      \* uncommitted cancellations
  count,        \* uncommitted placements - cancellations
  delivered,    \* the transactions of the block, until the mempool forgot them
  toRecheck     \* what ReCheckTx has still to visit

transient == <<placements, cancels, count>>
vars == <<phase, time, committed, mempool, transient, delivered, toRecheck>>

NoOrders == [id \in {} |-> 0]
With(f, id, t) == [i \in DOMAIN f \cup {id} |-> IF i = id THEN t ELSE f[i]]
Without(f, ids) == [i \in DOMAIN f \ ids |-> f[i]]

Init ==
  /\ phase = "check"
  /\ time = 0
  /\ committed = NoOrders
  /\ mempool = <<>>
  /\ placements = NoOrders /\ cancels = {} /\ count = 0
  /\ delivered = <<>>
  /\ toRecheck = <<>>

-----------------------------------------------------------------------------
(* Validation, common to CheckTx, ReCheckTx and DeliverTx, which differ in *)
(* the transient store they see.                                           *)

\* Mutant: an order in state does not stop a new placement under its id.
CommittedIgnored(tx, placed, cancelled) ==
  /\ tx.goodTil > time
  /\ tx.id \notin cancelled
  /\ tx.id \notin DOMAIN placed
  /\ Cardinality(DOMAIN committed) < Limit

\* PerformStatefulOrderValidation and the equity tier check, which compares
\* the number of orders in state with the limit.
ValidPlacement(tx, placed, cancelled) ==
  /\ tx.goodTil > time
  /\ tx.id \notin cancelled
  /\ tx.id \notin DOMAIN placed
  /\ tx.id \notin DOMAIN committed
  /\ Cardinality(DOMAIN committed) < Limit

\* PerformOrderCancellationStatefulValidation: the order in state comes before
\* one that is uncommitted.
ValidCancellation(tx, placed, cancelled) ==
  /\ tx.goodTil > time
  /\ tx.id \notin cancelled
  /\ tx.id \in DOMAIN committed \cup DOMAIN placed
  /\ tx.goodTil >= (IF tx.id \in DOMAIN committed THEN committed[tx.id]
                                                   ELSE placed[tx.id])

Valid(tx, placed, cancelled) ==
  IF tx.type = "place" THEN ValidPlacement(tx, placed, cancelled)
                       ELSE ValidCancellation(tx, placed, cancelled)

\* MustAddUncommittedStatefulOrderPlacement and ...Cancellation.
AddUncommitted(tx) ==
  IF tx.type = "place"
    THEN /\ placements' = With(placements, tx.id, tx.goodTil)
         /\ count' = count + 1
         /\ UNCHANGED cancels
    ELSE /\ cancels' = cancels \cup {tx.id}
         /\ count' = count - 1
         /\ UNCHANGED placements

-----------------------------------------------------------------------------
(* The node.                                                               *)

\* CheckTx of a new transaction; one that fails is not kept.
CheckTx(tx) ==
  /\ phase = "check"
  /\ Len(mempool) < MaxMempool
  /\ Valid(tx, placements, cancels)
  /\ AddUncommitted(tx)
  /\ mempool' = Append(mempool, tx)
  /\ UNCHANGED <<phase, time, committed, delivered, toRecheck>>

\* A block is delivered; its context has a transient store of its own, to
\* which DeliverTx writes no uncommitted order.
DeliverTx(tx) ==
  /\ phase \in {"check", "block"}
  /\ Len(delivered) < MaxBlockTxs
  /\ phase' = "block"
  /\ delivered' = Append(delivered, tx)
  /\ committed' =
       IF ~Valid(tx, NoOrders, {}) THEN committed
       ELSE IF tx.type = "place" THEN With(committed, tx.id, tx.goodTil)
       ELSE Without(committed, {tx.id})
  /\ UNCHANGED <<time, mempool, transient, toRecheck>>

\* An order in state may also go because it was filled (x/clob's matches).
Fill(id) ==
  /\ phase = "block"
  /\ id \in DOMAIN committed
  /\ committed' = Without(committed, {id})
  /\ UNCHANGED <<phase, time, mempool, transient, delivered, toRecheck>>

\* Mutant: the transient store outlives the block.
KeepTransient == UNCHANGED transient

\* Commit resets the check state, transient stores included.
ResetTransient == placements' = NoOrders /\ cancels' = {} /\ count' = 0

\* Commit: expired orders go, the check state starts from the new state, and
\* what the mempool holds is visited again.
Commit ==
  /\ phase \in {"check", "block"}
  /\ \E now \in {t \in Times : t > time} \cup {time} :
       /\ time' = now
       /\ committed' = Without(committed, {id \in DOMAIN committed : committed[id] <= now})
  /\ ResetTransient
  /\ toRecheck' = mempool
  /\ mempool' = <<>>
  /\ phase' = "recheck"
  /\ UNCHANGED delivered

InBlock(tx) == \E k \in DOMAIN delivered : delivered[k] = tx

\* ReCheckTx of the oldest transaction left: kept if the block did not hold it
\* and it is still valid.
ReCheckTx ==
  /\ phase = "recheck"
  /\ toRecheck # <<>>
  /\ toRecheck' = Tail(toRecheck)
  /\ \E tx \in {Head(toRecheck)} :
       IF ~InBlock(tx) /\ Valid(tx, placements, cancels)
         THEN mempool' = Append(mempool, tx) /\ AddUncommitted(tx)
         ELSE UNCHANGED <<mempool, transient>>
  /\ UNCHANGED <<phase, time, committed, delivered>>

RecheckDone ==
  /\ phase = "recheck"
  /\ toRecheck = <<>>
  /\ phase' = "check"
  /\ delivered' = <<>>
  /\ UNCHANGED <<time, committed, mempool, transient, toRecheck>>

\* The process restarts: mempool and check state are in memory.
Restart ==
  /\ phase = "check"
  /\ mempool # <<>>
  /\ mempool' = <<>>
  /\ ResetTransient
  /\ UNCHANGED <<phase, time, committed, delivered, toRecheck>>

Next ==
  \/ \E tx \in Tx : CheckTx(tx) \/ DeliverTx(tx)
  \/ \E id \in OrderIds : Fill(id)
  \/ Commit
  \/ ReCheckTx
  \/ RecheckDone
  \/ Restart

Spec == Init /\ [][Next]_vars

-----------------------------------------------------------------------------
(* Properties.                                                             *)

Placing(id) == {k \in DOMAIN mempool : mempool[k].type = "place" /\ mempool[k].id = id}
Cancelling(id) == {k \in DOMAIN mempool : mempool[k].type = "cancel" /\ mempool[k].id = id}

\* The transient store is what the mempool holds, across blocks of any
\* proposer, rechecks and restarts: no placement or cancellation outlives its
\* transaction, which would refuse every later order under its id.
UncommittedExact ==
  /\ DOMAIN placements = {id \in OrderIds : Placing(id) # {}}
  /\ cancels = {id \in OrderIds : Cancelling(id) # {}}
  /\ count = Cardinality(DOMAIN placements) - Cardinality(cancels)

\* What CheckTx admitted can be delivered: proposed in the order of the
\* mempool, every transaction finds the order it cancels and no order under
\* the id it places, and none has expired.  (The equity tier may still refuse
\* one: it counts only what is committed.)
DeliverableInOrder ==
  phase = "check" =>
    \A k \in DOMAIN mempool :
      /\ mempool[k].goodTil > time
      /\ \A id \in {mempool[k].id} :
           LET earlierPlaced == \E j \in Placing(id) : j < k
               earlierCancelled == \E j \in Cancelling(id) : j < k
               there == (id \in DOMAIN committed \/ earlierPlaced) /\ ~earlierCancelled
           IN  IF mempool[k].type = "place" THEN ~there ELSE there
=============================================================================

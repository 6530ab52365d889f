------------------------------ MODULE CheckTx -------------------------------
(***************************************************************************)
(* What stands between a signed transaction and a trade, side by side: the *)
(* time-stamp nonces of its account (TimestampNonce), the uncommitted      *)
(* orders (CheckTxOrders), the price levels of the book (OrderBook) and    *)
(* the fill amounts of short-term orders (ShortTermFills).  The four share *)
(* no state; a behaviour follows the one that `part` names and leaves the  *)
(* others as they start.                                                   *)
(***************************************************************************)
EXTENDS TimestampNonce, Sequences

CONSTANTS
  StatefulIds, Times, Limit, MaxMempool, MaxBlockTxs,             \* of CheckTxOrders
  OrderIds, ShortTermIds, Owner, SubticksPerTick, Prices, Width,  \* of OrderBook
  Blocks,
  SignedOrders, SignedIds, Subaccount, Subaccounts,               \* of ShortTermFills
  ShortBlockWindow, None, MaxHeight

VARIABLES
  part,
  phase, time, committed, mempool, placements, cancels, count, delivered, toRecheck,
  levels, best, orderOf, openOrders, reduceOnly, expirations, total, cancelExpiry,
  cancelsAt, tick,
  height, placed, fillState, pruneIndex, filledBy

uncommitted == <<phase, time, committed, mempool, placements, cancels, count, delivered,
                 toRecheck>>
book == <<levels, best, orderOf, openOrders, reduceOnly, expirations, total, cancelExpiry,
          cancelsAt, tick>>
fills == <<height, placed, fillState, pruneIndex, filledBy>>

Uncommitted == INSTANCE CheckTxOrders WITH OrderIds <- StatefulIds
Book == INSTANCE OrderBook
Fills == INSTANCE ShortTermFills WITH Orders <- SignedOrders, Ids <- SignedIds

PartsInit ==
  /\ part \in {"nonces", "uncommitted", "book", "fills"}
  /\ Init /\ Uncommitted!Init /\ Book!Init /\ Fills!Init

PartsNext ==
  /\ UNCHANGED part
  /\ \/ /\ part = "nonces"
        /\ Next
        /\ UNCHANGED <<uncommitted, book, fills>>
     \/ /\ part = "uncommitted"
        /\ Uncommitted!Next
        /\ UNCHANGED <<vars, book, fills>>
     \/ /\ part = "book"
        /\ Book!Next
        /\ UNCHANGED <<vars, uncommitted, fills>>
     \/ /\ part = "fills"
        /\ Fills!Next
        /\ UNCHANGED <<vars, uncommitted, book>>

PartsSpec == PartsInit /\ [][PartsNext]_<<part, vars, uncommitted, book, fills>>

-----------------------------------------------------------------------------
(* The properties of the parts that are not extended.                      *)

\* The transient store of uncommitted orders is what the mempool holds.
UncommittedExact == part = "uncommitted" => Uncommitted!UncommittedExact

\* What CheckTx admitted can be delivered in the order of the mempool.
DeliverableInOrder == part = "uncommitted" => Uncommitted!DeliverableInOrder

\* The levels, the best prices and the indexes of the book agree.
IndexesAgree == part = "book" => Book!IndexesAgree

\* The scan over ticks finds the next price level, and none after the last.
NextBestExact == part = "book" => Book!NextBestExact

\* The comment of findNextBestSubticks, to the letter.
NextBestAsDocumented == part = "book" => Book!NextBestAsDocumented

\* A short-term order, or an order and its replacement, never trades more than
\* was signed for, however often proposers place and match it again.
NoOverfill == part = "fills" => Fills!NoOverfill

\* A fill amount is dropped only a window after the last GoodTilBlock of the
\* orders that contributed to it.
ForgottenLate == [][part = "fills" => Fills!KeptWhileNeeded]_fills
=============================================================================

----------------------------- MODULE Accounting -----------------------------
(***************************************************************************)
(* Components that keep accounts, side by side: the shares of the          *)
(* megavault (Megavault), the list a vault keeps of its orders             *)
(* (VaultOrders), what may leave over IBC (RateLimit) and what a node lets *)
(* an account ask for (BlockRateLimit).  They share no state; a behaviour  *)
(* follows the one that `part` names and leaves the others as they start.  *)
(***************************************************************************)
EXTENDS Megavault, Sequences

CONSTANTS
  MaxLayers, Prices, Expirations, Statuses, MaxElapsed,   \* of VaultOrders
  TimeWindow,
  LimiterLists, Amounts, InitSupply, BlockTimes,          \* of RateLimit
  MaxPackets, MaxReceipts, MaxBlocks, MaxUpdates,
  Keys, Configs, Weights, MaxPerBlock, MaxCommitted       \* of BlockRateLimit

VARIABLES
  part,
  phase, quoting, layers, expiration, position, resting, cancelled, removed, recent,
  wanted, sinceLast, stranded,
  limiters, capacity, supply, sent, nextSeq, pending, receipts, blocks, updates, peak,
  inflow, outflow, elapsed,
  committed, stored, config, blockCounts, limitCounts, dirty, panicked, asked, granted

orders == <<phase, quoting, layers, expiration, position, resting, cancelled, removed,
            recent, wanted, sinceLast, stranded>>
limits == <<limiters, capacity, supply, sent, nextSeq, pending, receipts, blocks, updates,
            peak, inflow, outflow, elapsed>>
limiter == <<committed, stored, config, blockCounts, limitCounts, dirty, panicked, asked,
             granted>>

Orders == INSTANCE VaultOrders WITH status <- quoting
Limits == INSTANCE RateLimit
Limiter == INSTANCE BlockRateLimit WITH height <- committed, MaxHeight <- MaxCommitted

PartsInit ==
  /\ part \in {"shares", "orders", "limits", "limiter"}
  /\ Init /\ Orders!Init /\ Limits!Init /\ Limiter!Init
  /\ \/ part = "orders"
     \/ layers = 1 /\ sinceLast = 0 /\ expiration = CHOOSE e \in Expirations : TRUE
  /\ part = "limits" \/ sent = {[seq |-> 0, amount |-> CHOOSE a \in Amounts : TRUE]}
  /\ part = "limiter" \/ (committed = 0 /\ stored = CHOOSE c \in Configs : TRUE)

PartsNext ==
  /\ UNCHANGED part
  /\ \/ /\ part = "shares"
        /\ Next
        /\ UNCHANGED <<orders, limits, limiter>>
     \/ /\ part = "orders"
        /\ Orders!Next
        /\ UNCHANGED <<vars, limits, limiter>>
     \/ /\ part = "limits"
        /\ Limits!Next
        /\ UNCHANGED <<vars, orders, limiter>>
     \/ /\ part = "limiter"
        /\ Limiter!Next
        /\ UNCHANGED <<vars, orders, limits>>

PartsSpec == PartsInit /\ [][PartsNext]_<<part, vars, orders, limits, limiter>>

-----------------------------------------------------------------------------
(* The properties of the parts that are not extended.                      *)

\* Every order of a vault in state is in its list of client ids.
Tracked == part = "orders" => Orders!Tracked

\* After a refresh no order of an earlier one is left that is not wanted.
NoStaleQuotes == part = "orders" => Orders!NoStaleQuotes

\* The pending store holds exactly the unanswered packets that were charged.
PendingExact == part = "limits" => Limits!PendingExact

\* What left the chain is bounded by a baseline, and one more per period.
OutflowBounded == part = "limits" => Limits!OutflowBounded

\* The rolling windows of the rate limiter are exact and never panic.
WindowExact == part = "limiter" => Limiter!WindowExact
=============================================================================

# Verification of the dYdX v4 chain

TLA+ models, TLC configurations and TLAPS proofs for the core of the protocol
in `src/protocol`: the life of orders in `x/clob` (in state, in the fill
records, in CheckTx, in the in-memory order book and the operations queue, and
as TWAP orders), the rate limits and locks in front of them, the delayed
messages of `x/delaymsg` and two modules that rely on them, `x/bridge` and the
megavault of `x/vault`, the orders of vaults, and the limits on IBC withdrawals.

Contents: [The system](#1-the-system), [The modules](#2-the-modules-and-the-code),
[The runs](#3-the-runs), [The proofs](#4-the-proofs),
[Not modelled](#5-what-is-not-modelled), [Plan](#6-plan).

## 1. The system

The chain is a Cosmos SDK application run by every validator over CometBFT.
What makes it unusual is that most orders are never written to state: every
node keeps an order book in memory, matches optimistically, and the proposer of
a block puts its operations queue in the block as one transaction, which all
nodes verify and apply.

A block of one node goes through these steps (`src/protocol/x/clob/abci.go`):

1. BeginBlocker resets the per-block lists;
2. `MsgProposedOperations`, always the first transaction, is applied: short-term
   orders are placed, matches are settled, orders are removed;
3. the other transactions: placements and cancellations of stateful orders,
   governance, transfers;
4. EndBlocker: pruning of fill amounts, expiry of stateful orders, TWAP
   suborders, triggering of conditional orders, and, in other modules, delayed
   messages;
5. commit, then PrepareCheckState under the lock that CheckTx also takes: the
   order book is purged of what the block settled, the new stateful orders are
   placed, the node's own queue is replayed, liquidations are tried;
6. CheckTx until the next block: short-term orders are placed, matched and
   cancelled on this node alone.

### Components

| component | state | operations | interacts with | what makes it correct |
|---|---|---|---|---|
| stateful orders (`x/clob/keeper/stateful_order_state.go`, `orders.go`, `process_operations.go`) | placements in three stores, expirations by time, fill amounts, counts per subaccount (memstore), lists of the block's events | place, cancel, match, remove, expire, trigger, restart | memclob (purged from the lists), equity tiers (count), prices (triggers) | the stores name the same orders; nothing outlives its expiry; no ghost on the book |
| short-term fills (`order_state.go`, `process_single_match.go`) | fill amount and prunable height by id, prunable ids by height | match, prune | the queue of every proposer | a signed order is never filled beyond its size, however often it is proposed |
| TWAP orders (`twap_order_state.go`) | parents, triggers by time, suborders in the long-term store | place, cancel, trigger, fill | stateful orders | a parent is neither overtraded nor stalls |
| memclob (`x/clob/memclob`, `types/operations_to_propose.go`) | order book, operations queue, transaction bytes, cancels | place, replace, match, cancel, purge, replay | all of the above, through PrepareCheckState | the queue can always be proposed; no panic; not crossed; price-time priority |
| delayed messages (`x/delaymsg`) | messages by id, ids by height, next id | delay, dispatch | governance, bridge, vault | each message executed once, at its height |
| order book levels (`x/clob/memclob/orderbook.go`) | levels, cached best prices, five indexes, two maps of cancels | add, remove, next level | memclob | all of them name the same orders; no level is passed over |
| CheckTx of stateful orders (`uncommitted_stateful_order_state.go`, `orders.go`) | placements and cancellations in the mempool (transient store) | CheckTx, ReCheckTx, commit | stateful orders, equity tiers | the store is what the mempool holds |
| rate limiter (`x/clob/rate_limit`) | counts per key and block, counts per limit, dirty sets | count, prune, configure | CheckTx, governance | every counter is the sum over its window |
| locking ante handler (`app/ante.go`) | account locks, global lock, branches of the check state | lock, check, write, unlock | CheckTx, commit | as if the calls ran one by one; no deadlock |
| time-stamp nonces (`x/accountplus/keeper/timestampnonce.go`) | list of accepted time stamps, the largest ejected one | accept, eject | ante handler | no transaction is accepted twice |
| bridge (`x/bridge`, `daemons/bridge`, `daemons/server/types/bridge`) | acknowledged event info, events recognized by each node | recognize, propose, validate, acknowledge, complete | Ethereum, proposals, delaymsg, bank | every event once, in order, unaltered; none is stuck |
| IBC rate limits (`x/ratelimit`) | limiters and capacities per denom, pending packets | send, receive, acknowledge, time out, recover | IBC, bank, governance | what leaves stays within the limits, whatever fails later |
| vault orders (`x/vault/keeper/orders.go`) | client ids of the last orders, status and quoting parameters | refresh, change of parameters, decommission | stateful orders | no order is lost sight of; no stale quote |
| megavault shares (`x/vault`, `x/listing`) | total and owner shares, locks, vault parameters | deposit, withdraw, list, unlock, allocate, retrieve | delaymsg, subaccounts | nobody gains by rounding; locks end |
| liquidations, deleveraging | per-block limits, subaccounts | liquidate, deleverage | memclob, subaccounts, perpetuals | limits hold |
| subaccounts, perpetuals, prices, assets | balances, positions, funding, markets | updates | everything | solvency |
| epochs, vest, rewards, stats, fee tiers, affiliates | counters, windows, volumes | by block and by message | bank | never more than is there |

`PROJECT.json` lists every component with its sources and status.

### What is hard to test

* Steps of several actors in one block: an order is filled by the operations,
  cancelled by its owner, expired at the end, and its id used again.
* State that is kept twice: placements and their expirations, messages and
  their listing, counts in the memstore and orders in the store, the book and
  the state.
* Replay: a proposer may put a signed order in any block until it expires; a
  node replays its own queue after somebody else's block.
* Restarts: memstore and order book are rebuilt from state.
* Loops where one iteration fails.
* Asking first and acting later: a daemon fetches from where the chain was, a
  branch of the state is written back after other calls ran, a packet fails
  many periods after it was charged, a delayed message meets a vault that has
  changed.
* Rounding and boundaries: triggers at fractions of a subtick, inclusive and
  exclusive bounds of times and heights, unsigned subtraction.

The hazards are listed one by one, with the line where they bite and the
properties that cover them, in `PROJECT.json`.

## 2. The modules and the code

Every module keeps the names of the code where TLA+ allows it. `PROJECT.json`
maps each definition to its lines. Operators that no action uses (for example
`KeepListing`, `DueBefore`) are wrong variants of the
operator that follows them; they are what the code would do with a plausible
mistake in it, and each property is violated when one of them takes the place
of the right one (`mutants` in `PROJECT.json`).

### DelayMsg and DelayQueue

State: `messages` and `blockMessageIds` are the two prefix stores of
`x/delaymsg/keeper/delayed_message.go` and `block_message_ids.go`, `nextId` the
counter; `toExecute` and `toDelete` are the two loops of
`DispatchMessagesForBlock`, which run over a snapshot of the ids of the block.
Each iteration is an action, so a failing message in the middle is visible.
`attempts` is history. Messages are delayed by transactions of the block; a
delay of zero lands in the same block, as in the code. Heights are bounded by
`MaxUint32`, which the code checks too.

`DelayQueue` is what the module promises the ones that delay messages: a set of
pending messages with their heights, and a log; a message is attempted once, at
its height, in the order of the ids, and is gone whether it succeeded or not;
the next block does not begin before. `DelayMsg!ImplementsQueue` is the
refinement: the pending messages are those in the store that the executing loop
has not reached. `Bridge` composes with the promise, not with the stores.

### StatefulOrders

State: `store` (long-term, untriggered and triggered placements),
`expirations`, `fillAmount`, `orderCount`, `nextIndex` (the transient
transaction index), `events` (ProcessProposerMatchesEvents and the triggered
ids), `delivered` (what the block placed and cancelled), the oracle and trade
prices, and `book`, the stateful orders the memclob holds. The operations of
the queue are actions of their own: `MatchOrder`, `RemoveOrder`, then
`EndOperations`, where fully filled orders are removed. `EndBlock` expires and
triggers in one step, as EndBlocker does; the pass over the oracle price and
the two passes over clamped trade prices are `PassPrice`. `PrepareCheckState`
purges and refills the book; any order may be refused by the collateral check.
`Restart` loses the memstore and the book and rebuilds both.

### ShortTermFills

State: `placed` (orders of the block), `fillState`, `pruneIndex`. Any proposer
may place any signed order that is good in this block and match it with any
other; `filledBy` is history: what was traded on each signed order. Orders of
one id may have different good-til-blocks, sizes and sides.

### Twap

State: `parent`, `suborder`, `triggers`, and of the stateful order state what
TWAP orders touch: the removed and cancelled ids of the block and `orderCount`.
Times are relative to the block time. Which suborders pass validation is an
input of `EndBlock`. Fills subtract modulo `Uint64`, as the code's unchecked
subtraction does.

### MemClob

One order book on one node. State: `mem` (the book as a sequence in order of
arrival, the queue, its bookkeeping, the transaction bytes, the last match per
id, the cancels, and whether a `Must` function panicked), `fill` (the CheckTx
state), `chain` (the committed state) and `pending` (what PrepareCheckState has
yet to place). `PlaceOrder` is the whole of the memclob's `PlaceOrder`:
validation, replacement, matching maker by maker, the removal of failed makers,
the queue, and resting or removal of what is left. What the collateral and
isolated-subaccount checks say is a `fate` chosen for each maker an order may
meet. `Commit` applies the block, of this node (`Deliver`, the translation of
ProcessInternalOperations) or of another proposer (at most one fill, one order
gone and one placed per block), clears the queue and purges the book;
`PlaceNext` and `Liquidate` then work off `pending`, one order per step, until
`Open`. `Restart` empties the memclob and refills it from state.

### OrderBook

`x/clob/memclob/orderbook.go` below `MemClob`: `levels` are sequences by side
and price, `best` the cached best prices, and each index of the code is a
variable. `FindNextBestSubticks` translates both loops of
`findNextBestSubticks`, in arithmetic of `Width` bits: the scan over ticks, as
many steps as there are levels, and the pass over all levels after it, which
compares strictly with the worst possible price; like the function it returns a
price and whether it found one. `tick` starts as `SubticksPerTick`, and
`SyncOrderbookState` lowers it to any divisor, as `UpdateClobPair` does. The code
does so while the message is delivered, and does not undo it if the transaction
fails; the tick in state is then a multiple of the book's, and the search works
with the book's. `MemClob` takes the sorted order that this module shows the book
to compute.

### CheckTxOrders

One node, one subaccount. `placements`, `cancels` and `count` are the transient
store of `uncommitted_stateful_order_state.go`; `CheckTx` validates against it
and against state, `Commit` drops it with the check state, and `ReCheckTx`
visits the mempool, one transaction per step: those of the block leave it, the
others stay if they are still valid. Blocks hold any transactions, since any
proposer makes them.

### BlockRateLimit

`multi_block_rate_limiter.go`: counts per key and block, counts per limit, and
the circular array of dirty sets by which `PruneRateLimits` subtracts what left
a window. A refused message counts too. `asked` and `granted` are history. The
block height is the one CheckTx sees, that of the last block. `WindowExact` adds
up with `Sums`, which defines a sum as the number of units there are to count;
see the proofs for why.

### AnteHandler

`app/ante.go` with several goroutines in CheckTx at once. `NextLock` takes the
account locks in the order of their keys, the branch of the check state is made
when all are held, clob and fee decorators run under the global lock, and the
branch is written before the locks are released. A decorator may refuse the
transaction while it works, not while it waits for a lock. `Commit` waits for
all calls to end (`app.mtx`) and resets the check state to the committed one.
Every transaction here has sequence numbers; one with a time stamp in their place
(`ante.go:277`, `ante.go:436`) leaves them alone, and its list is the subject of
`TimestampNonce`.

### TimestampNonce

One account. `ProcessTimestampNonce` is the whole of it: window, ejection of
stale time stamps, the list with or without room, and its smallest entry
ejected for a larger one. Sequence numbers below the cutoff are the ordinary
ones.

### Bridge

Honest and faulty validators. Per honest validator: `held` and `recognized`
(BridgeEventManager), `asked` (the answer of the daemon's first query, which may
be stale when `Fetch` uses it). `GetAcknowledgeBridges` and `Validate` are
`PrepareProposal` and `ProcessProposal`; a block is delivered when a quorum of
validators accepts, of which the faulty ones accept anything. `DeliverBlock`
acknowledges and delays a `MsgCompleteBridge` for each event through
`DelayQueue`; `CompleteBridge` pays or fails, by balance and parameters.

### VaultOrders

One vault. `resting`, `cancelled` and `removed` are what x/clob knows of its
orders in this block, `recent` is the list of most recent client ids.
`RefreshVaultClobOrders` goes through the slots in turn: cancel the old order or not,
place under the flipped id or replace, skip what fails. Prices and sizes are
any; spread, skew and leverage only decide which. x/clob refuses a placement or a
cancellation that is good for longer than `StatefulOrderTimeWindow` after the
previous block (`InTimeWindow`), and a cancellation that is not good for as long as
its order (`MayCancel`).

### Megavault

Shares, locks and delayed unlocks, the equity of the main subaccount and of the
vaults. Withdrawals redeem from the main subaccount and from any set of vaults
that can pay, each at any slippage. `Trade` lets equity move. Listing a market
deposits, allocates, locks and starts quoting in one step, as the message does.
A lock and its delayed message are kept by the market they were given for, which
is listed once; the code appends both to lists, of which it goes through all.

### RateLimit

One denom. `capacity` moves towards the baseline at the end of each block
(`NewCapacity`, integer division included), `SendPacket` charges it and notes
the packet as pending, and the answer, success, error or timeout, comes in any
order and arbitrarily late. `peak`, `inflow`, `outflow` and `elapsed` are
history since the limits were set.

### How they compose

`StatefulOrders` sees the memclob as "may take or refuse an order" and
`MemClob` sees the stores as a list of placed orders; the facts each assumes of
the other are checked in the other: that state holds no expired or filled
orders (`ExpiredGone`, and `NoOrphanFill`, which is proved), that the lists the
purge reads are complete (`BookAgrees`), that the delivered queue is acceptable
(`Proposable`). `ShortTermFills` assumes nothing of proposers, so it covers
whatever `MemClob` proposes. `OrderBook` shows the order `MemClob` walks.
`CheckTxOrders` takes blocks of any contents, as `StatefulOrders` does.
`Bridge` is composed with `DelayQueue`, which `DelayMsg` implements; `Megavault`
uses the same queue for one kind of message. `VaultOrders` uses of x/clob what
`StatefulOrders` checks: an id is refused while it is in state and in the block
in which it was cancelled or removed.

## 3. The runs

| run | cfg | states | shows |
|---|---|---|---|
| delaymsg | `MCDelayMsg.cfg` | 4 thousand | `IndexAgrees`: the two stores agree, after every iteration. `NothingStranded`: nothing waits for a height that passed. `EventuallyDispatched`: each message is tried. `ImplementsQueue`: once, in order, at its height, as `DelayQueue` says. |
| stateful_orders | `MCStatefulOrders.cfg` | 1.6 million | `ExpirationsExact`, `CountAgrees`: stores and counts stay in step. `ExpiredGone`, `BookAgrees`, `LiveOrdersStay`: nothing outlives its expiry, no ghost on the book, no live order taken off it. `TriggersExactly`: rounding triggers no order early and misses none. |
| twap | `MCTwap.cfg` | | `SuborderCovered`, `NeverOvertraded`, `EventuallyClosed` when ids are not used again. |
| memclob | `MCMemClob.cfg` | 13 thousand | `NoPanic`, `CancelledGone`, `Proposable`, `NotCrossed`, `StatefulAccounted`, `PriceTimePriority` with long-term, post-only, reduce-only IOC and short-term orders, a replacement and a liquidation. |
| bridge | `MCBridge.cfg` | 100 thousand | `AcknowledgedAsEmitted`, `Accounted`: every event once, in order, unaltered, paid at most once. `HonestProposalsAgree`: no honest proposal is refused by a node that has seen its events. `EventuallyAcknowledged`. |
| ante_handler | `MCAnteHandler.cfg` | 65 thousand | `Serial`: sequence numbers as if the calls ran one by one. `AlwaysEnds`: no circular wait. |
| checktx | `MCCheckTx.cfg` | 229 thousand | four parts side by side: `NoReplay` (TimestampNonce), `UncommittedExact` and `DeliverableInOrder` (CheckTxOrders), `IndexesAgree` and `NextBestExact` (OrderBook), `NoOverfill` and `ForgottenLate` (ShortTermFills: fills are remembered as long as they are needed). |
| accounting | `MCAccounting.cfg` | 2.6 million | four parts side by side: `SharesCovered`, `UnlockScheduled`, `SharePriceKept` (Megavault), `Tracked`, `NoStaleQuotes` (VaultOrders), `PendingExact`, `OutflowBounded` (RateLimit), `WindowExact` (BlockRateLimit). |
| twap_restart | `MCTwapRestart.cfg` | | violation of `CountAccurate` |
| twap_replace | `MCTwapReplace.cfg` | | violation of `NoneAfterCancel` |
| twap_cancel | `MCTwapCancel.cfg` | | violation of `CancelAccepted` |
| book_wrap | `MCBookWrap.cfg` | | violation of `NextBestAsDocumented` |

The modules `CheckTx` and `Accounting` put components side by side that share no
state; `MCCheckTx` and `MCAccounting` give them their constants. A behaviour
follows the one that the variable `part` names, fixed in the initial state, and
leaves the others as they start, so each is explored in full and none multiplies
with another; a property speaks of its part.

### Disagreements between code and comments

* **twap_restart.** `keeper.go:307` wants the count of stateful orders to be
  accurate after a restart. Parents of TWAP orders are counted when they are
  placed, but the rebuild iterates over the long-term and conditional stores
  only, so a restarted node counts fewer open orders than the others.
* **twap_replace.** `twap_order_state.go:143` says that a cancelled parent
  gets no more suborders. The trigger stays in its store; if the client id is
  used again before it is due, it fires for the new parent. The new order then
  has two triggers.
* **twap_cancel.** `stateful_order_state.go:340` expects that a suborder may
  be missing and tolerates it. If the suborder was filled or removed by the
  operations of the same block, the error is another one, which is not
  tolerated, and the cancellation fails. The next block may accept it.
* **book_wrap.** `orderbook.go:127` says that the scan for the next level cannot
  overflow, because there is another level to move closer to. From the last of
  several levels there is none, and the scan goes on by as many ticks as there are
  levels, below zero or above the largest uint64. With a tick that divides 2^64
  (1, 2, 4, ...; `UpdateClobPair` accepts any divisor of the old tick) a wrapped
  price is a multiple of the tick again, and a level at the other end of the price
  type is returned as the next one. The run has a tick of 2 and asks at 2 and 14
  in a type of 4 bits: from 14 the scan comes by 0 and finds 2. With 64 bits it
  takes levels within a few ticks of both ends. Any other tick is safe: what the
  scan meets after it wrapped is a multiple of no such tick.

The run `twap` gives every id one placement (`MaxPlacements = 1`): with ids used
again a parent may have two triggers, for the reason shown by twap_replace.

### Limits of the code seen while modelling

Each of these was met as a counterexample and is kept out of the runs by a bound
or by the wording of the property. They are not claims of a comment, or only of
a loose one.

* `x/ratelimit/keeper/packet.go:194`: a pending packet does not remember the
  limits it was charged under. If the limits are set again before it fails, the
  new capacities are credited. `OutflowBounded` counts the credit as inflow.
* `x/ratelimit/util/capacity.go:48`: a period of less than a millisecond passes
  validation and is divided by as zero. `LimiterLists` has none.
* `x/clob/memclob/orderbook.go:151`: the largest uint64 stands for "no ask", and
  the pass over all levels compares strictly with it, so an ask at that very
  price, which is valid for a tick of 1, 3, 5, ..., is found by the scan or not at
  all. `NextBestExact` allows that it is missed; the run has such a level. It also
  leaves open what the search finds in the case of book_wrap: a tick that divides
  2^Width, and a scan that leaves the range (`ScanInRange`).
* `x/clob/keeper/equity_tier_limit.go:100`: orders that wait in the mempool are
  not counted, so CheckTx admits more than the tier; DeliverTx refuses them.
  `DeliverableInOrder` leaves the tier out.
* `x/clob/keeper/block_rate_limit_config.go:44`: the limiter in memory is
  replaced although the write to state may be dropped with its transaction.
  Until the next restart a node may limit by another configuration than the
  one in state. `WindowExact` speaks of the configuration in memory.
* `x/vault/keeper/params.go:82`: when `OrderExpirationSeconds` is lowered, the
  cancellation of an older order is refused as too short, and the order stays,
  in no list, until it expires.
* `x/vault/types/params.go:39` gives `OrderExpirationSeconds` no upper bound. Once
  it is raised, or a block is so late, that the time of expiry is beyond the
  `StatefulOrderTimeWindow` of x/clob (95 days), `keeper/orders.go:706` of x/clob
  refuses every cancellation of the orders the vault has, and every new one. The
  list goes on to the ids of the refused replacements. The history variable
  `stranded` tells of both; `Tracked` and `NoStaleQuotes` speak of vaults that have
  no such orders, and again once these have expired. The run and the theorems have
  both. (Sums of seconds are taken to fit in uint32.)
* `x/clob/rate_limit/multi_block_rate_limiter.go:24` asks that `PruneRateLimits` be
  called with the height less one in `PrepareCheckState`; `x/clob/abci.go:157`
  passes the height of the block that was just committed. `BlockRateLimit` does
  what the call does, and `WindowExact` shows the windows that result to be those
  of the next CheckTx calls, which see that same height.
* `x/vault/keeper/orders.go:107`: a vault whose first refresh is close-only with
  a short position starts its list with a bid; once it quotes, two slots hold
  ids of one family and cancel each other's orders. `NoStaleQuotes` allows for
  the missing order.
* `x/vault/keeper/vault.go:304`: parameters set before a vault is funded make it
  look existing, and its address is never entered in the vault address store.

The `MaxEjectedNonce` of `timestampnonce.go` turns out to be redundant as long as
block time does not run back: a nonce ejected for age is outside the window, and
one ejected for room is smaller than every listed one, so that it is refused
until those have become stale, and it with them.

### What the memclob run taught

`Proposable` rests on a guard that looks redundant: `HandleMsgPlaceOrder`
refuses an id that the operations of the same block removed (`MayPlace`).
Without it, the new order and the replay of the operation on the old one would
meet in one queue. The status `InternalError` of a taker cannot be reached:
`UpdateCausedError` answers are rejected with a panic before.

### Bounds

| module | bounds | why they are enough for the question |
|---|---|---|
| DelayMsg | 3 messages, heights to 3, one message that is valid | a block with several messages, one of them failing, and one in a later block |
| StatefulOrders | one long-term and two conditional orders of size 2; times to 2 and heights to 3 | partial and full fills; an id is placed, leaves in each possible way and is used again; expiry on the very second; prices below, between and on subticks, and trades outside the band |
| ShortTermFills | five orders of one id, good until blocks 2 to 6, and one of another id; window 2; heights to 9 | overlapping and disjoint lifetimes, pruning of an early listing while a later one holds, forgetting after the window |
| MemClob | five orders of four ids and a liquidation; window 2 and heights to 4 | a replacement at another price, a cancel that outlives a block, expiry on the book, two replays; a block of another proposer between two of this node's |
| Twap | two parents of size 4 in 4 legs, interval 3, gaps up to 4, catch-up 3 | a block that is so late that a leg comes due while the suborder expires; catching up; failing suborders |
| OrderBook | three orders, a tick of 3 that becomes 1, prices 1, 3, 6, 12 and 15 in 4 bits, two expiry blocks | levels emptied at the front, in the middle and at both ends of the price type, an ask at the largest price; gaps longer than the scan; scans that wrap around; prices that only the smaller tick allows |
| CheckTxOrders | two ids, times to 2, mempool of 3, blocks of 2 | place, cancel and expire an id in the mempool, in the block, or in both, in either order |
| BlockRateLimit | two keys, windows of 1, 2 and 3 blocks, heights to 3 | chain shorter, as long and longer than the window; two keys in one dirty set; a change of configuration |
| AnteHandler | two goroutines, two accounts, sequence numbers to 1 | overlapping signers in both orders; a commit between two calls |
| TimestampNonce | list of 3, window of 2 on each side, times 6 to 10 | the list overflows; a stamp leaves it for age and for room and is sent again |
| Bridge | two events, three honest and one faulty validator, one event per block (longer lists by the theorems), one restart, one change of parameters, delays 0 and 1 | a lagging node, a stale answer, a restart before and after acknowledgement, a forged proposal, a completion that fails |
| VaultOrders | one layer, two prices, expirations of one and two seconds, a window of two, gaps of at most a second | two slots, which also come to hold ids of one family (close-only, then quoting); orders are filled, expire and are replaced in one block; the expiration goes up and down, in and out of the window; blocks are unbounded. More layers by the theorems |
| Megavault | two owners, two vaults, 3 shares, heights to 3, equity down to -1 | two locks due at one height; rounding of mints and redemptions; a vault under water |
| RateLimit | two limiters with different periods, two packets and one of before, two blocks, two changes of limits | one limiter binds and the other does not; a timeout after a change of limits; capacities above and below the baseline |

`MaxTime`, `MaxHeight`, `MaxCommitted`, `MaxMessages`, `MaxPlacements`, `MaxGap`,
`MaxMempool`,
`MaxBlockTxs`, `MaxPerBlock`, `MaxSequence`, `MaxRestarts`, `MaxUpdates`,
`MaxPackets`, `MaxReceipts`, `MaxBlocks`, `MaxShares`, `MaxFunds`, `MaxElapsed`,
`MaxLayers` bound what the program does not bound. `MaxUint32`, `Uint64`, `Width`,
`ShortBlockWindow`, `StatefulOrderTimeWindow`, `TimeWindow`, `SubticksPerTick`,
`Quantums`, `EquityTierLimit`, `Cutoff`, `ArrSize`, `Past`, `Future` are parameters of
the program, smaller than there. Where a bound stops every action, the cfg turns
the deadlock check off; `MemClob`, `Twap` and `Bridge` run with it. Symmetry is used only in the
two runs without liveness properties, over owners, vaults, prices, keys and ids
that the modules do not tell apart.

### Fairness

`DelayMsg!FairSpec` is weak fairness of the steps of EndBlocker and commit, and
`Twap!FairSpec` of beginning and ending blocks: consensus keeps producing
blocks, and within one the code runs to its end. Nothing is assumed of clients
or proposers: no message is ever delayed, no suborder filled, because of
fairness. `EventuallyDispatched` and `EventuallyClosed` need no more.

`Bridge!FairSpec`: the daemon of every honest validator keeps polling (weak
fairness of `Ask` and `Fetch`); a lagging Ethereum node does not return an empty
answer for ever (strong fairness of a fetch that recognizes something); blocks
keep coming, and not every one of them is proposed by a validator that has
nothing to acknowledge or is refused (strong fairness of a block that
acknowledges: proposers rotate). Faulty validators, restarts and changes of
parameters are under no fairness.

`AnteHandler!FairSpec` is strong fairness of each goroutine: Go mutexes hand a
lock to a waiter that has waited long enough (starvation mode), so a goroutine
that finds the lock free again and again gets it. No transaction need be sent
and no commit made.

## 4. The proofs

Checked by TLAPS for all values of the constants that satisfy the assumptions
of the module, so for any number of orders, messages, nonces, goroutines,
validators, owners, keys and blocks. `DelayMsgAssumption`,
`StatefulOrdersAssumption`, `MemClobAssumption`, `TwapAssumption`,
`NonceAssumption`, `AnteAssumption`, `BridgeAssumption` and
`MegavaultAssumption` give the types of the parameters and say that sizes are
not zero and that sets which are counted over are finite; for the memclob also
that orders of one id have one owner and one kind and that a reduce-only order
is IOC (both from `ValidateBasic`), for the nonces that the first block is late
enough that the window lies above the cutoff, and for the bridge that fewer than
a third of the validators are faulty. Components
that the runs put side by side state theirs as `WellFormed`, which is a premise
of their theorems and is evaluated by the run: `RateLimit` (periods of at least
a millisecond), `VaultOrders` (types and the four statuses of the code),
`BlockRateLimit` (configurations as they are validated and
sorted), `OrderBook` (a tick of at least one subtick, prices from 1 to the largest
of the type), `ShortTermFills` (an id names one subaccount, no order is of
size zero). Their theorems are of the composition (`PartsSpec`): a lemma
for each (`PartsUncommitted`, `PartsBook`, `PartsFills`, `PartsOrders`, `PartsLimits`,
`PartsLimiter`) shows that a step of the whole is a step or a stutter of the part.

Every invariant and every safety property of an action that a passing run checks
is proved; liveness is [only model-checked](#only-model-checked).

**DelayMsgProofs.** `StoreInv` is inductive. `IndexAgrees` alone is not: a new
id must not be in use (`IdsBelowNext`), and the deleting loop must hold exactly
the ids still listed for the height (`LoopInv`), so that it always cuts the
first of them (`DeleteHead`) and the block ends with an empty listing. Theorems
`StoresAgree` (with `AscendingIds`) and `NoneStranded`. On top of it,
`AttemptInv` says that what the executing loop has left is exactly what is due
and not yet attempted, in ascending order, so that its head is the message the
queue would take next (`HeadIsNext`) and the height moves on only when nothing
is due; each step is then one of `DelayQueue` or a stutter (`StepImplements`).
Theorem `DelayMsgImplementsQueue`, the refinement itself.

**StatefulOrdersProofs.** The code reads an order through
`fetchStateStoresForOrder`; the lemmas `...View` say what each action does to
that view, and the invariants follow from the view alone. `StateInv` joins
types, `OneStore`, `ExpirationsExact`, `NoOrphanFill`, `CountAgrees` and
`ExpiredGone` with `FullIsReported`: an order that is fully filled in mid-block
is on the list of filled orders, so that the end of the operations removes it.
The count is the cardinality of a finite set (`RemovalCount`). For the book,
`BookInv` says that in mid-block a resting order is either the one in state or
named by a list of the block, and `ListsInv` what the lists may hold. That a
live order stays needs the converse, `ListedGone`: an order in state is on none
of the lists that purge by id, because an id that was cancelled or removed is
refused for the rest of the block. For the triggers, two lemmas say that rounding
a price up or down to a subtick keeps its order relative to a whole subtick, and
the rest is the three passes. Theorems `TypeCorrect`, `OrderStoresAgree`,
`CountsExact`, `NoneOutlives`, `NoGhostOrders`, and the action properties
`LiveOrdersKept` and `TriggeringExact`.

**MemClobProofs.** Each function of the memclob has a lemma `...Does`: what it
changes, and the condition under which none of its `Must` checks panics. The
traversal of the book is a run of `Turn`, one maker after the other; `Looped` is
its invariant and is proved of the smallest turn after which it fails, since the
installed provers take no induction over data.
*The memclob.* The panics depend on five structures that must agree. `MemOK` says
how: transaction bytes are kept for exactly the short-term orders that rest or
are queued (`BytesKept`); `MatchedOrderIdToOrder` is the newest queued order of
an id (`QueuedKnown`) and nothing older rests (`RestingKnown`), so that replacing
an order never brings an older one back; the queue places an order at most once
(`PlacedOnce`); what rests is unfilled, not cancelled and uncrossed. `StateOK`
adds the committed state (`ChainOK`: only a placed stateful order has a fill
amount) and that a pending or resting stateful order is in state, which is why a
replaced order is never stateful and the removal reason that `RemoveMakers` lacks
is never missed. That matching leaves no better order behind is part of the loop
(`LoopGone`): an order passed over is filled, removed or replaced, unless the
loop is over, and then no maker after it is filled. Theorems `StateSound`,
`NeverPanics`, `NeverCrossed`, `CancelledStayGone`, and the action property
`ServesInTurn`.
*The queue.* `Proposable` speaks of a delivery from the start, while a step only
appends. `DeliverMore` cuts a delivery where the step begins, and lemmas for the
three kinds of operations (`RemovalsShed`, `PlacementsAdd`, `MatchTrades`) say
what each appended piece does on top. The delivery mirrors the memclob
(`Mirrors`): it removed the same orders, knows as placed the short-term orders
last matched, and has the same fill amounts but for removed orders. It goes
through because what rests may be a maker (`Matchable`): not IOC, not expired in
the block to come, not removed. `StatefulAccounted` is not inductive: while
`PrepareCheckState` is half way an order may be anywhere, and what a block
undoes must come back. `Accounts` says where each order in state is, pending ones
included, and that an IOC order is filled at once or not at all; `Awaits`, that
a pending order has been touched by nothing, so that only a filled or reduce-only
one is refused (`Refused`); `Named`, that every stateful order the queue filled
or removed is named by an operation, so that it is replayed whoever proposed the
block (`CommitAccounts`). `QueueOK` is the conjunction. Theorems `QueueSound`,
`QueueProposable`, `NoneForgotten`.

**TwapProofs.** `Ledger`: what was traded for a parent and what remains of it add
up to its size; `LeftCovered`: a suborder has no more left than its parent, if
there is one. Both survive ids that are used again, rounding of leg sizes and
catching up, because a suborder is sized from what remains and a new one only
takes the place of an old one. So no parent is overtraded, and
`RemainingQuantums` never wraps. That a parent is there at all (`SuborderCovered`)
needs more, `Apart`: a parent has one trigger, later than the end of the
suborder in flight. This is true only when ids are used once (`MaxPlacements = 1`,
a premise of the theorem); twap_replace shows why. Theorems `LedgerInvHolds`,
`Undertraded`, `CoveredOnce`.

**CheckTxProofs.** Four components between a signed transaction and a trade.
*Nonces.* `NoReplay` says that no number used before would be accepted; the state
that stops it is a list that forgets. `IInv` adds `Listed`: every time stamp used
is in the list, or at most `MaxEjectedNonce`. Ejection for age raises
`MaxEjectedNonce` over what leaves, ejection for room over the smallest entry,
and a new stamp must exceed it and be unlisted. Theorems `TypeCorrect` (the list
never outgrows its array) and `NeverReplayed`.
*Uncommitted orders.* `UncommittedExact` is inductive with the types. That the
mempool can be delivered is not a matter of the transient store alone:
`Sequenced` says that from Commit on each transaction follows (`Follows`) from
state and from those before it, and ReCheckTx restores it one transaction at a
time. Theorems `StoreIsMempool`, `MempoolDeliverable`.
*Order book.* `BookInv` relates each level, as a sequence without repetitions, to
the orders by id, and the indexes and cached best prices to those. Removing the
last order of the best level is the hard step: the scan takes as many ticks as
there are levels. From the best level it cannot wrap before it has found one,
since there are at least as many ticks ahead as levels, so `BookConsistent`
holds for every tick. All of this counts in ticks, so `BookInv` has `OnTick`: the
tick divides the price of every level, which a change of the tick keeps, as the new
one divides the old (`SyncKeeps`). From another level the scan may wrap, and what it
then meets is not a multiple of the tick, if the tick does not divide `2^Width`; if
it does, the scan must stay in range. Theorem `ScanFindsNext`, for every tick and
width.
*Short-term fills.* `NoOverfill` speaks of what was traded, and the code only
knows fill amounts. `FillInv` adds that the amount kept covers every order whose
window has not passed (`Covered`), every two of them together (`PairCovered`),
and that it is kept that long (`KeptFor`). A match adds to both sides alike; what
is pruned is relied upon by nothing. Theorems `FillTypes`, `NeverOverfilled`,
`AlwaysListed`, and the action property `NeverForgottenEarly`.

**AccountingProofs.** Quantities that must add up. Sums are defined in `Sums` as
the cardinality of the set of all units, so that the library's theorems on
cardinality apply where a fold would need induction; the two facts that do need
one (a sum of sums, a sum of bounded terms) are proved of a smallest set for
which they fail (`SmallestFailure`).
*Megavault.* `SharesCovered` is inductive only with the locks: `LocksKept` says
that a lock is held under the market it was given for, that market is listed,
and its message comes when the lock is due; with `VaultTypes` (a vault without a
market has no equity) this is `MegavaultInv`. A withdrawal leaves
`TotalLocked`, a listing adds as much to the locks as to the shares, and
`EndBlock` drops exactly the locks whose message came. For the price of a share:
a deposit of q adds q to the equity and m shares with m * E <= q * T, and a
withdrawal of n of T shares takes at most E * n / T, summed over the vaults
(`EquityAfterWithdrawal`); a vault never pays more than it has. Theorems
`SharesAddUp`, `EveryLockScheduled`, and the action property
`PriceNeverDiluted`.
*Vault orders.* The refresh is a loop over slots, written as a recursive function
of the slot. That the function is defined (`LoopRuns`) and what holds after each
slot (`LoopDone`) are proved of a smallest slot for which they fail, in place of
an induction. `SlotsDone`: every order left is listed as one of the slots passed
wants it, or is the old order of a slot to come. It does not
need the ids of the slots to differ: two slots may come to hold the same.
`QuotesInv` adds that no order outlives the `OrderExpirationSeconds` in force and
that an idle vault has none, so that standby and decommissioning may drop the list.
This holds of a vault that is not `stranded`; a loop is followed for one whose
orders are also within the time window (`Sure`), since otherwise it strands them.
Theorems `EveryOrderListed`, `RefreshLeavesNoneStale`.
*IBC limits.* `PacketsInv`: sequence numbers are given once, so a pending number
names one packet. `CapacityInv` bounds the capacity together with what left, by
the highest baseline times periods passed (`Recovered`), rounding included;
`OutflowBounded` alone is not inductive, since it forgets the capacity. Theorems
`PendingAsCharged`, `NetOutflowBounded`.
*Rate limiter.* `LimiterInv`: the counts per block are what was asked for in the
longest window (`BlocksKept`), the dirty set at an offset is of the one block of
that window there (`DirtyKept`; offsets of blocks less than the longest window
apart differ), and the counts per limit are sums over their windows
(`LimitsKept`). `PruneRateLimits` then subtracts what leaves each window
(`SumMovesOn`) and finds the counts of every dirty key. Theorem `WindowsExact`.

**AnteHandlerProofs.** `Serial` compares the check state with what the accepted
calls made of it and says nothing of a call under way, so it is not inductive.
`LockInv` adds that no two calls hold one lock, and that a call between making
its branch and writing it back holds the locks of all its signers and sees of
their accounts what the check state has; writing the branch back then disturbs
no other call. Theorems `LockInvHolds` and `ChecksSerial`.

**BridgeProofs.** `AcknowledgeBridges` checks no id and no amount; that the list
is right follows from who voted for it. More than two thirds of the validators
include an honest one (`HonestVote`, where the assumption on faulty validators
is used), whose memory may have gaps and may be empty after a restart but holds
only what Ethereum emitted (`HeldTrue`), so the accepted list continues the
acknowledged one (`ValidatedEvents`). That honest validators agree needs the
other direction, `NoGap`: between what is acknowledged and what it recognized a
validator holds everything, because an answer, stale or not, starts no later
than where it stood. `QueueTrue` follows an event through the queue: what waits,
was tried and was paid are told apart by its id. Theorems `AckInvHolds`,
`AcknowledgedInOrder`, `HonestAgree`, `EveryEventAccounted`.

### Only model-checked

* Liveness (`EventuallyDispatched`, `EventuallyClosed`, `EventuallyAcknowledged`,
  `AlwaysEnds`): fairness is out of the prover's reach.
* The four violations: `CountAccurate`, `NoneAfterCancel`, `CancelAccepted` and
  `NextBestAsDocumented` do not hold, and the runs show how.

## 5. What is not modelled

* Collateral, margin, funding, fees and rewards: arithmetic over big integers
  and prices. The order models let any such check succeed or fail.
* Prices read off the book (premiums, mid prices) and deleveraging
  operations in `MemClob`: they touch no order.
* Liquidation and deleveraging amounts and limits: the memclob model places
  liquidation orders, but which subaccount, how much and at which price is
  margin arithmetic.
* Final settlement and changes of a clob pair's status.
* The reasons of proposed order removals (`process_operations.go:300-439`): the
  memclob model removes orders for the reasons the code gives, and its delivery asks
  only that the order is in state. So `Proposable` does not say that the checks that
  go with each reason would pass.
* Event and propose parameters of the bridge, which are constants of the model.
* The single-block rate limiter, a map emptied after every block.
* MEV measurement, streaming, indexer events, telemetry: they change no state
  of the chain.
* The price feed and liquidation daemons, the indexer services, the other ante
  decorators, authenticators, the client and command line: I/O and decoding
  around the core.
* Epochs, vesting, rewards, statistics, fee tiers, affiliates: planned or
  arithmetic without interleavings.
* Generated code (`*.pb.go`, about half of the lines of the repository's Go
  code), test utilities, mocks and message plumbing: there is no behaviour in
  them to model, and the share of lines that the map covers is small for that
  reason.

Each is listed with its reason in `PROJECT.json`.

## 6. Plan

Done, in this order: DelayMsg (the smallest complete component), the order state
the chain agrees on (StatefulOrders, ShortTermFills, Twap), the state of one
node (MemClob), then the structures beneath and in front of it (OrderBook,
CheckTxOrders, BlockRateLimit, AnteHandler, TimestampNonce), the users of
delayed messages (Bridge over DelayQueue, Megavault), VaultOrders and RateLimit.

Next modules:

1. `Liquidations`: limits per block and subaccount, insurance fund, fallback to
   deleveraging, over abstract margin.
2. `ClobPairStatus`: status transitions, final settlement, removal of its
   orders.
3. `Epochs`, `Stats` (rolling window), `Premiums` (samples and votes by epoch),
   `Vest`.
4. `Clob`: StatefulOrders and MemClob composed over one state.

Theorems worth proving next: that `StatefulOrders` and `MemClob` each hold what
the other assumes, of the composition `Clob`; and that the matching loop of
`MemClob` walks the levels of `OrderBook` in the order of `Best`.

Abstract specifications worth stating: `ShortTermFills` implements a ledger that
only bounds what a signed order may trade; `StatefulOrders` implements one map
from ids to orders, of which stores, index and counts are views; `Bridge`
implements an exactly-once queue.

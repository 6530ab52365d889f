----------------------------- MODULE RateLimit ------------------------------
(***************************************************************************)
(* x/ratelimit: IBC withdrawals of a denom are charged to the capacities   *)
(* of its limiters, deposits and failed withdrawals are credited, and      *)
(* every block moves each capacity towards its baseline.                   *)
(*                                                                         *)
(* All stores are keyed by denom and denoms do not interact: the module is *)
(* about one denom, a voucher whose supply is what was received and not    *)
(* sent back.  An outgoing packet is answered by an acknowledgement or a   *)
(* timeout, in any order and arbitrarily late; IBC core (external) lets    *)
(* each packet be answered once.  Packets sent before the middleware was   *)
(* installed may be answered too.                                          *)
(***************************************************************************)
EXTENDS Integers, Sequences, FiniteSets

CONSTANTS
  LimiterLists,   \* the lists of limiters governance may set, <<>> to lift them;
                  \* a limiter is [period (ns), minimum, tvlPpm]
  Amounts,        \* the amounts of transfers
  InitSupply,     \* the supply of the denom at genesis
  BlockTimes,     \* the time between two blocks, in ns
  MaxPackets,     \* bound: packets ever sent
  MaxReceipts,    \* bound: packets ever received
  MaxBlocks,      \* bound: blocks
  MaxUpdates      \* bound: calls of SetLimitParams

OneMillion == 1000000
Milliseconds(ns) == ns \div OneMillion

\* LimitParams.Validate, of one limiter.  A period of less than a millisecond
\* passes too, and the EndBlocker then divides by zero: LimiterLists has none.
ValidLimiter(l) ==
  /\ l.period # 0
  /\ l.minimum > 0
  /\ l.tvlPpm \in 1 .. OneMillion

\* What the constants stand for: limiters with periods of at least a millisecond.
WellFormed ==
  /\ \A ls \in LimiterLists :
       /\ ls \in Seq([period : Nat, minimum : Nat, tvlPpm : Nat])
       /\ \A i \in DOMAIN ls : ls[i].period >= OneMillion
  /\ Amounts \subseteq Nat /\ BlockTimes \subseteq Nat /\ InitSupply \in Nat

VARIABLES
  limiters,     \* LimitParams of the denom, <<>> when there is no entry
  capacity,     \* DenomCapacity of the denom, <<>> when there is no entry
  supply,       \* bank supply of the denom
  sent,         \* packets without an answer: [seq, amount]
  nextSeq,      \* the next sequence number of the channel
  pending,      \* the PendingSendPacket store
  receipts, blocks, updates,
  peak,         \* history: per limiter, the highest baseline since SetLimitParams
  inflow,       \* history: credited since then
  outflow,      \* history: charged since then
  elapsed       \* history: milliseconds since then

counters == <<receipts, blocks, updates>>
history == <<peak, inflow, outflow, elapsed>>
vars == <<limiters, capacity, supply, sent, nextSeq, pending, counters, history>>

MaxOf(a, b) == IF a >= b THEN a ELSE b
AbsOf(a) == IF a < 0 THEN -a ELSE a

\* GetBaseline.
GetBaseline(tvl, l) == MaxOf(l.minimum, (tvl * l.tvlPpm) \div OneMillion)

Baselines(tvl, ls) == [i \in DOMAIN ls |-> GetBaseline(tvl, ls[i])]

\* A packet sent before the middleware was there has no pending entry.
Init ==
  /\ limiters = <<>>
  /\ capacity = <<>>
  /\ supply = InitSupply
  /\ \E old \in Amounts : sent = {[seq |-> 0, amount |-> old]}
  /\ nextSeq = 1
  /\ pending = {}
  /\ receipts = 0 /\ blocks = 0 /\ updates = 0
  /\ peak = <<>> /\ inflow = 0 /\ outflow = 0 /\ elapsed = 0

-----------------------------------------------------------------------------
(* Governance.                                                             *)

\* SetLimitParams: the capacity list is overwritten with the baselines.
SetLimitParams(ls) ==
  /\ updates < MaxUpdates
  /\ \A i \in DOMAIN ls : ValidLimiter(ls[i])
  /\ limiters' = ls
  /\ capacity' = Baselines(supply, ls)
  /\ updates' = updates + 1
  /\ peak' = Baselines(supply, ls)
  /\ inflow' = 0 /\ outflow' = 0 /\ elapsed' = 0
  /\ UNCHANGED <<supply, sent, nextSeq, pending, receipts, blocks>>

-----------------------------------------------------------------------------
(* Transfers.                                                              *)

\* Mutant: one sufficient capacity is enough.
SomeCapacity(amount) ==
  capacity = <<>> \/ \E i \in DOMAIN capacity : capacity[i] >= amount

\* ProcessWithdrawal: every capacity must cover the amount.
CapacitySuffices(amount) == \A i \in DOMAIN capacity : capacity[i] >= amount

Debit(amount) == [i \in DOMAIN capacity |-> capacity[i] - amount]

\* IncrementCapacitiesForDenom.
Credit(amount) == [i \in DOMAIN capacity |-> capacity[i] + amount]

\* SendPacket and TrySendRateLimitedPacket: the channel gives the sequence,
\* the capacities are charged, the packet is noted as pending; if they do not
\* suffice the whole transaction fails.  The transfer module burns the coins.
SendPacket(amount) ==
  /\ nextSeq <= MaxPackets
  /\ amount <= supply
  /\ CapacitySuffices(amount)
  /\ capacity' = Debit(amount)
  /\ supply' = supply - amount
  /\ sent' = sent \cup {[seq |-> nextSeq, amount |-> amount]}
  /\ pending' = pending \cup {nextSeq}
  /\ nextSeq' = nextSeq + 1
  /\ outflow' = outflow + amount
  /\ UNCHANGED <<limiters, counters, peak, inflow, elapsed>>

\* OnRecvPacket.  A packet the transfer module refuses changes nothing.
OnRecvPacket(amount) ==
  /\ receipts < MaxReceipts
  /\ receipts' = receipts + 1
  /\ capacity' = Credit(amount)
  /\ supply' = supply + amount
  /\ inflow' = inflow + amount
  /\ UNCHANGED <<limiters, sent, nextSeq, pending, blocks, updates, peak, outflow, elapsed>>

\* A successful acknowledgement only forgets the pending packet.
OnAcknowledgementSuccess(p) ==
  /\ sent' = sent \ {p}
  /\ pending' = pending \ {p.seq}
  /\ UNCHANGED <<limiters, history, capacity, supply, nextSeq, counters>>

\* UndoSendPacket does nothing for a packet that is not pending.
HasPendingSendPacket(p) == p.seq \in pending

\* Mutant: the pending entry of an undone packet stays.
KeepPending(p) == pending

RemovePendingSendPacket(p) == pending \ {p.seq}

\* UndoSendPacket, for an error acknowledgement and for a timeout; the
\* transfer module refunds the sender in the same transaction.
UndoSendPacket(p) ==
  /\ sent' = sent \ {p}
  /\ supply' = supply + p.amount
  /\ IF HasPendingSendPacket(p)
       THEN /\ capacity' = Credit(p.amount)
            /\ pending' = RemovePendingSendPacket(p)
            /\ inflow' = inflow + p.amount
       ELSE UNCHANGED <<capacity, pending, inflow>>
  /\ UNCHANGED <<limiters, nextSeq, counters, peak, outflow, elapsed>>

-----------------------------------------------------------------------------
(* The end of a block.                                                     *)

\* CalculateNewCapacityList moves a capacity towards its baseline by diff and
\* stops there.
Approach(c, base, diff) ==
  IF AbsOf(c - base) <= diff THEN base
  ELSE IF c - base < 0 THEN c + diff ELSE c - diff

CapacityDiff(c, base, ms, period) ==
  (MaxOf(base, c - base) * ms) \div Milliseconds(period)

NewCapacity(c, l, ms) ==
  LET base == GetBaseline(supply, l)
  IN  Approach(c, base, CapacityDiff(c, base, ms, l.period))

\* updateCapacityForDenom skips the update when the lists do not match.
UpdatedCapacities(ms) ==
  IF Len(limiters) # Len(capacity)
    THEN capacity
    ELSE [i \in DOMAIN limiters |-> NewCapacity(capacity[i], limiters[i], ms)]

\* UpdateAllCapacitiesEndBlocker.
EndBlock(time) ==
  /\ blocks < MaxBlocks
  /\ blocks' = blocks + 1
  /\ capacity' = UpdatedCapacities(Milliseconds(time))
  /\ peak' = [i \in DOMAIN peak |-> MaxOf(peak[i], GetBaseline(supply, limiters[i]))]
  /\ elapsed' = elapsed + Milliseconds(time)
  /\ UNCHANGED <<limiters, supply, sent, nextSeq, pending, receipts, updates, inflow,
                 outflow>>

Next ==
  \/ \E ls \in LimiterLists : SetLimitParams(ls)
  \/ \E amount \in Amounts : SendPacket(amount) \/ OnRecvPacket(amount)
  \/ \E p \in sent : OnAcknowledgementSuccess(p) \/ UndoSendPacket(p)
  \/ \E time \in BlockTimes : EndBlock(time)

Spec == Init /\ [][Next]_vars

-----------------------------------------------------------------------------
(* Properties.                                                             *)

\* The pending store holds exactly the unanswered packets that were charged:
\* none leaks, none is credited twice, and a packet from before the middleware
\* is not credited at all.
PendingExact == pending = {p.seq : p \in {q \in sent : q.seq >= 1}}

\* What the limits are for: what left the chain under a list of limiters, net
\* of what came in or came back, is at most one baseline plus one baseline per
\* period, however blocks, deposits, failures and timeouts interleave.
OutflowBounded ==
  \A i \in DOMAIN capacity :
    LET period == Milliseconds(limiters[i].period)
    IN  (outflow - inflow) * period <= peak[i] * (period + elapsed)
=============================================================================

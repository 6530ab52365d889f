----------------------------- MODULE Megavault ------------------------------
(***************************************************************************)
(* The megavault (x/vault): depositors hold shares in the equity of a main *)
(* subaccount and of the vaults that quote on markets; shares of a market  *)
(* listing (x/listing) stay locked until x/delaymsg delivers the message   *)
(* that unlocks them.                                                      *)
(***************************************************************************)
EXTENDS Integers, Sums

CONSTANTS
  Owners, Vaults,
  Deposits,      \* amounts of deposits, allocations and retrievals
  Equities,      \* equities trading may leave a vault with
  Slippages,     \* slippages <<numerator, denominator>> of a withdrawal
  Listing,       \* [new, main, lock]: amounts and blocks of a market listing
  MaxShares,     \* bound: shares in all
  MaxFunds,      \* bound: quantums in the main subaccount or in a vault
  MaxHeight      \* bound: height of the last block

ASSUME MegavaultAssumption ==
  /\ IsFiniteSet(Owners) /\ IsFiniteSet(Vaults)
  /\ Deposits \subseteq Nat \ {0}
  /\ Equities \subseteq Int
  /\ \A s \in Slippages : s[1] \in Nat /\ s[2] \in Nat \ {0}
  /\ Listing \in [new : Nat \ {0}, main : Nat, lock : Nat \ {0}]
  /\ MaxShares \in Nat /\ MaxFunds \in Nat /\ MaxHeight \in Nat

VARIABLES
  height,
  ended,         \* the EndBlockers of this block have run
  totalShares,
  ownerShares,   \* owner |-> shares
  unlocks,       \* owner |-> listed market |-> [shares, til]: locked shares
  delayed,       \* listed market |-> [owner, at]: delayed MsgUnlockShares
  main,          \* equity of the main subaccount
  bank,          \* balance of the main address, not yet swept
  equity,        \* vault |-> equity of its subaccount
  status,        \* vault |-> status in its parameters, for those that have any
  addresses,     \* the vault address store
  markets        \* vaults whose market has been listed

shares == <<totalShares, ownerShares, unlocks, delayed>>
vaults == <<equity, status, addresses, markets>>
vars == <<height, ended, shares, main, bank, vaults>>

NoEntries == [o \in {} |-> 0]
Put(f, k, v) == [j \in DOMAIN f \cup {k} |-> IF j = k THEN v ELSE f[j]]
Without(f, ks) == [j \in DOMAIN f \ ks |-> f[j]]
SharesOf(o) == IF o \in DOMAIN ownerShares THEN ownerShares[o] ELSE 0
UnlocksOf(o) == IF o \in DOMAIN unlocks THEN unlocks[o] ELSE NoEntries

Init ==
  /\ height = 1
  /\ ended = FALSE
  /\ totalShares = 0
  /\ ownerShares = NoEntries /\ unlocks = NoEntries
  /\ delayed = NoEntries
  /\ main = 0 /\ bank = 0
  /\ equity = [v \in Vaults |-> 0]
  /\ status = NoEntries
  /\ addresses = {}
  /\ markets = {}

-----------------------------------------------------------------------------
(* Shares.                                                                 *)

\* GetMegavaultEquity: vaults that are deactivated or under water do not count.
Active == {v \in DOMAIN status : status[v] # "deactivated"}
MegavaultEquity ==
  main + SumOf(equity, {v \in Active : equity[v] > 0})

\* Mutant: shares are rounded up.
RoundedUp(quantums) == ((quantums * totalShares) + MegavaultEquity - 1) \div MegavaultEquity

\* Shares for a deposit when there are shares already.
ProportionalShares(quantums) == (quantums * totalShares) \div MegavaultEquity

\* MintShares, without its refusals.
SharesToMint(quantums) ==
  IF totalShares = 0 THEN quantums ELSE ProportionalShares(quantums)

\* The refusals of MintShares: no equity, or not enough for one share.
CanMint(quantums) ==
  totalShares > 0 => MegavaultEquity > 0 /\ SharesToMint(quantums) > 0

Mint(o, minted) ==
  /\ totalShares' = totalShares + minted
  /\ ownerShares' = Put(ownerShares, o, SharesOf(o) + minted)

\* DepositToMegavault: shares are minted before the transfer.
DepositToMegavault(o, quantums) ==
  /\ ~ended
  /\ CanMint(quantums)
  /\ totalShares + SharesToMint(quantums) <= MaxShares
  /\ main + quantums <= MaxFunds
  /\ Mint(o, SharesToMint(quantums))
  /\ main' = main + quantums
  /\ UNCHANGED <<height, ended, unlocks, delayed, bank, vaults>>

LockedShares(locks) == [v \in DOMAIN locks |-> locks[v].shares]
TotalLocked(o) == SumOf(LockedShares(UnlocksOf(o)), DOMAIN UnlocksOf(o))

\* Mutant: locked shares can be withdrawn.
AnyOfTheirs(o, n) == SharesOf(o) >= n

\* The check of WithdrawFromMegavault.
Withdrawable(o, n) == SharesOf(o) - n >= TotalLocked(o)

\* What a vault gives for n shares at a slippage.
FromVault(v, n, slip) ==
  (equity[v] * n * (slip[2] - slip[1])) \div (totalShares * slip[2])

\* RedeemFromMainAndSubVaults: vaults that cannot pay are skipped; those that
\* pay, each at its slippage, transfer to the main subaccount.
WithdrawFromMegavault(o, n, from, slip) ==
  LET paid == [v \in from |-> FromVault(v, n, slip[v])]
      redeemed == ((main * n) \div totalShares) + SumOf(paid, from)
  IN  /\ ~ended
      /\ o \in DOMAIN ownerShares
      /\ Withdrawable(o, n)
      /\ \A v \in from : equity[v] > 0 /\ paid[v] > 0
      /\ redeemed > 0
      /\ main' = main + SumOf(paid, from) - redeemed
      /\ equity' = [v \in Vaults |-> IF v \in from THEN equity[v] - paid[v] ELSE equity[v]]
      /\ totalShares' = totalShares - n
      /\ ownerShares' = IF SharesOf(o) = n THEN Without(ownerShares, {o})
                        ELSE Put(ownerShares, o, SharesOf(o) - n)
      /\ UNCHANGED <<height, ended, unlocks, delayed, bank, status, addresses, markets>>

-----------------------------------------------------------------------------
(* Listing of a market: DepositToMegavaultforPML.                          *)

\* LockShares delays a MsgUnlockShares for each lock.
Schedule(o, v, til) == Put(delayed, v, [owner |-> o, at |-> til])

\* The deposit, the allocation to the new vault, the lock and the start of
\* quoting are one transaction.
DepositToMegavaultForPML(o, v) ==
  LET quantums == Listing.new + Listing.main
      minted == SharesToMint(quantums)
  IN  /\ ~ended
      /\ v \notin markets
      /\ CanMint(quantums)
      /\ totalShares + minted <= MaxShares
      /\ main + Listing.main <= MaxFunds
      /\ Mint(o, minted)
      /\ main' = main + Listing.main
      /\ equity' = [equity EXCEPT ![v] = @ + Listing.new]
      /\ status' = Put(status, v, "quoting")
      /\ addresses' = IF v \in DOMAIN status THEN addresses ELSE addresses \cup {v}
      /\ markets' = markets \cup {v}
      /\ unlocks' = Put(unlocks, o, Put(UnlocksOf(o), v,
                          [shares |-> minted, til |-> height + Listing.lock]))
      /\ delayed' = Schedule(o, v, height + Listing.lock)
      /\ UNCHANGED <<height, ended, bank>>

\* Mutant: an unlock becomes due one block after its message.
DueBefore(u) == u.til < height

Due(u) == u.til <= height

\* UnlockShares, for the owners whose message is due; a second message of the
\* block finds nothing left.
Unlocked ==
  LET called == {delayed[v].owner : v \in {w \in DOMAIN delayed : delayed[w].at = height}}
      left(o) == Without(unlocks[o], {v \in DOMAIN unlocks[o] : Due(unlocks[o][v])})
  IN  [o \in {p \in DOMAIN unlocks : p \notin called \/ DOMAIN left(p) # {}} |->
         IF o \in called THEN left(o) ELSE unlocks[o]]

-----------------------------------------------------------------------------
(* Vaults.                                                                 *)

\* A market listed without a deposit, by governance.
CreateMarket(v) ==
  /\ ~ended
  /\ v \notin markets
  /\ markets' = markets \cup {v}
  /\ UNCHANGED <<height, ended, shares, main, bank, equity, status, addresses>>

\* SetVaultParams of an operator, for any vault id.
SetVaultParams(v, s) ==
  /\ ~ended
  /\ s = "deactivated" => equity[v] <= 0
  /\ status' = Put(status, v, s)
  /\ UNCHANGED <<height, ended, shares, main, bank, equity, addresses, markets>>

\* AllocateToVault: a vault without parameters is made.
AllocateToVault(v, quantums) ==
  /\ ~ended
  /\ v \in markets
  /\ main >= quantums
  /\ equity[v] + quantums <= MaxFunds
  /\ IF v \in DOMAIN status THEN UNCHANGED <<status, addresses>>
     ELSE status' = Put(status, v, "standby") /\ addresses' = addresses \cup {v}
  /\ main' = main - quantums
  /\ equity' = [equity EXCEPT ![v] = @ + quantums]
  /\ UNCHANGED <<height, ended, shares, bank, markets>>

RetrieveFromVault(v, quantums) ==
  /\ ~ended
  /\ v \in DOMAIN status
  /\ equity[v] >= quantums
  /\ main + quantums <= MaxFunds
  /\ main' = main + quantums
  /\ equity' = [equity EXCEPT ![v] = @ - quantums]
  /\ UNCHANGED <<height, ended, shares, bank, status, addresses, markets>>

\* Trades and prices change what a vault is worth.
Trade(v, e) ==
  /\ ~ended
  /\ v \in DOMAIN status \cap markets
  /\ equity' = [equity EXCEPT ![v] = e]
  /\ UNCHANGED <<height, ended, shares, main, bank, status, addresses, markets>>

\* Anyone may send coins to the main address.
Send(quantums) ==
  /\ ~ended
  /\ bank = 0
  /\ main + quantums <= MaxFunds
  /\ bank' = quantums
  /\ UNCHANGED <<height, ended, shares, main, vaults>>

\* EndBlockers: x/delaymsg delivers the unlocks, then x/vault sweeps.
EndBlock ==
  /\ ~ended
  /\ ended' = TRUE
  /\ unlocks' = Unlocked
  /\ delayed' = Without(delayed, {v \in DOMAIN delayed : delayed[v].at = height})
  /\ main' = main + bank
  /\ bank' = 0
  /\ UNCHANGED <<height, totalShares, ownerShares, vaults>>

\* DecommissionNonPositiveEquityVaults, as the next block begins.
Decommissioned == {v \in DOMAIN status : status[v] = "deactivated" /\ equity[v] <= 0}

BeginBlock ==
  /\ ended
  /\ height < MaxHeight
  /\ height' = height + 1
  /\ ended' = FALSE
  /\ status' = Without(status, Decommissioned)
  /\ addresses' = addresses \ Decommissioned
  /\ UNCHANGED <<shares, main, bank, equity, markets>>

Next ==
  \/ \E o \in Owners :
       \/ \E q \in Deposits : DepositToMegavault(o, q)
       \/ \E n \in 1 .. MaxShares, from \in SUBSET Active :
            \E slip \in [from -> Slippages] : WithdrawFromMegavault(o, n, from, slip)
       \/ \E v \in Vaults : DepositToMegavaultForPML(o, v)
  \/ \E v \in Vaults :
       \/ CreateMarket(v)
       \/ \E s \in {"standby", "quoting", "deactivated"} : SetVaultParams(v, s)
       \/ \E q \in Deposits : AllocateToVault(v, q) \/ RetrieveFromVault(v, q)
       \/ \E e \in Equities : Trade(v, e)
  \/ \E q \in Deposits : Send(q)
  \/ EndBlock
  \/ BeginBlock

Spec == Init /\ [][Next]_vars

-----------------------------------------------------------------------------
(* Properties.                                                             *)

\* The total is the sum of what the owners hold, so that their shares redeem
\* the whole equity and no more, and each of them holds every share that is
\* locked, whatever is deposited, listed and withdrawn in between.
SharesCovered ==
  /\ totalShares = SumOf([o \in Owners |-> SharesOf(o)], Owners)
  /\ \A o \in Owners : TotalLocked(o) <= SharesOf(o)

\* No share stays locked for good: every lock has a message still to come, at
\* the height at which it is due, although a message unlocks whatever is due
\* and the messages of one height find the same list.
UnlockScheduled ==
  \A o \in DOMAIN unlocks : \A k \in DOMAIN unlocks[o] :
    /\ unlocks[o][k].til > height \/ (unlocks[o][k].til = height /\ ~ended)
    /\ \E j \in DOMAIN delayed : delayed[j] = [owner |-> o, at |-> unlocks[o][k].til]

\* Minting and redeeming never lower what a share of the others is worth: every
\* rounding and every slippage is at the expense of who deposits or withdraws.
SharePriceKept ==
  [][totalShares > 0 /\ totalShares' # totalShares =>
       MegavaultEquity' * totalShares >= MegavaultEquity * totalShares']_vars
=============================================================================

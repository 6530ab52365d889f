------------------------- MODULE AccountingProofs --------------------------
(***************************************************************************)
(* Proofs about what must add up: the shares of the megavault and what     *)
(* they are worth (Megavault), the list a vault keeps of its orders        *)
(* (VaultOrders), what may leave over IBC (RateLimit), and the counters of *)
(* the rate limiter of orders and cancellations (BlockRateLimit).          *)
(***************************************************************************)
EXTENDS Accounting, FiniteSetTheorems, WellFoundedInduction, TLAPS

-----------------------------------------------------------------------------
(* Sums.                                                                   *)

\* The units of a number are as many as it says.
LEMMA UnitsCount ==
  ASSUME NEW f, NEW x, f[x] \in Nat
  PROVE  IsFiniteSet(Units(f, x)) /\ Cardinality(Units(f, x)) = f[x]
<1>1. IsFiniteSet(1 .. f[x]) /\ Cardinality(1 .. f[x]) = f[x]
  BY FS_Interval
<1>2. IsFiniteSet({x}) /\ Cardinality({x}) = 1
  BY FS_Singleton
<1>3. IsFiniteSet({x} \X (1 .. f[x])) /\ Cardinality({x} \X (1 .. f[x])) = 1 * f[x]
  BY <1>1, <1>2, FS_Product
<1>4. 1 * f[x] = f[x]
  OBVIOUS
<1> QED
  BY <1>3, <1>4 DEF Units

\* A sum over a finite set is a number.
LEMMA SumType ==
  ASSUME NEW f, NEW S, IsFiniteSet(S), \A x \in S : f[x] \in Nat
  PROVE  /\ IsFiniteSet(UNION {Units(f, x) : x \in S})
         /\ SumOf(f, S) \in Nat
<1> DEFINE parts == {Units(f, x) : x \in S}
<1>1. IsFiniteSet(parts)
  <2>1. [x \in S |-> Units(f, x)] \in Surjection(S, parts)
    BY DEF Surjection
  <2> QED
    BY <2>1, FS_Surjection
<1>2. \A T \in parts : IsFiniteSet(T)
  BY UnitsCount
<1>3. IsFiniteSet(UNION parts)
  BY <1>1, <1>2, FS_UNION
<1> QED
  BY <1>3, FS_CardinalityType DEF SumOf

\* A sum of nothing, and of one term more.
LEMMA SumEmpty == \A f : SumOf(f, {}) = 0
BY FS_EmptySet DEF SumOf

LEMMA SumAdd ==
  ASSUME NEW f, NEW S, IsFiniteSet(S), NEW y, y \notin S, \A x \in S \cup {y} : f[x] \in Nat
  PROVE  SumOf(f, S \cup {y}) = SumOf(f, S) + f[y]
<1> DEFINE U(T) == UNION {Units(f, x) : x \in T}
<1>1. IsFiniteSet(U(S)) /\ Cardinality(U(S)) = SumOf(f, S) /\ SumOf(f, S) \in Nat
  BY SumType DEF SumOf
<1>2. IsFiniteSet(Units(f, y)) /\ Cardinality(Units(f, y)) = f[y]
  BY UnitsCount
<1>3. U(S \cup {y}) = U(S) \cup Units(f, y)
  OBVIOUS
<1>4. U(S) \cap Units(f, y) = {}
  BY DEF Units
<1>5. Cardinality(U(S) \cap Units(f, y)) = 0
  BY <1>4, FS_EmptySet
<1> HIDE DEF U
<1>6. Cardinality(U(S) \cup Units(f, y)) =
        Cardinality(U(S)) + Cardinality(Units(f, y)) - Cardinality(U(S) \cap Units(f, y))
  BY <1>1, <1>2, FS_Union
<1>7. Cardinality(U(S) \cup Units(f, y)) = SumOf(f, S) + f[y]
  BY <1>1, <1>2, <1>5, <1>6
<1> QED
  BY <1>3, <1>7 DEF SumOf, U

\* A sum depends on the terms only, and grows with them.
LEMMA SumAgree ==
  ASSUME NEW f, NEW g, NEW S, \A x \in S : f[x] = g[x]
  PROVE  SumOf(f, S) = SumOf(g, S)
<1>1. \A x \in S : Units(f, x) = Units(g, x)
  BY DEF Units
<1>2. UNION {Units(f, x) : x \in S} = UNION {Units(g, x) : x \in S}
  BY <1>1
<1> QED
  BY <1>2 DEF SumOf

LEMMA SumGrows ==
  ASSUME NEW f, NEW g, NEW S, NEW T, IsFiniteSet(T), S \subseteq T,
         \A x \in T : g[x] \in Nat, \A x \in S : f[x] \in Nat /\ f[x] <= g[x]
  PROVE  SumOf(f, S) <= SumOf(g, T)
<1>1. IsFiniteSet(UNION {Units(g, x) : x \in T})
  BY SumType
<1>2. \A x \in S : Units(f, x) \subseteq Units(g, x)
  BY DEF Units
<1>3. UNION {Units(f, x) : x \in S} \subseteq UNION {Units(g, x) : x \in T}
  BY <1>2
<1> QED
  BY <1>1, <1>3, FS_Subset DEF SumOf

\* One term of a sum changes, or goes.
LEMMA SumWithout ==
  ASSUME NEW f, NEW S, IsFiniteSet(S), NEW y \in S, \A x \in S : f[x] \in Nat
  PROVE  SumOf(f, S \ {y}) = SumOf(f, S) - f[y]
<1>1. IsFiniteSet(S \ {y}) /\ (S \ {y}) \cup {y} = S
  BY FS_RemoveElement
<1>2. SumOf(f, (S \ {y}) \cup {y}) = SumOf(f, S \ {y}) + f[y]
  BY <1>1, SumAdd
<1>3. SumOf(f, S \ {y}) \in Nat /\ f[y] \in Nat
  BY <1>1, SumType
<1>4. SumOf(f, S) = SumOf(f, S \ {y}) + f[y]
  BY <1>1, <1>2
<1> QED
  BY <1>3, <1>4

LEMMA SumChange ==
  ASSUME NEW f, NEW g, NEW S, IsFiniteSet(S), NEW y \in S, \A x \in S : f[x] \in Nat,
         g[y] \in Nat, \A x \in S \ {y} : g[x] = f[x]
  PROVE  SumOf(g, S) = SumOf(f, S) - f[y] + g[y]
<1>1. SumOf(f, S \ {y}) = SumOf(f, S) - f[y]
  BY SumWithout
<1>2. SumOf(g, S \ {y}) = SumOf(g, S) - g[y]
  BY SumWithout
<1>3. SumOf(g, S \ {y}) = SumOf(f, S \ {y})
  BY SumAgree
<1>4. SumOf(f, S) \in Nat /\ SumOf(g, S) \in Nat /\ f[y] \in Nat
  BY SumType
<1> QED
  BY <1>1, <1>2, <1>3, <1>4

\* A sum of zeros.
LEMMA SumZero ==
  ASSUME NEW f, NEW S, \A x \in S : f[x] = 0
  PROVE  SumOf(f, S) = 0
<1>1. \A x \in S : Units(f, x) = {}
  BY DEF Units
<1>2. UNION {Units(f, x) : x \in S} = {}
  BY <1>1
<1> QED
  BY <1>2, FS_EmptySet DEF SumOf

\* Terms that are zero may be left out.
LEMMA SumDropsZeros ==
  ASSUME NEW f, NEW S, NEW T, S \subseteq T, \A x \in T \ S : f[x] = 0
  PROVE  SumOf(f, T) = SumOf(f, S)
<1>1. \A x \in T \ S : Units(f, x) = {}
  BY DEF Units
<1>2. UNION {Units(f, x) : x \in T} = UNION {Units(f, x) : x \in S}
  BY <1>1
<1> QED
  BY <1>2 DEF SumOf

\* A term is at most the sum.
LEMMA TermAtMostSum ==
  ASSUME NEW f, NEW S, IsFiniteSet(S), NEW y \in S, \A x \in S : f[x] \in Nat
  PROVE  f[y] <= SumOf(f, S)
<1>1. IsFiniteSet(S \ {y})
  BY FS_RemoveElement
<1>2. SumOf(f, S \ {y}) \in Nat /\ SumOf(f, S) \in Nat /\ f[y] \in Nat
  BY <1>1, SumType
<1>3. SumOf(f, S \ {y}) = SumOf(f, S) - f[y]
  BY SumWithout
<1> QED
  BY <1>2, <1>3

\* What fails of some subset of a finite set fails of a smallest one.
LEMMA SmallestFailure ==
  ASSUME NEW S, IsFiniteSet(S), NEW Bad \in SUBSET (SUBSET S), Bad # {}
  PROVE  \E T \in Bad : \A y \in T : T \ {y} \notin Bad
<1> DEFINE R == StrictSubsetOrdering(S)
<1>1. IsWellFoundedOn(R, SUBSET S)
  BY FS_StrictSubsetOrderingWellFounded, FS_FiniteSubsetsOfFinite
<1>2. \A T \in SUBSET S : \A y \in T : <<T \ {y}, T>> \in R
  BY DEF StrictSubsetOrdering
<1> HIDE DEF R
<1>3. PICK T \in Bad : \A U \in Bad : ~(<<U, T>> \in R)
  BY <1>1, WFMin
<1> QED
  BY <1>2, <1>3

\* A sum of sums, and a sum of terms of which each is at most a multiple.
LEMMA SumPlus ==
  ASSUME NEW f, NEW g, NEW h, NEW S, IsFiniteSet(S),
         \A x \in S : g[x] \in Nat /\ h[x] \in Nat /\ f[x] = g[x] + h[x]
  PROVE  SumOf(f, S) = SumOf(g, S) + SumOf(h, S)
<1> DEFINE Bad == {T \in SUBSET S : SumOf(f, T) # SumOf(g, T) + SumOf(h, T)}
<1>1. SUFFICES ASSUME Bad # {} PROVE FALSE
  OBVIOUS
<1>2. PICK T \in Bad : \A y \in T : T \ {y} \notin Bad
  BY <1>1, SmallestFailure
<1>3. T # {}
  <2>1. SumOf(f, {}) = 0 /\ SumOf(g, {}) = 0 /\ SumOf(h, {}) = 0
    BY SumEmpty
  <2>2. SumOf(f, {}) = SumOf(g, {}) + SumOf(h, {})
    BY <2>1
  <2> QED
    BY <1>2, <2>2
<1>4. PICK y \in T : TRUE
  BY <1>3
<1> DEFINE R == T \ {y}
<1>5. R \in SUBSET S /\ IsFiniteSet(R) /\ y \notin R /\ R \cup {y} = T /\ y \in S
  BY <1>2, FS_Subset
<1>6. SumOf(f, R) = SumOf(g, R) + SumOf(h, R)
  BY <1>2, <1>5
<1> HIDE DEF R, Bad
<1>7. \A x \in R \cup {y} : f[x] \in Nat /\ g[x] \in Nat /\ h[x] \in Nat
  BY <1>5
<1>8. /\ SumOf(f, T) = SumOf(f, R) + f[y]
      /\ SumOf(g, T) = SumOf(g, R) + g[y]
      /\ SumOf(h, T) = SumOf(h, R) + h[y]
  BY <1>5, <1>7, SumAdd
<1>9. SumOf(f, R) \in Nat /\ SumOf(g, R) \in Nat /\ SumOf(h, R) \in Nat
  BY <1>5, <1>7, SumType
<1>10. SumOf(f, T) = SumOf(g, T) + SumOf(h, T)
  BY <1>5, <1>6, <1>7, <1>8, <1>9
<1> QED
  BY <1>2, <1>10 DEF Bad

LEMMA SumScaled ==
  ASSUME NEW f, NEW g, NEW S, IsFiniteSet(S), NEW a \in Nat, NEW b \in Nat,
         \A x \in S : f[x] \in Nat /\ g[x] \in Nat /\ f[x] * a <= g[x] * b
  PROVE  SumOf(f, S) * a <= SumOf(g, S) * b
<1> DEFINE Bad == {T \in SUBSET S : ~(SumOf(f, T) * a <= SumOf(g, T) * b)}
<1>1. SUFFICES ASSUME Bad # {} PROVE FALSE
  OBVIOUS
<1>2. PICK T \in Bad : \A y \in T : T \ {y} \notin Bad
  BY <1>1, SmallestFailure
<1>3. T # {}
  <2>1. SumOf(f, {}) = 0 /\ SumOf(g, {}) = 0
    BY SumEmpty
  <2>2. 0 * a <= 0 * b
    OBVIOUS
  <2> QED
    BY <1>2, <2>1, <2>2
<1>4. PICK y \in T : TRUE
  BY <1>3
<1> DEFINE R == T \ {y}
<1>5. R \in SUBSET S /\ IsFiniteSet(R) /\ y \notin R /\ R \cup {y} = T /\ y \in S
  BY <1>2, FS_Subset
<1>6. SumOf(f, R) * a <= SumOf(g, R) * b
  BY <1>2, <1>5
<1> HIDE DEF R, Bad
<1>7. \A x \in R \cup {y} : f[x] \in Nat /\ g[x] \in Nat
  BY <1>5
<1>8. /\ SumOf(f, T) = SumOf(f, R) + f[y]
      /\ SumOf(g, T) = SumOf(g, R) + g[y]
  BY <1>5, <1>7, SumAdd
<1>9. SumOf(f, R) \in Nat /\ SumOf(g, R) \in Nat /\ f[y] \in Nat /\ g[y] \in Nat
  BY <1>5, <1>7, SumType
<1>10. SumOf(f, T) * a <= SumOf(g, T) * b
  <2>1. \A i, j, k, l \in Nat : i * a <= k * b /\ j * a <= l * b => (i + j) * a <= (k + l) * b
    OBVIOUS
  <2>2. f[y] * a <= g[y] * b
    BY <1>5
  <2>3. (SumOf(f, R) + f[y]) * a <= (SumOf(g, R) + g[y]) * b
    BY <1>6, <1>9, <2>1, <2>2
  <2> QED
    BY <1>8, <2>3
<1> QED
  BY <1>2, <1>10 DEF Bad

-----------------------------------------------------------------------------
(* The megavault.                                                          *)

\* The equities, statuses and shares have their types, and a vault whose market
\* has not been listed has nothing.
VaultTypes ==
  /\ height \in Nat
  /\ totalShares \in Nat
  /\ main \in Int /\ bank \in Int
  /\ DOMAIN ownerShares \subseteq Owners
  /\ \A o \in DOMAIN ownerShares : ownerShares[o] \in Nat
  /\ equity \in [Vaults -> Int]
  /\ DOMAIN status \subseteq Vaults
  /\ markets \subseteq Vaults
  /\ \A v \in Vaults \ markets : equity[v] = 0

\* A lock is held under the market it was given for, and the message delayed
\* for that market comes when the lock is due.
LocksKept ==
  /\ DOMAIN unlocks \subseteq Owners
  /\ \A o \in DOMAIN unlocks :
       /\ DOMAIN unlocks[o] \subseteq markets
       /\ \A v \in DOMAIN unlocks[o] :
            /\ unlocks[o][v].shares \in Nat
            /\ unlocks[o][v].til \in Nat
            /\ unlocks[o][v].til > height \/ (unlocks[o][v].til = height /\ ~ended)
            /\ v \in DOMAIN delayed
            /\ delayed[v] = [owner |-> o, at |-> unlocks[o][v].til]

MegavaultInv == VaultTypes /\ LocksKept /\ SharesCovered

-----------------------------------------------------------------------------
(* What is derived from the state.                                         *)

\* The vaults that count towards the equity.
Funded == {v \in Active : equity[v] > 0}

\* Shares of owners, locked shares and the equity of the megavault are numbers.
LEMMA SharesType ==
  ASSUME VaultTypes
  PROVE  \A o \in Owners : SharesOf(o) \in Nat
BY DEF VaultTypes, SharesOf

LEMMA LockedType ==
  ASSUME VaultTypes, LocksKept, NEW o \in Owners
  PROVE  /\ IsFiniteSet(DOMAIN UnlocksOf(o))
         /\ \A v \in DOMAIN UnlocksOf(o) : LockedShares(UnlocksOf(o))[v] \in Nat
         /\ TotalLocked(o) \in Nat
<1>1. DOMAIN UnlocksOf(o) \subseteq Vaults
  BY DEF VaultTypes, LocksKept, UnlocksOf, NoEntries
<1>2. IsFiniteSet(DOMAIN UnlocksOf(o))
  BY <1>1, MegavaultAssumption, FS_Subset
<1>3. \A v \in DOMAIN UnlocksOf(o) : LockedShares(UnlocksOf(o))[v] \in Nat
  BY DEF LocksKept, UnlocksOf, NoEntries, LockedShares
<1> QED
  BY <1>2, <1>3, SumType DEF TotalLocked

LEMMA EquityType ==
  ASSUME VaultTypes
  PROVE  /\ IsFiniteSet(Active) /\ Active \subseteq Vaults
         /\ SumOf(equity, Funded) \in Nat
         /\ MegavaultEquity \in Int
         /\ MegavaultEquity = main + SumOf(equity, Funded)
<1>1. Active \subseteq Vaults /\ Funded \subseteq Vaults
  BY DEF VaultTypes, Active, Funded
<1>2. IsFiniteSet(Active) /\ IsFiniteSet(Funded)
  BY <1>1, MegavaultAssumption, FS_Subset
<1>3. \A v \in Funded : equity[v] \in Nat
  BY <1>1 DEF VaultTypes, Funded
<1>4. SumOf(equity, Funded) \in Nat
  BY <1>2, <1>3, SumType
<1>5. MegavaultEquity = main + SumOf(equity, Funded)
  BY DEF MegavaultEquity, Funded
<1> QED
  BY <1>1, <1>2, <1>4, <1>5 DEF VaultTypes

\* What a division with a floor returns.
LEMMA FloorBounds ==
  ASSUME NEW a \in Int, NEW b \in Nat \ {0}
  PROVE  /\ a \div b \in Int
         /\ (a \div b) * b <= a
         /\ a >= 0 => a \div b \in Nat
OBVIOUS

\* A deposit that is not refused mints a number of shares.
LEMMA MintedType ==
  ASSUME VaultTypes, NEW q \in Nat, CanMint(q)
  PROVE  SharesToMint(q) \in Nat
<1>1. CASE totalShares = 0
  BY <1>1 DEF SharesToMint
<1>2. CASE totalShares # 0
  <2>1. MegavaultEquity \in Nat \ {0} /\ totalShares \in Nat
    BY <1>2, EquityType DEF CanMint, VaultTypes
  <2>2. q * totalShares \in Int /\ q * totalShares >= 0
    BY <2>1
  <2>3. (q * totalShares) \div MegavaultEquity \in Nat
    BY <2>1, <2>2, FloorBounds
  <2> QED
    BY <1>2, <2>3 DEF SharesToMint, ProportionalShares
<1> QED
  BY <1>1, <1>2

\* What a vault pays for shares is a number, and at most its part.
LEMMA PaidType ==
  ASSUME VaultTypes, totalShares > 0, NEW n \in Nat, NEW s \in Slippages, NEW v \in Vaults,
         equity[v] > 0
  PROVE  /\ FromVault(v, n, s) \in Int
         /\ FromVault(v, n, s) * totalShares <= equity[v] * n
<1> DEFINE e == equity[v]
           a == s[1]
           b == s[2]
           T == totalShares
           p == (e * n * (b - a)) \div (T * b)
<1>1. e \in Nat /\ T \in Nat \ {0} /\ a \in Nat /\ b \in Nat \ {0}
  BY MegavaultAssumption DEF VaultTypes
<1> HIDE DEF e, a, b, T
<1>2. T * b \in Nat \ {0} /\ e * n \in Nat
  BY <1>1
<1>3. e * n * (b - a) \in Int
  BY <1>1, <1>2
<1>4. p \in Int /\ p * (T * b) <= e * n * (b - a)
  BY <1>2, <1>3, FloorBounds
<1>5. e * n * (b - a) <= (e * n) * b
  <2>1. \A x, y, z \in Nat : x * (y - z) <= x * y
    OBVIOUS
  <2> QED
    BY <1>1, <1>2, <2>1
<1> HIDE DEF p
<1>6. (p * T) * b <= (e * n) * b
  BY <1>1, <1>2, <1>3, <1>4, <1>5
<1>7. \A x, y \in Int : \A z \in Nat \ {0} : x * z <= y * z => x <= y
  OBVIOUS
<1>8. p * T <= e * n
  BY <1>1, <1>2, <1>4, <1>6, <1>7
<1> QED
  BY <1>4, <1>8 DEF p, e, a, b, T, FromVault

-----------------------------------------------------------------------------
(* Types.                                                                  *)

\* The owner who withdraws holds the shares.
LEMMA Held ==
  ASSUME MegavaultInv, NEW o \in Owners, NEW n \in Nat \ {0}, Withdrawable(o, n)
  PROVE  /\ SharesOf(o) \in Nat /\ n <= SharesOf(o)
         /\ SharesOf(o) <= totalShares /\ totalShares \in Nat \ {0}
<1>1. SharesOf(o) \in Nat /\ TotalLocked(o) \in Nat /\ totalShares \in Nat
  BY SharesType, LockedType DEF MegavaultInv, VaultTypes
<1>2. n <= SharesOf(o)
  BY <1>1 DEF Withdrawable
<1> DEFINE f == [p \in Owners |-> SharesOf(p)]
<1>3. f[o] <= SumOf(f, Owners)
  <2>1. \A p \in Owners : f[p] \in Nat
    BY SharesType DEF MegavaultInv
  <2> HIDE DEF f
  <2> QED
    BY <2>1, MegavaultAssumption, TermAtMostSum
<1>4. SharesOf(o) <= totalShares
  BY <1>3 DEF MegavaultInv, SharesCovered
<1> QED
  BY <1>1, <1>2, <1>4

\* What the vaults, and the main subaccount, pay for n shares.
PaidBy(n, from, slip) == [v \in from |-> FromVault(v, n, slip[v])]
MainPart(n) == (main * n) \div totalShares

\* The vaults a withdrawal is paid from have funds, and none pays, and the main
\* subaccount does not pay, more than the part of the shares.
LEMMA PaidFrom ==
  ASSUME MegavaultInv, NEW o \in Owners, NEW n \in 1 .. MaxShares,
         NEW from \in SUBSET Active, NEW slip \in [from -> Slippages],
         WithdrawFromMegavault(o, n, from, slip)
  PROVE  /\ IsFiniteSet(from) /\ from \subseteq Funded /\ from \subseteq markets
         /\ \A v \in from : /\ PaidBy(n, from, slip)[v] \in Nat
                            /\ PaidBy(n, from, slip)[v] * totalShares <= equity[v] * n
         /\ SumOf(PaidBy(n, from, slip), from) \in Nat
         /\ MainPart(n) \in Int
         /\ MainPart(n) * totalShares <= main * n
<1> DEFINE paid == [v \in from |-> FromVault(v, n, slip[v])]
<1>1. n \in Nat \ {0} /\ totalShares \in Nat \ {0} /\ main \in Int
  <2>1. n \in Nat \ {0}
    BY MegavaultAssumption
  <2> QED
    BY <2>1, Held DEF WithdrawFromMegavault, MegavaultInv, VaultTypes
<1>2. from \subseteq Vaults /\ IsFiniteSet(from)
  BY EquityType, FS_Subset DEF MegavaultInv
<1>3. \A v \in from : equity[v] > 0 /\ paid[v] > 0
  BY DEF WithdrawFromMegavault
<1>4. \A v \in from : v \in markets
  BY <1>2, <1>3 DEF MegavaultInv, VaultTypes
<1>5. \A v \in from : paid[v] \in Nat /\ paid[v] * totalShares <= equity[v] * n
  <2> SUFFICES ASSUME NEW v \in from
               PROVE  paid[v] \in Nat /\ paid[v] * totalShares <= equity[v] * n
    OBVIOUS
  <2>1. /\ FromVault(v, n, slip[v]) \in Int
        /\ FromVault(v, n, slip[v]) * totalShares <= equity[v] * n
    BY <1>1, <1>2, <1>3, PaidType DEF MegavaultInv
  <2> QED
    BY <1>3, <2>1
<1>6. SumOf(paid, from) \in Nat
  BY <1>2, <1>5, SumType
<1>7. main * n \in Int
  BY <1>1
<1>8. /\ (main * n) \div totalShares \in Int
      /\ ((main * n) \div totalShares) * totalShares <= main * n
  BY <1>1, <1>7, FloorBounds
<1>9. from \subseteq Funded
  BY <1>3 DEF Funded
<1> QED
  BY <1>2, <1>4, <1>5, <1>6, <1>8, <1>9 DEF PaidBy, MainPart

LEMMA TypesKept ==
  ASSUME MegavaultInv, [Next]_vars
  PROVE  VaultTypes'
<1> USE MegavaultAssumption DEF MegavaultInv
<1>1. ASSUME NEW o \in Owners, NEW q \in Deposits, DepositToMegavault(o, q)
      PROVE  VaultTypes'
  <2>1. q \in Nat /\ SharesToMint(q) \in Nat /\ SharesOf(o) \in Nat
    BY <1>1, MintedType, SharesType DEF DepositToMegavault
  <2> QED
    BY <1>1, <2>1 DEF VaultTypes, DepositToMegavault, Mint, Put, vaults
<1>2. ASSUME NEW o \in Owners, NEW n \in 1 .. MaxShares, NEW from \in SUBSET Active,
             NEW slip \in [from -> Slippages], WithdrawFromMegavault(o, n, from, slip)
      PROVE  VaultTypes'
  <2> DEFINE paid == PaidBy(n, from, slip)
             own == MainPart(n)
  <2>1. /\ SumOf(paid, from) \in Nat /\ own \in Int
        /\ \A v \in from : paid[v] \in Nat
        /\ from \subseteq markets
    BY <1>2, PaidFrom
  <2>2. n \in Nat \ {0} /\ SharesOf(o) \in Nat /\ n <= SharesOf(o) /\ SharesOf(o) <= totalShares
    <3>1. n \in Nat \ {0} /\ Withdrawable(o, n)
      BY <1>2 DEF WithdrawFromMegavault
    <3> QED
      BY <3>1, Held
  <2>3. /\ main' = main + SumOf(paid, from) - (own + SumOf(paid, from))
        /\ equity' = [v \in Vaults |-> IF v \in from THEN equity[v] - paid[v] ELSE equity[v]]
        /\ totalShares' = totalShares - n
        /\ ownerShares' = IF SharesOf(o) = n THEN Without(ownerShares, {o})
                          ELSE Put(ownerShares, o, SharesOf(o) - n)
        /\ UNCHANGED <<height, bank, status, markets>>
    BY <1>2 DEF WithdrawFromMegavault, PaidBy, MainPart
  <2> HIDE DEF paid, own
  <2>4. height' \in Nat /\ totalShares' \in Nat /\ main' \in Int /\ bank' \in Int
    BY <2>1, <2>2, <2>3 DEF VaultTypes
  <2>5. /\ DOMAIN ownerShares' \subseteq Owners
        /\ \A p \in DOMAIN ownerShares' : ownerShares'[p] \in Nat
    BY <2>2, <2>3 DEF VaultTypes, Without, Put
  <2>6. /\ equity' \in [Vaults -> Int]
        /\ \A v \in Vaults \ markets' : equity'[v] = 0
    BY <2>1, <2>3 DEF VaultTypes
  <2> QED
    BY <2>3, <2>4, <2>5, <2>6 DEF VaultTypes
<1>3. ASSUME NEW o \in Owners, NEW v \in Vaults, DepositToMegavaultForPML(o, v)
      PROVE  VaultTypes'
  <2>1. Listing.new + Listing.main \in Nat
    OBVIOUS
  <2>2. SharesToMint(Listing.new + Listing.main) \in Nat /\ SharesOf(o) \in Nat
    BY <1>3, <2>1, MintedType, SharesType DEF DepositToMegavaultForPML
  <2> QED
    BY <1>3, <2>2 DEF VaultTypes, DepositToMegavaultForPML, Mint, Put
<1>4. ASSUME NEW v \in Vaults, CreateMarket(v)
      PROVE  VaultTypes'
  BY <1>4 DEF VaultTypes, CreateMarket, shares
<1>5. ASSUME NEW v \in Vaults, NEW s, SetVaultParams(v, s)
      PROVE  VaultTypes'
  BY <1>5 DEF VaultTypes, SetVaultParams, shares, Put
<1>6. ASSUME NEW v \in Vaults, NEW q \in Deposits, AllocateToVault(v, q)
      PROVE  VaultTypes'
  BY <1>6 DEF VaultTypes, AllocateToVault, shares, Put
<1>7. ASSUME NEW v \in Vaults, NEW q \in Deposits, RetrieveFromVault(v, q)
      PROVE  VaultTypes'
  <2>1. q \in Nat \ {0}
    OBVIOUS
  <2> QED
    BY <1>7, <2>1 DEF VaultTypes, RetrieveFromVault, shares
<1>8. ASSUME NEW v \in Vaults, NEW e \in Equities, Trade(v, e)
      PROVE  VaultTypes'
  BY <1>8 DEF VaultTypes, Trade, shares
<1>9. ASSUME NEW q \in Deposits, Send(q)
      PROVE  VaultTypes'
  <2>1. q \in Int
    OBVIOUS
  <2> QED
    BY <1>9, <2>1 DEF VaultTypes, Send, shares, vaults
<1>10. CASE EndBlock
  BY <1>10 DEF VaultTypes, EndBlock, vaults
<1>11. CASE BeginBlock
  BY <1>11 DEF VaultTypes, BeginBlock, shares, Without
<1>12. CASE UNCHANGED vars
  BY <1>12 DEF VaultTypes, vars, shares, vaults
<1> QED
  BY <1>1, <1>2, <1>3, <1>4, <1>5, <1>6, <1>7, <1>8, <1>9, <1>10, <1>11, <1>12 DEF Next

-----------------------------------------------------------------------------
(* Locks.                                                                  *)

\* A step that leaves the locks and their messages alone, and ends no block.
LEMMA LocksAlone ==
  ASSUME MegavaultInv, UNCHANGED <<height, ended, unlocks, delayed>>, markets \subseteq markets'
  PROVE  LocksKept'
BY DEF MegavaultInv, LocksKept

LEMMA LocksStep ==
  ASSUME MegavaultInv, [Next]_vars
  PROVE  LocksKept'
<1>1. ASSUME NEW o \in Owners, NEW v \in Vaults, DepositToMegavaultForPML(o, v)
      PROVE  LocksKept'
  <2> DEFINE minted == SharesToMint(Listing.new + Listing.main)
             til == height + Listing.lock
  <2>1. minted \in Nat /\ til \in Nat /\ til > height
    <3>1. Listing.new + Listing.main \in Nat /\ Listing.lock \in Nat \ {0} /\ height \in Nat
      BY MegavaultAssumption DEF MegavaultInv, VaultTypes
    <3>2. CanMint(Listing.new + Listing.main)
      BY <1>1 DEF DepositToMegavaultForPML
    <3>3. minted \in Nat
      BY <3>1, <3>2, MintedType DEF MegavaultInv
    <3> QED
      BY <3>1, <3>3
  <2>2. /\ v \notin markets /\ markets' = markets \cup {v}
        /\ unlocks' = Put(unlocks, o, Put(UnlocksOf(o), v, [shares |-> minted, til |-> til]))
        /\ delayed' = Put(delayed, v, [owner |-> o, at |-> til])
        /\ height' = height /\ ended' = ended
    BY <1>1 DEF DepositToMegavaultForPML, Schedule
  <2> HIDE DEF minted, til
  <2>3. LocksKept
    BY DEF MegavaultInv
  <2>4. DOMAIN unlocks' \subseteq Owners
    BY <2>2, <2>3 DEF LocksKept, Put
  <2>5. \A w \in DOMAIN delayed : w \in DOMAIN delayed' /\ (w # v => delayed'[w] = delayed[w])
    BY <2>2 DEF Put
  <2>6. v \in DOMAIN delayed' /\ delayed'[v] = [owner |-> o, at |-> til]
    BY <2>2 DEF Put
  <2> DEFINE Kept(p, w) ==
               /\ w \in markets'
               /\ unlocks'[p][w].shares \in Nat
               /\ unlocks'[p][w].til \in Nat
               /\ unlocks'[p][w].til > height' \/ (unlocks'[p][w].til = height' /\ ~ended')
               /\ w \in DOMAIN delayed'
               /\ delayed'[w] = [owner |-> p, at |-> unlocks'[p][w].til]
  <2>7. ASSUME NEW p \in DOMAIN unlocks', NEW w \in DOMAIN unlocks'[p]
        PROVE  Kept(p, w)
    <3>1. CASE p = o /\ w = v
      <4>1. unlocks'[p][w] = [shares |-> minted, til |-> til]
        BY <2>2, <3>1 DEF Put
      <4> QED
        BY <2>1, <2>2, <2>6, <3>1, <4>1
    <3>2. CASE ~(p = o /\ w = v)
      <4>1. p \in DOMAIN unlocks /\ w \in DOMAIN unlocks[p] /\ unlocks'[p][w] = unlocks[p][w]
        BY <2>2, <3>2 DEF Put, UnlocksOf, NoEntries
      <4>2. w \in markets /\ w # v
        BY <2>2, <2>3, <4>1 DEF LocksKept
      <4>3. /\ unlocks[p][w].shares \in Nat
            /\ unlocks[p][w].til \in Nat
            /\ unlocks[p][w].til > height \/ (unlocks[p][w].til = height /\ ~ended)
            /\ w \in DOMAIN delayed
            /\ delayed[w] = [owner |-> p, at |-> unlocks[p][w].til]
        BY <2>3, <4>1 DEF LocksKept
      <4> QED
        BY <2>2, <2>5, <4>1, <4>2, <4>3
    <3> QED
      BY <3>1, <3>2
  <2> QED
    BY <2>4, <2>7 DEF LocksKept
<1>2. CASE EndBlock
  <2> DEFINE called == {delayed[v].owner : v \in {w \in DOMAIN delayed : delayed[w].at = height}}
             left(o) == Without(unlocks[o], {v \in DOMAIN unlocks[o] : Due(unlocks[o][v])})
  <2>1. /\ ~ended /\ ended' = TRUE /\ height' = height /\ markets' = markets
        /\ unlocks' = [o \in {p \in DOMAIN unlocks : p \notin called \/ DOMAIN left(p) # {}} |->
                         IF o \in called THEN left(o) ELSE unlocks[o]]
        /\ delayed' = Without(delayed, {v \in DOMAIN delayed : delayed[v].at = height})
    BY <1>2 DEF EndBlock, Unlocked, vaults
  <2>2. LocksKept /\ height \in Nat
    BY DEF MegavaultInv, VaultTypes
  <2>3. DOMAIN unlocks' \subseteq DOMAIN unlocks
    BY <2>1
  <2>4. ASSUME NEW o \in DOMAIN unlocks', NEW v \in DOMAIN unlocks'[o]
        PROVE  /\ v \in DOMAIN unlocks[o] /\ unlocks'[o][v] = unlocks[o][v]
               /\ unlocks[o][v].til > height
    <3>1. o \in DOMAIN unlocks
      BY <2>3
    <3>2. v \in DOMAIN unlocks[o] /\ unlocks'[o][v] = unlocks[o][v]
      BY <2>1, <3>1 DEF Without
    <3>3. /\ unlocks[o][v].til \in Nat
          /\ unlocks[o][v].til > height \/ unlocks[o][v].til = height
          /\ v \in DOMAIN delayed
          /\ delayed[v] = [owner |-> o, at |-> unlocks[o][v].til]
      BY <2>2, <3>1, <3>2 DEF LocksKept
    <3>4. ASSUME unlocks[o][v].til = height
          PROVE  FALSE
      <4>1. o \in called
        BY <3>3, <3>4
      <4>2. Due(unlocks[o][v])
        BY <2>2, <3>4 DEF Due
      <4>3. v \notin DOMAIN left(o)
        BY <4>2 DEF Without
      <4>4. unlocks'[o] = left(o)
        BY <2>1, <4>1
      <4> QED
        BY <4>3, <4>4
    <3> QED
      BY <3>2, <3>3, <3>4
  <2>5. ASSUME NEW v \in DOMAIN delayed, delayed[v].at # height
        PROVE  v \in DOMAIN delayed' /\ delayed'[v] = delayed[v]
    BY <2>1, <2>5 DEF Without
  <2>6. ASSUME NEW o \in DOMAIN unlocks', NEW v \in DOMAIN unlocks'[o]
        PROVE  /\ v \in markets'
               /\ unlocks'[o][v].shares \in Nat
               /\ unlocks'[o][v].til \in Nat
               /\ unlocks'[o][v].til > height'
               /\ v \in DOMAIN delayed'
               /\ delayed'[v] = [owner |-> o, at |-> unlocks'[o][v].til]
    <3>1. o \in DOMAIN unlocks
      BY <2>3
    <3>2. /\ v \in DOMAIN unlocks[o] /\ unlocks'[o][v] = unlocks[o][v]
          /\ unlocks[o][v].til > height
      BY <2>4
    <3>3. /\ v \in markets
          /\ unlocks[o][v].shares \in Nat
          /\ unlocks[o][v].til \in Nat
          /\ v \in DOMAIN delayed
          /\ delayed[v] = [owner |-> o, at |-> unlocks[o][v].til]
      BY <2>2, <3>1, <3>2 DEF LocksKept
    <3>4. delayed[v].at # height
      BY <2>2, <3>2, <3>3
    <3> QED
      BY <2>1, <2>5, <3>2, <3>3, <3>4
  <2> QED
    BY <2>2, <2>3, <2>6 DEF LocksKept
<1>3. CASE BeginBlock
  <2>1. /\ ended /\ height' = height + 1 /\ ended' = FALSE
        /\ unlocks' = unlocks /\ delayed' = delayed /\ markets' = markets
        /\ height \in Nat /\ LocksKept
    BY <1>3 DEF BeginBlock, shares, MegavaultInv, VaultTypes
  <2>2. \A o \in DOMAIN unlocks : \A v \in DOMAIN unlocks[o] :
          unlocks[o][v].til \in Nat /\ unlocks[o][v].til > height
    BY <2>1 DEF LocksKept
  <2>3. \A o \in DOMAIN unlocks : \A v \in DOMAIN unlocks[o] :
          unlocks[o][v].til > height' \/ (unlocks[o][v].til = height' /\ ~ended')
    BY <2>1, <2>2
  <2> QED
    BY <2>1, <2>3 DEF LocksKept
<1>4. ASSUME NEW o \in Owners, NEW q \in Deposits, DepositToMegavault(o, q)
      PROVE  LocksKept'
  BY <1>4, LocksAlone DEF DepositToMegavault, vaults
<1>5. ASSUME NEW o \in Owners, NEW n, NEW from, NEW slip,
             WithdrawFromMegavault(o, n, from, slip)
      PROVE  LocksKept'
  BY <1>5, LocksAlone DEF WithdrawFromMegavault
<1>6. ASSUME NEW v \in Vaults,
             \/ CreateMarket(v)
             \/ \E s \in {"standby", "quoting", "deactivated"} : SetVaultParams(v, s)
             \/ \E q \in Deposits : AllocateToVault(v, q) \/ RetrieveFromVault(v, q)
             \/ \E e \in Equities : Trade(v, e)
      PROVE  LocksKept'
  BY <1>6, LocksAlone DEF CreateMarket, SetVaultParams, AllocateToVault, RetrieveFromVault,
                          Trade, shares
<1>7. ASSUME NEW q \in Deposits, Send(q)
      PROVE  LocksKept'
  BY <1>7, LocksAlone DEF Send, shares, vaults
<1>8. CASE UNCHANGED vars
  BY <1>8, LocksAlone DEF vars, shares, vaults
<1> QED
  BY <1>1, <1>2, <1>3, <1>4, <1>5, <1>6, <1>7, <1>8 DEF Next

-----------------------------------------------------------------------------
(* The shares add up.                                                      *)

\* One owner's shares change, and the total with them.
LEMMA TotalFollows ==
  ASSUME MegavaultInv, VaultTypes', NEW o \in Owners,
         \A p \in Owners \ {o} : SharesOf(p)' = SharesOf(p),
         totalShares' = totalShares - SharesOf(o) + SharesOf(o)'
  PROVE  totalShares' = SumOf([p \in Owners |-> SharesOf(p)'], Owners)
<1> DEFINE f == [p \in Owners |-> SharesOf(p)]
           g == [p \in Owners |-> SharesOf(p)']
<1>1. \A p \in Owners : f[p] \in Nat
  BY SharesType DEF MegavaultInv
<1>2. g[o] \in Nat
  BY DEF VaultTypes, SharesOf
<1>3. \A p \in Owners \ {o} : g[p] = f[p]
  OBVIOUS
<1>4. f[o] = SharesOf(o) /\ g[o] = SharesOf(o)'
  OBVIOUS
<1>5. totalShares = SumOf(f, Owners)
  BY DEF MegavaultInv, SharesCovered
<1> HIDE DEF f, g
<1>6. SumOf(g, Owners) = SumOf(f, Owners) - f[o] + g[o]
  BY <1>1, <1>2, <1>3, MegavaultAssumption, SumChange
<1>7. totalShares' = SumOf(g, Owners)
  BY <1>4, <1>5, <1>6
<1> QED
  BY <1>7 DEF g

\* A step that leaves the shares alone, and adds no lock.
LEMMA SharesAlone ==
  ASSUME MegavaultInv, UNCHANGED <<totalShares, ownerShares>>,
         \A o \in Owners : TotalLocked(o)' <= TotalLocked(o),
         \A o \in Owners : TotalLocked(o)' \in Nat
  PROVE  SharesCovered'
<1>1. \A o \in Owners : SharesOf(o)' = SharesOf(o)
  BY DEF SharesOf
<1>2. [o \in Owners |-> SharesOf(o)'] = [o \in Owners |-> SharesOf(o)]
  BY <1>1
<1>3. \A o \in Owners : /\ TotalLocked(o) \in Nat /\ SharesOf(o) \in Nat
                        /\ TotalLocked(o) <= SharesOf(o)
  BY SharesType, LockedType DEF MegavaultInv, SharesCovered
<1>4. \A o \in Owners : TotalLocked(o)' <= SharesOf(o)'
  BY <1>1, <1>3
<1>5. totalShares' = SumOf([o \in Owners |-> SharesOf(o)'], Owners)
  BY <1>2 DEF MegavaultInv, SharesCovered
<1> QED
  BY <1>4, <1>5 DEF SharesCovered

\* The shares of an owner after Mint.
LEMMA MintShares ==
  ASSUME NEW o \in Owners, NEW m, Mint(o, m)
  PROVE  /\ totalShares' = totalShares + m
         /\ SharesOf(o)' = SharesOf(o) + m
         /\ \A p \in Owners \ {o} : SharesOf(p)' = SharesOf(p)
BY DEF Mint, Put, SharesOf

LEMMA CoveredStep ==
  ASSUME MegavaultInv, [Next]_vars, VaultTypes', LocksKept'
  PROVE  SharesCovered'
<1>1. \A o \in Owners : /\ SharesOf(o) \in Nat /\ TotalLocked(o) \in Nat
                        /\ TotalLocked(o) <= SharesOf(o)
  BY SharesType, LockedType DEF MegavaultInv, SharesCovered
<1>2. totalShares \in Nat
  BY DEF MegavaultInv, VaultTypes
<1>3. ASSUME NEW o \in Owners, NEW q \in Deposits, DepositToMegavault(o, q)
      PROVE  SharesCovered'
  <2>1. PICK m : m = SharesToMint(q)
    OBVIOUS
  <2>2. m \in Nat
    BY <1>3, <2>1, MegavaultAssumption, MintedType DEF DepositToMegavault, MegavaultInv
  <2>3. /\ totalShares' = totalShares + m
        /\ SharesOf(o)' = SharesOf(o) + m
        /\ \A p \in Owners \ {o} : SharesOf(p)' = SharesOf(p)
    BY <1>3, <2>1, MintShares DEF DepositToMegavault
  <2>4. totalShares' = totalShares - SharesOf(o) + SharesOf(o)'
    BY <1>1, <1>2, <2>2, <2>3
  <2>5. totalShares' = SumOf([p \in Owners |-> SharesOf(p)'], Owners)
    BY <2>3, <2>4, TotalFollows
  <2>6. \A p \in Owners : TotalLocked(p)' = TotalLocked(p)
    BY <1>3 DEF DepositToMegavault, TotalLocked, UnlocksOf
  <2>7. \A p \in Owners : TotalLocked(p)' <= SharesOf(p)'
    BY <1>1, <2>2, <2>3, <2>6
  <2> QED
    BY <2>5, <2>7 DEF SharesCovered
<1>4. ASSUME NEW o \in Owners, NEW n \in 1 .. MaxShares, NEW from \in SUBSET Active,
             NEW slip \in [from -> Slippages], WithdrawFromMegavault(o, n, from, slip)
      PROVE  SharesCovered'
  <2>1. /\ Withdrawable(o, n)
        /\ totalShares' = totalShares - n
        /\ ownerShares' = IF SharesOf(o) = n THEN Without(ownerShares, {o})
                          ELSE Put(ownerShares, o, SharesOf(o) - n)
        /\ unlocks' = unlocks
    BY <1>4 DEF WithdrawFromMegavault
  <2>2. n \in Nat \ {0}
    BY MegavaultAssumption
  <2>3. n <= SharesOf(o)
    BY <2>1, <2>2, Held
  <2>4. SharesOf(o)' = SharesOf(o) - n
    BY <1>1, <2>1, <2>2, <2>3 DEF SharesOf, Without, Put
  <2>5. \A p \in Owners \ {o} : SharesOf(p)' = SharesOf(p)
    BY <2>1 DEF SharesOf, Without, Put
  <2>6. totalShares' = totalShares - SharesOf(o) + SharesOf(o)'
    BY <1>1, <1>2, <2>1, <2>2, <2>4
  <2>7. totalShares' = SumOf([p \in Owners |-> SharesOf(p)'], Owners)
    BY <2>5, <2>6, TotalFollows
  <2>8. \A p \in Owners : TotalLocked(p)' = TotalLocked(p)
    BY <2>1 DEF TotalLocked, UnlocksOf
  <2>9. TotalLocked(o) <= SharesOf(o)'
    BY <1>1, <2>1, <2>2, <2>4 DEF Withdrawable
  <2>10. \A p \in Owners : TotalLocked(p)' <= SharesOf(p)'
    BY <1>1, <2>5, <2>8, <2>9
  <2> QED
    BY <2>7, <2>10 DEF SharesCovered
<1>5. ASSUME NEW o \in Owners, NEW v \in Vaults, DepositToMegavaultForPML(o, v)
      PROVE  SharesCovered'
  <2>1. PICK m : m = SharesToMint(Listing.new + Listing.main)
    OBVIOUS
  <2>2. m \in Nat
    <3>1. Listing.new + Listing.main \in Nat
      BY MegavaultAssumption
    <3> QED
      BY <1>5, <2>1, <3>1, MintedType DEF DepositToMegavaultForPML, MegavaultInv
  <2>3. /\ totalShares' = totalShares + m
        /\ SharesOf(o)' = SharesOf(o) + m
        /\ \A p \in Owners \ {o} : SharesOf(p)' = SharesOf(p)
    <3>1. Mint(o, m)
      BY <1>5, <2>1 DEF DepositToMegavaultForPML
    <3> QED
      BY <3>1, MintShares
  <2>4. totalShares' = totalShares - SharesOf(o) + SharesOf(o)'
    BY <1>1, <1>2, <2>2, <2>3
  <2>5. totalShares' = SumOf([p \in Owners |-> SharesOf(p)'], Owners)
    BY <2>3, <2>4, TotalFollows
  <2>6. PICK til : unlocks' = Put(unlocks, o, Put(UnlocksOf(o), v, [shares |-> m, til |-> til]))
    BY <1>5, <2>1 DEF DepositToMegavaultForPML
  <2>7. v \notin DOMAIN UnlocksOf(o)
    BY <1>5 DEF DepositToMegavaultForPML, MegavaultInv, LocksKept, UnlocksOf, NoEntries
  <2>8. \A p \in Owners \ {o} : TotalLocked(p)' = TotalLocked(p)
    <3>1. \A p \in Owners \ {o} : UnlocksOf(p)' = UnlocksOf(p)
      BY <2>6 DEF UnlocksOf, Put
    <3> QED
      BY <3>1 DEF TotalLocked
  <2>9. TotalLocked(o)' = TotalLocked(o) + m
    <3> DEFINE old == UnlocksOf(o)
               new == Put(old, v, [shares |-> m, til |-> til])
               f == LockedShares(old)
               g == LockedShares(new)
               S == DOMAIN old
    <3>1. UnlocksOf(o)' = new
      BY <2>6 DEF UnlocksOf, Put
    <3>2. DOMAIN new = S \cup {v} /\ v \notin S
      BY <2>7 DEF Put
    <3>3. \A w \in S : g[w] = f[w]
      BY <3>2 DEF LockedShares, Put
    <3>4. g[v] = m
      BY <3>2 DEF LockedShares, Put
    <3>5. IsFiniteSet(S) /\ \A w \in S : f[w] \in Nat
      BY LockedType DEF MegavaultInv
    <3>6. TotalLocked(o) = SumOf(f, S) /\ TotalLocked(o)' = SumOf(g, S \cup {v})
      BY <3>1, <3>2 DEF TotalLocked
    <3> HIDE DEF f, g, S, old, new
    <3>7. SumOf(g, S \cup {v}) = SumOf(g, S) + g[v]
      BY <2>2, <3>2, <3>3, <3>4, <3>5, SumAdd
    <3>8. SumOf(g, S) = SumOf(f, S)
      BY <3>3, SumAgree
    <3> QED
      BY <3>4, <3>6, <3>7, <3>8
  <2>10. \A p \in Owners : TotalLocked(p)' <= SharesOf(p)'
    BY <1>1, <2>2, <2>3, <2>8, <2>9
  <2> QED
    BY <2>5, <2>10 DEF SharesCovered
<1>6. CASE EndBlock
  <2>1. /\ unlocks' = Unlocked /\ totalShares' = totalShares /\ ownerShares' = ownerShares
    BY <1>6 DEF EndBlock
  <2>2. ASSUME NEW o \in Owners
        PROVE  TotalLocked(o)' <= TotalLocked(o) /\ TotalLocked(o)' \in Nat
    <3> DEFINE old == UnlocksOf(o)
               new == UnlocksOf(o)'
               f == LockedShares(old)
               g == LockedShares(new)
               S == DOMAIN new
               T == DOMAIN old
    <3>1. S \subseteq T /\ \A w \in S : new[w] = old[w]
      <4>1. CASE o \in DOMAIN unlocks'
        BY <2>1, <4>1 DEF Unlocked, UnlocksOf, Without
      <4>2. CASE o \notin DOMAIN unlocks'
        BY <4>2 DEF UnlocksOf, NoEntries
      <4> QED
        BY <4>1, <4>2
    <3>2. \A w \in S : g[w] = f[w]
      BY <3>1 DEF LockedShares
    <3>3. IsFiniteSet(T) /\ \A w \in T : f[w] \in Nat
      BY LockedType DEF MegavaultInv
    <3>4. TotalLocked(o) = SumOf(f, T) /\ TotalLocked(o)' = SumOf(g, S)
      BY DEF TotalLocked
    <3> HIDE DEF f, g, S, T, old, new
    <3>5. \A w \in S : g[w] \in Nat /\ g[w] <= f[w]
      BY <3>1, <3>2, <3>3
    <3>6. SumOf(g, S) <= SumOf(f, T)
      BY <3>1, <3>3, <3>5, SumGrows
    <3>7. IsFiniteSet(S)
      BY <3>1, <3>3, FS_Subset
    <3>8. SumOf(g, S) \in Nat
      BY <3>5, <3>7, SumType
    <3> QED
      BY <3>4, <3>6, <3>8
  <2> QED
    BY <2>1, <2>2, SharesAlone
<1>7. CASE UNCHANGED <<totalShares, ownerShares, unlocks>>
  <2>1. \A o \in Owners : TotalLocked(o)' = TotalLocked(o)
    BY <1>7 DEF TotalLocked, UnlocksOf
  <2>2. \A o \in Owners : TotalLocked(o)' <= TotalLocked(o) /\ TotalLocked(o)' \in Nat
    BY <1>1, <2>1
  <2> QED
    BY <1>7, <2>2, SharesAlone
<1>8. ASSUME NEW v \in Vaults,
             \/ CreateMarket(v)
             \/ \E s \in {"standby", "quoting", "deactivated"} : SetVaultParams(v, s)
             \/ \E q \in Deposits : AllocateToVault(v, q) \/ RetrieveFromVault(v, q)
             \/ \E e \in Equities : Trade(v, e)
      PROVE  SharesCovered'
  BY <1>7, <1>8 DEF CreateMarket, SetVaultParams, AllocateToVault, RetrieveFromVault,
                    Trade, shares
<1>9. ASSUME NEW q \in Deposits, Send(q)
      PROVE  SharesCovered'
  BY <1>7, <1>9 DEF Send, shares
<1>10. CASE BeginBlock \/ UNCHANGED vars
  BY <1>7, <1>10 DEF BeginBlock, vars, shares
<1> QED
  BY <1>3, <1>4, <1>5, <1>6, <1>8, <1>9, <1>10 DEF Next

LEMMA MegavaultStarts == Init => MegavaultInv
<1> SUFFICES ASSUME Init PROVE MegavaultInv
  OBVIOUS
<1>1. VaultTypes
  BY DEF Init, VaultTypes, NoEntries
<1>2. LocksKept
  BY DEF Init, LocksKept, NoEntries
<1>3. \A o \in Owners : SharesOf(o) = 0 /\ DOMAIN UnlocksOf(o) = {}
  BY DEF Init, SharesOf, UnlocksOf, NoEntries
<1>4. \A o \in Owners : TotalLocked(o) = 0
  BY <1>3, SumEmpty DEF TotalLocked
<1>5. SumOf([o \in Owners |-> SharesOf(o)], Owners) = 0
  <2> DEFINE f == [o \in Owners |-> SharesOf(o)]
  <2>1. \A o \in Owners : f[o] = 0
    BY <1>3
  <2> HIDE DEF f
  <2>2. SumOf(f, Owners) = 0
    BY <2>1, SumZero
  <2> QED
    BY <2>2 DEF f
<1>6. SharesCovered
  BY <1>3, <1>4, <1>5 DEF SharesCovered, Init
<1> QED
  BY <1>1, <1>2, <1>6 DEF MegavaultInv

\* The invariant of the megavault: types, locks with their messages, and shares
\* that add up, through every operation of x/vault and x/listing on it.
LEMMA MegavaultInvHolds == Spec => []MegavaultInv
<1>1. MegavaultInv /\ [Next]_vars => MegavaultInv'
  BY TypesKept, LocksStep, CoveredStep DEF MegavaultInv
<1> QED
  BY <1>1, MegavaultStarts, PTL DEF Spec

\* The shares of the owners are the total, and nobody can withdraw a share that
\* is locked: MintShares, RedeemFromMainAndSubVaults, LockShares and
\* UnlockShares keep the three stores in step, whatever the constants are.
THEOREM SharesAddUp == Spec => []SharesCovered
<1>1. MegavaultInv => SharesCovered
  BY DEF MegavaultInv
<1> QED
  BY <1>1, MegavaultInvHolds, PTL

\* Every lock has its delayed MsgUnlockShares still to come, at the height it
\* is due, so that no share stays locked.
THEOREM EveryLockScheduled == Spec => []UnlockScheduled
<1>1. MegavaultInv => UnlockScheduled
  BY DEF MegavaultInv, LocksKept, UnlockScheduled
<1> QED
  BY <1>1, MegavaultInvHolds, PTL

-----------------------------------------------------------------------------
(* The price of a share.                                                   *)

\* What a deposit adds to the equity and to the shares.
LEMMA MintKeepsPrice ==
  ASSUME NEW E \in Nat \ {0}, NEW T \in Nat \ {0}, NEW q \in Nat, NEW m \in Nat, m * E <= q * T
  PROVE  (E + q) * T >= E * (T + m)
<1>1. (E + q) * T = E * T + q * T /\ E * (T + m) = E * T + m * E
  OBVIOUS
<1>2. E * T \in Nat /\ q * T \in Nat /\ m * E \in Nat
  OBVIOUS
<1> QED
  BY <1>1, <1>2

\* The shares minted for a deposit are worth at most the deposit.
LEMMA MintedWorth ==
  ASSUME VaultTypes, NEW q \in Nat, CanMint(q), totalShares > 0
  PROVE  /\ MegavaultEquity \in Nat \ {0}
         /\ SharesToMint(q) \in Nat
         /\ SharesToMint(q) * MegavaultEquity <= q * totalShares
<1>1. MegavaultEquity \in Nat \ {0} /\ totalShares \in Nat \ {0}
  BY EquityType DEF CanMint, VaultTypes
<1>2. q * totalShares \in Int
  BY <1>1
<1>3. SharesToMint(q) = (q * totalShares) \div MegavaultEquity
  BY <1>1 DEF SharesToMint, ProportionalShares
<1> QED
  BY <1>1, <1>2, <1>3, MintedType, FloorBounds

\* What a withdrawal takes of the equity.
LEMMA RedeemKeepsPrice ==
  ASSUME NEW E \in Int, NEW T \in Nat \ {0}, NEW n \in Nat, NEW r \in Int, r * T <= E * n
  PROVE  (E - r) * T >= E * (T - n)
<1>1. (E - r) * T = E * T - r * T /\ E * (T - n) = E * T - E * n
  OBVIOUS
<1>2. E * T \in Int /\ r * T \in Int /\ E * n \in Int
  OBVIOUS
<1> QED
  BY <1>1, <1>2

\* The equity after a deposit, a listing and a withdrawal.
LEMMA EquityAfterDeposit ==
  ASSUME MegavaultInv, NEW o \in Owners, NEW q \in Deposits, DepositToMegavault(o, q)
  PROVE  MegavaultEquity' = MegavaultEquity + q
<1>1. main' = main + q /\ status' = status /\ equity' = equity
  BY DEF DepositToMegavault, vaults
<1>2. Active' = Active
  BY <1>1 DEF Active
<1>3. SumOf(equity, {v \in Active : equity[v] > 0})' = SumOf(equity, {v \in Active : equity[v] > 0})
  BY <1>1, <1>2
<1>4. SumOf(equity, {v \in Active : equity[v] > 0}) \in Nat /\ main \in Int /\ q \in Nat
  BY EquityType, MegavaultAssumption DEF MegavaultInv, Funded, VaultTypes
<1> QED
  BY <1>1, <1>3, <1>4 DEF MegavaultEquity

LEMMA EquityAfterListing ==
  ASSUME MegavaultInv, NEW o \in Owners, NEW v \in Vaults, DepositToMegavaultForPML(o, v)
  PROVE  MegavaultEquity' = MegavaultEquity + (Listing.new + Listing.main)
<1>1. /\ v \notin markets /\ main' = main + Listing.main
      /\ equity' = [equity EXCEPT ![v] = @ + Listing.new]
      /\ status' = Put(status, v, "quoting")
  BY DEF DepositToMegavaultForPML
<1>2. /\ equity \in [Vaults -> Int] /\ equity[v] = 0 /\ DOMAIN status \subseteq Vaults
      /\ main \in Int
  BY <1>1 DEF MegavaultInv, VaultTypes
<1>3. Listing.new \in Nat \ {0} /\ Listing.main \in Nat
  BY MegavaultAssumption
<1>4. equity'[v] = Listing.new /\ \A w \in Vaults \ {v} : equity'[w] = equity[w]
  BY <1>1, <1>2, <1>3
<1>5. v \in Active' /\ Active' \ {v} = Active \ {v} /\ Active \subseteq Vaults
  BY <1>1, <1>2 DEF Active, Put
<1>6. v \notin Funded /\ Funded' = Funded \cup {v}
  BY <1>2, <1>3, <1>4, <1>5 DEF Funded
<1>7. IsFiniteSet(Funded) /\ Funded \subseteq Vaults /\ \A w \in Funded : equity[w] \in Nat
  <2>1. Funded \subseteq Active
    BY DEF Funded
  <2>2. IsFiniteSet(Funded)
    BY <2>1, EquityType, FS_Subset DEF MegavaultInv
  <2> QED
    BY <1>2, <1>5, <2>1, <2>2 DEF Funded
<1>8. \A w \in Funded : equity'[w] = equity[w]
  BY <1>4, <1>6, <1>7
<1>9. SumOf(equity', Funded) = SumOf(equity, Funded)
  BY <1>8, SumAgree
<1>10. SumOf(equity', Funded \cup {v}) = SumOf(equity', Funded) + equity'[v]
  BY <1>3, <1>4, <1>6, <1>7, <1>8, SumAdd
<1>11. MegavaultEquity' = main' + SumOf(equity', Funded \cup {v})
  BY <1>6 DEF MegavaultEquity, Funded
<1>12. MegavaultEquity = main + SumOf(equity, Funded) /\ SumOf(equity, Funded) \in Nat
  BY EquityType DEF MegavaultInv
<1> QED
  BY <1>1, <1>2, <1>3, <1>4, <1>9, <1>10, <1>11, <1>12

\* A withdrawal takes at most the part of the shares it burns.
LEMMA EquityAfterWithdrawal ==
  ASSUME MegavaultInv, NEW o \in Owners, NEW n \in 1 .. MaxShares,
         NEW from \in SUBSET Active, NEW slip \in [from -> Slippages],
         WithdrawFromMegavault(o, n, from, slip)
  PROVE  \E r \in Int : /\ MegavaultEquity' = MegavaultEquity - r
                        /\ r * totalShares <= MegavaultEquity * n
<1>1. n \in Nat \ {0} /\ n <= totalShares /\ totalShares \in Nat \ {0}
  <2>1. n \in Nat \ {0} /\ Withdrawable(o, n)
    BY MegavaultAssumption DEF WithdrawFromMegavault
  <2> QED
    BY <2>1, Held
<1>2. PICK paid : paid = PaidBy(n, from, slip)
  OBVIOUS
<1>3. PICK own : own = MainPart(n)
  OBVIOUS
<1>4. /\ IsFiniteSet(from) /\ from \subseteq Funded
      /\ \A v \in from : paid[v] \in Nat /\ paid[v] * totalShares <= equity[v] * n
      /\ SumOf(paid, from) \in Nat
      /\ own \in Int
      /\ own * totalShares <= main * n
  BY <1>2, <1>3, PaidFrom
<1>5. /\ main' = main + SumOf(paid, from) - (own + SumOf(paid, from))
      /\ equity' = [v \in Vaults |-> IF v \in from THEN equity[v] - paid[v] ELSE equity[v]]
      /\ status' = status
  BY <1>2, <1>3 DEF WithdrawFromMegavault, PaidBy, MainPart
<1>6. /\ main \in Int /\ Funded \subseteq Vaults /\ IsFiniteSet(Funded)
      /\ \A v \in Funded : equity[v] \in Nat
  <2>1. Funded \subseteq Active
    BY DEF Funded
  <2>2. IsFiniteSet(Funded) /\ Funded \subseteq Vaults
    BY <2>1, EquityType, FS_Subset DEF MegavaultInv
  <2> QED
    BY <2>2 DEF Funded, MegavaultInv, VaultTypes
<1> DEFINE taken == [v \in Funded |-> IF v \in from THEN paid[v] ELSE 0]
<1>7. \A v \in Funded : /\ taken[v] \in Nat
                        /\ taken[v] * totalShares <= equity[v] * n
                        /\ taken[v] <= equity[v]
  <2> SUFFICES ASSUME NEW v \in Funded
               PROVE  /\ taken[v] \in Nat
                      /\ taken[v] * totalShares <= equity[v] * n
                      /\ taken[v] <= equity[v]
    OBVIOUS
  <2>1. taken[v] \in Nat /\ equity[v] \in Nat
    BY <1>4, <1>6
  <2>2. taken[v] * totalShares <= equity[v] * n
    <3>1. CASE v \in from
      BY <1>4, <3>1
    <3>2. CASE v \notin from
      <4>1. taken[v] = 0
        BY <3>2
      <4>2. 0 * totalShares = 0 /\ 0 <= equity[v] * n
        BY <1>1, <2>1
      <4> QED
        BY <4>1, <4>2
    <3> QED
      BY <3>1, <3>2
  <2>3. \A e, p \in Nat : \A t, k \in Nat \ {0} : p * t <= e * k /\ k <= t => p <= e
    <3> SUFFICES ASSUME NEW e \in Nat, NEW p \in Nat, NEW t \in Nat \ {0}, NEW k \in Nat \ {0},
                        p * t <= e * k, k <= t, p >= e + 1
                 PROVE  FALSE
      OBVIOUS
    <3>1. p * t >= (e + 1) * t
      OBVIOUS
    <3>2. (e + 1) * t = e * t + t /\ e * t >= e * k
      OBVIOUS
    <3>3. p * t \in Nat /\ e * t \in Nat /\ e * k \in Nat /\ (e + 1) * t \in Nat
      OBVIOUS
    <3> QED
      BY <3>1, <3>2, <3>3
  <2> QED
    BY <1>1, <2>1, <2>2, <2>3
<1>8. SumOf(taken, Funded) = SumOf(paid, from)
  <2>1. \A v \in from : taken[v] = paid[v]
    BY <1>4
  <2>2. \A v \in Funded \ from : taken[v] = 0
    OBVIOUS
  <2> HIDE DEF taken
  <2>3. SumOf(taken, Funded) = SumOf(taken, from)
    BY <1>4, <2>2, SumDropsZeros
  <2>4. SumOf(taken, from) = SumOf(paid, from)
    BY <2>1, SumAgree
  <2> QED
    BY <2>3, <2>4
<1>9. \A v \in Funded : equity'[v] \in Nat /\ equity[v] = equity'[v] + taken[v]
  <2> SUFFICES ASSUME NEW v \in Funded
               PROVE  equity'[v] \in Nat /\ equity[v] = equity'[v] + taken[v]
    OBVIOUS
  <2>1. equity'[v] = equity[v] - taken[v]
    BY <1>5, <1>6
  <2>2. equity[v] \in Nat /\ taken[v] \in Nat /\ taken[v] <= equity[v]
    BY <1>6, <1>7
  <2> HIDE DEF taken
  <2> QED
    BY <2>1, <2>2
<1>10. Funded' \subseteq Funded /\ \A v \in Funded \ Funded' : equity'[v] = 0
  <2>1. Active' = Active
    BY <1>5 DEF Active
  <2>2. Active \subseteq Vaults
    BY DEF Active, MegavaultInv, VaultTypes
  <2>3. \A v \in Active \ Funded : equity'[v] = equity[v]
    BY <1>4, <1>5, <2>2
  <2>4. \A v \in Active \ Funded : ~(equity'[v] > 0)
    BY <2>3 DEF Funded
  <2>5. \A v \in Funded : v \in Active
    BY DEF Funded
  <2>6. Funded' = {v \in Active : equity'[v] > 0}
    BY <2>1 DEF Funded
  <2>7. \A v \in Funded \ Funded' : equity'[v] \in Nat /\ ~(equity'[v] > 0)
    BY <1>9, <2>5, <2>6
  <2> QED
    BY <2>4, <2>6, <2>7
<1> HIDE DEF taken
<1>11. SumOf(equity', Funded) = SumOf(equity', Funded')
  BY <1>10, SumDropsZeros
<1>12. SumOf(equity, Funded) = SumOf(equity', Funded) + SumOf(taken, Funded)
  BY <1>6, <1>7, <1>9, SumPlus
<1>13. SumOf(taken, Funded) * totalShares <= SumOf(equity, Funded) * n
  BY <1>1, <1>6, <1>7, SumScaled
<1>14. MegavaultEquity' = main' + SumOf(equity', Funded')
  BY DEF MegavaultEquity, Funded
<1>15. MegavaultEquity = main + SumOf(equity, Funded) /\ SumOf(equity, Funded) \in Nat
  BY EquityType DEF MegavaultInv
<1>16. SumOf(taken, Funded) \in Nat /\ SumOf(equity', Funded) \in Nat
  BY <1>6, <1>7, <1>9, SumType
<1> DEFINE P == SumOf(taken, Funded)
           F == SumOf(equity, Funded)
           r == own + P
<1>17. MegavaultEquity' = MegavaultEquity - r
  BY <1>4, <1>5, <1>6, <1>8, <1>11, <1>12, <1>14, <1>15, <1>16
<1>18. r * totalShares <= MegavaultEquity * n
  <2>1. own \in Int /\ P \in Nat /\ F \in Nat /\ main \in Int
    BY <1>4, <1>6, <1>15, <1>16
  <2>2. own * totalShares <= main * n /\ P * totalShares <= F * n
    BY <1>4, <1>13
  <2> HIDE DEF P, F
  <2>3. \A i, j, k, l \in Int : \A t, m \in Nat :
          i * t <= k * m /\ j * t <= l * m => (i + j) * t <= (k + l) * m
    OBVIOUS
  <2>4. (own + P) * totalShares <= (main + F) * n
    BY <1>1, <2>1, <2>2, <2>3
  <2>5. MegavaultEquity = main + F
    BY <1>15 DEF F
  <2> QED
    BY <2>4, <2>5
<1>19. r \in Int
  BY <1>4, <1>16
<1> QED
  BY <1>17, <1>18, <1>19

LEMMA PriceStep ==
  ASSUME MegavaultInv, [Next]_vars, totalShares > 0, totalShares' # totalShares
  PROVE  MegavaultEquity' * totalShares >= MegavaultEquity * totalShares'
<1>1. totalShares \in Nat \ {0} /\ MegavaultEquity \in Int
  BY EquityType DEF MegavaultInv, VaultTypes
<1>2. ASSUME NEW o \in Owners, NEW q \in Deposits, DepositToMegavault(o, q)
      PROVE  MegavaultEquity' * totalShares >= MegavaultEquity * totalShares'
  <2>1. q \in Nat /\ CanMint(q)
    BY <1>2, MegavaultAssumption DEF DepositToMegavault
  <2>2. /\ MegavaultEquity \in Nat \ {0} /\ SharesToMint(q) \in Nat
        /\ SharesToMint(q) * MegavaultEquity <= q * totalShares
    BY <2>1, MintedWorth DEF MegavaultInv
  <2>3. totalShares' = totalShares + SharesToMint(q)
    BY <1>2 DEF DepositToMegavault, Mint
  <2>4. MegavaultEquity' = MegavaultEquity + q
    BY <1>2, EquityAfterDeposit
  <2> QED
    BY <1>1, <2>1, <2>2, <2>3, <2>4, MintKeepsPrice
<1>3. ASSUME NEW o \in Owners, NEW v \in Vaults, DepositToMegavaultForPML(o, v)
      PROVE  MegavaultEquity' * totalShares >= MegavaultEquity * totalShares'
  <2>1. PICK q : q = Listing.new + Listing.main
    OBVIOUS
  <2>2. q \in Nat /\ CanMint(q)
    <3>1. Listing.new + Listing.main \in Nat
      BY MegavaultAssumption
    <3> QED
      BY <1>3, <2>1, <3>1 DEF DepositToMegavaultForPML
  <2>3. /\ MegavaultEquity \in Nat \ {0} /\ SharesToMint(q) \in Nat
        /\ SharesToMint(q) * MegavaultEquity <= q * totalShares
    BY <2>2, MintedWorth DEF MegavaultInv
  <2>4. totalShares' = totalShares + SharesToMint(q)
    BY <1>3, <2>1 DEF DepositToMegavaultForPML, Mint
  <2>5. MegavaultEquity' = MegavaultEquity + q
    BY <1>3, <2>1, EquityAfterListing
  <2> QED
    BY <1>1, <2>2, <2>3, <2>4, <2>5, MintKeepsPrice
<1>4. ASSUME NEW o \in Owners, NEW n \in 1 .. MaxShares, NEW from \in SUBSET Active,
             NEW slip \in [from -> Slippages], WithdrawFromMegavault(o, n, from, slip)
      PROVE  MegavaultEquity' * totalShares >= MegavaultEquity * totalShares'
  <2>1. PICK r \in Int : /\ MegavaultEquity' = MegavaultEquity - r
                         /\ r * totalShares <= MegavaultEquity * n
    BY <1>4, EquityAfterWithdrawal
  <2>2. totalShares' = totalShares - n /\ n \in Nat
    BY <1>4 DEF WithdrawFromMegavault
  <2> QED
    BY <1>1, <2>1, <2>2, RedeemKeepsPrice
<1>5. ASSUME NEW v \in Vaults,
             \/ CreateMarket(v)
             \/ \E s \in {"standby", "quoting", "deactivated"} : SetVaultParams(v, s)
             \/ \E q \in Deposits : AllocateToVault(v, q) \/ RetrieveFromVault(v, q)
             \/ \E e \in Equities : Trade(v, e)
      PROVE  FALSE
  BY <1>5 DEF CreateMarket, SetVaultParams, AllocateToVault, RetrieveFromVault, Trade, shares
<1>6. ASSUME NEW q \in Deposits, Send(q)
      PROVE  FALSE
  BY <1>6 DEF Send, shares
<1>7. CASE EndBlock \/ BeginBlock \/ UNCHANGED vars
  BY <1>7 DEF EndBlock, BeginBlock, vars, shares
<1> QED
  BY <1>2, <1>3, <1>4, <1>5, <1>6, <1>7 DEF Next

\* No deposit, listing or withdrawal lowers what a share of the others is
\* worth: ProportionalShares and every part that is redeemed round down, and a
\* vault is charged its slippage, for every list of vaults and equities.
THEOREM PriceNeverDiluted == Spec => SharePriceKept
<1>1. MegavaultInv /\ [Next]_vars =>
        [totalShares > 0 /\ totalShares' # totalShares =>
           MegavaultEquity' * totalShares >= MegavaultEquity * totalShares']_vars
  BY PriceStep
<1> QED
  BY <1>1, MegavaultInvHolds, PTL DEF Spec, SharePriceKept

-----------------------------------------------------------------------------
(* The orders of a vault.                                                  *)

\* A behaviour of the whole is one of the vault's orders.
LEMMA PartsOrders == PartsSpec => Orders!Spec
<1>1. PartsInit => Orders!Init
  BY DEF PartsInit
<1>2. [PartsNext]_<<part, vars, orders, limits, limiter>> => [Orders!Next]_(Orders!vars)
  <2> SUFFICES ASSUME [PartsNext]_<<part, vars, orders, limits, limiter>>
               PROVE  Orders!Next \/ UNCHANGED orders
    BY DEF orders, Orders!vars
  <2> QED
    BY DEF PartsNext
<1> QED
  BY <1>1, <1>2, PTL DEF PartsSpec, Orders!Spec

\* A refresh gets a list of orders whose ids are client ids.
IsQuotes(qs) ==
  /\ Len(qs) \in Nat /\ DOMAIN qs = 1 .. Len(qs)
  /\ \A k \in 1 .. Len(qs) : qs[k].id \in Orders!Ids

\* Any order of these can be cancelled with the parameters in force.
Cancellable(rests) ==
  \A id \in DOMAIN rests : rests[id].left <= expiration

\* An order is as one of the first k slots wants it, and listed there.
AsWanted(qs, rests, ids, k, id) ==
  \E j \in 1 .. k :
    /\ ids[j] = id
    /\ rests[id].side = qs[j].side /\ rests[id].price = qs[j].price

\* The refresh finds no order out of reach, and no earlier one left any.
Sure == ~stranded /\ ~Orders!OutOfReach

\* What the loop has done after k slots: the rest are of slots to come.
SlotsDone(qs, acc, k) ==
  /\ acc.ids \in Seq(Orders!Ids) /\ Len(acc.ids) = k
  /\ \A id \in DOMAIN acc.clob.resting : acc.clob.resting[id].left \in Int
  /\ Sure =>
       /\ Cancellable(acc.clob.resting)
       /\ DOMAIN acc.clob.resting # {} => Orders!InTimeWindow
       /\ \A id \in DOMAIN acc.clob.resting :
            \/ AsWanted(qs, acc.clob.resting, acc.ids, k, id)
            \/ \E j \in k + 1 .. Len(recent) : recent[j] = id

\* The types that the orders of a vault need.
VaultTypesKept ==
  /\ layers \in 1 .. MaxLayers /\ expiration \in Expirations
  /\ recent \in Seq(Orders!Ids)
  /\ \A id \in DOMAIN resting : resting[id].left \in Int

\* As long as every order can be cancelled every order is listed, an idle vault
\* has none, and a refresh leaves none that is not wanted.
QuotesInv ==
  /\ VaultTypesKept
  /\ ~stranded =>
       /\ Cancellable(resting)
       /\ \A id \in DOMAIN resting : \E k \in DOMAIN recent : recent[k] = id
       /\ quoting \in Orders!Idle => DOMAIN resting = {}
  /\ Orders!NoStaleQuotes

\* A set of numbers has a least one.
LEMMA LeastNat ==
  ASSUME NEW S \in SUBSET Nat, S # {}
  PROVE  \E n \in S : \A m \in S : n <= m
<1> DEFINE R == OpToRel(<, Nat)
<1>1. IsWellFoundedOn(R, Nat)
  BY NatLessThanWellFounded
<1>2. R = {ss \in Nat \X Nat : ss[1] < ss[2]}
  BY DEF OpToRel
<1> HIDE DEF R
<1>3. \E x \in S : \A y \in S : ~(<<y, x>> \in R)
  BY <1>1, WFMin
<1>4. \A x, y \in S : y < x => <<y, x>> \in R
  BY <1>2
<1>5. PICK n \in S : \A m \in S : ~(m < n)
  BY <1>3, <1>4
<1>6. \A m \in S : n <= m
  BY <1>5
<1> QED
  BY <1>6

\* The loop is defined: an outcome after no slot, and after one slot more.
LEMMA LoopRuns ==
  ASSUME NEW qs, Len(qs) \in Nat
  PROVE  /\ Orders!Refreshed(qs)[0] = [clob |-> Orders!Clob, ids |-> <<>>]
         /\ \A k \in 1 .. Len(qs) :
              Orders!Refreshed(qs)[k] =
                Orders!RefreshSlot(Orders!Refreshed(qs)[k - 1], k, qs[k])
<1> DEFINE base == [clob |-> Orders!Clob, ids |-> <<>>]
           Runs(g, n) == g = [k \in 0 .. n |->
                                IF k = 0 THEN base
                                ELSE Orders!RefreshSlot(g[k - 1], k, qs[k])]
           Bad == {n \in Nat : ~\E g : Runs(g, n)}
<1>1. Bad = {}
  <2> SUFFICES ASSUME Bad # {} PROVE FALSE
    OBVIOUS
  <2>1. PICK n \in Bad : \A m \in Bad : n <= m
    BY LeastNat
  <2>2. n \in Nat /\ ~\E g : Runs(g, n)
    BY <2>1
  <2>3. n # 0
    <3>1. Runs([k \in 0 .. 0 |-> base], 0)
      OBVIOUS
    <3> QED
      BY <2>2, <3>1
  <2>4. PICK g : Runs(g, n - 1)
    <3>1. n - 1 \in Nat /\ ~(n <= n - 1)
      BY <2>2, <2>3
    <3> QED
      BY <2>1, <3>1
  <2> DEFINE h == [k \in 0 .. n |-> IF k = n THEN Orders!RefreshSlot(g[n - 1], n, qs[n])
                                    ELSE g[k]]
  <2>5. Runs(h, n)
    <3> SUFFICES ASSUME NEW k \in 0 .. n
                 PROVE  h[k] = IF k = 0 THEN base ELSE Orders!RefreshSlot(h[k - 1], k, qs[k])
      OBVIOUS
    <3>1. k # 0 => k - 1 \in 0 .. n - 1 /\ k - 1 # n /\ h[k - 1] = g[k - 1]
      BY <2>2
    <3>2. CASE k = n
      BY <2>2, <2>3, <3>1, <3>2
    <3>3. CASE k # n
      <4>1. k \in 0 .. n - 1 /\ h[k] = g[k]
        BY <2>2, <3>3
      <4>2. g[k] = IF k = 0 THEN base ELSE Orders!RefreshSlot(g[k - 1], k, qs[k])
        BY <2>4, <4>1
      <4> QED
        BY <3>1, <4>1, <4>2
    <3> QED
      BY <3>2, <3>3
  <2> HIDE DEF h, Runs
  <2> QED
    BY <2>2, <2>5
<1>2. \E g : Runs(g, Len(qs))
  BY <1>1
<1>3. Orders!Refreshed(qs) = CHOOSE g : Runs(g, Len(qs))
  BY DEF Orders!Refreshed
<1> HIDE DEF Runs, base
<1>4. Runs(Orders!Refreshed(qs), Len(qs))
  BY <1>2, <1>3, Zenon
<1>5. PICK f : f = Orders!Refreshed(qs)
  OBVIOUS
<1>6. f = [k \in 0 .. Len(qs) |->
             IF k = 0 THEN base ELSE Orders!RefreshSlot(f[k - 1], k, qs[k])]
  BY <1>4, <1>5 DEF Runs
<1>7. f[0] = base /\ \A k \in 1 .. Len(qs) : f[k] = Orders!RefreshSlot(f[k - 1], k, qs[k])
  <2>1. 0 \in 0 .. Len(qs) /\ \A k \in 1 .. Len(qs) : k \in 0 .. Len(qs) /\ k # 0
    OBVIOUS
  <2> QED
    BY <1>6, <2>1
<1> QED
  BY <1>5, <1>7 DEF base

\* What an order placed or cancelled does to the orders in state.
LEMMA PlacedType ==
  ASSUME NEW clob, NEW id, NEW order
  PROVE  /\ \A i \in DOMAIN clob.resting :
              /\ i \in DOMAIN Orders!Placed(clob, id, order).resting
              /\ Orders!Placed(clob, id, order).resting[i] = clob.resting[i]
         /\ \A i \in DOMAIN Orders!Placed(clob, id, order).resting :
              \/ i \in DOMAIN clob.resting
              \/ /\ i = id /\ Orders!InTimeWindow
                 /\ Orders!Placed(clob, id, order).resting[i] =
                      [side |-> order.side, price |-> order.price, left |-> expiration]
BY DEF Orders!Placed

LEMMA CancelledType ==
  ASSUME NEW clob, NEW ids
  PROVE  /\ \A i \in DOMAIN Orders!Cancelled(clob, ids).resting :
              /\ i \in DOMAIN clob.resting
              /\ Orders!Cancelled(clob, ids).resting[i] = clob.resting[i]
              /\ i \in ids => ~Orders!MayCancel(clob, i)
         /\ \A i \in DOMAIN clob.resting :
              i \notin ids => i \in DOMAIN Orders!Cancelled(clob, ids).resting
BY DEF Orders!Cancelled

\* An order in state after a slot was there before, and is the slot's own only if
\* it could not be cancelled or is as wanted; or the slot placed it.
SlotDid(acc, k, order, id, clob, i) ==
  \/ /\ i \in DOMAIN acc.clob.resting /\ clob.resting[i] = acc.clob.resting[i]
     /\ k <= Len(recent) /\ i = recent[k] =>
          \/ ~Orders!MayCancel(acc.clob, i)
          \/ /\ i = id
             /\ clob.resting[i].side = order.side /\ clob.resting[i].price = order.price
  \/ /\ i = id /\ Orders!InTimeWindow
     /\ clob.resting[i] = [side |-> order.side, price |-> order.price, left |-> expiration]

\* One slot of the loop: it lists an id, its old order is kept only as wanted, and
\* what it places is as wanted.
LEMMA SlotOutcome ==
  ASSUME NEW acc, NEW k \in Nat, NEW order, recent \in Seq(Orders!Ids), order.id \in Orders!Ids,
         k >= 1
  PROVE  \E id \in Orders!Ids : \E clob :
           /\ Orders!RefreshSlot(acc, k, order) = [clob |-> clob, ids |-> Append(acc.ids, id)]
           /\ \A i \in DOMAIN clob.resting : SlotDid(acc, k, order, id, clob, i)
<1> DEFINE id == Orders!IdFor(acc, k, order)
           old == k <= Len(recent) /\ recent[k] \in DOMAIN acc.clob.resting
           clob == IF k <= Len(recent) /\ id = recent[k] /\ old THEN acc.clob
                   ELSE IF ~old THEN Orders!Placed(acc.clob, id, order)
                   ELSE IF ~Orders!MayCancel(acc.clob, recent[k]) THEN acc.clob
                   ELSE Orders!Placed(Orders!Cancelled(acc.clob, {recent[k]}), id, order)
<1>1. Orders!RefreshSlot(acc, k, order) = [clob |-> clob, ids |-> Append(acc.ids, id)]
  BY DEF Orders!RefreshSlot
<1>2. k <= Len(recent) => recent[k] \in Orders!Ids
  OBVIOUS
<1>3. \A i \in Orders!Ids : Orders!Flip(i) \in Orders!Ids /\ Orders!Flip(i) # i
  BY DEF Orders!Ids, Orders!Flip
<1>4. id \in Orders!Ids
  BY <1>2, <1>3 DEF Orders!IdFor
<1>5. old /\ id = recent[k] =>
        /\ acc.clob.resting[recent[k]].side = order.side
        /\ acc.clob.resting[recent[k]].price = order.price
  BY <1>2, <1>3 DEF Orders!IdFor
<1> HIDE DEF id
<1>6. ASSUME NEW i \in DOMAIN clob.resting
      PROVE  SlotDid(acc, k, order, id, clob, i)
  <2>1. CASE k <= Len(recent) /\ id = recent[k] /\ old
    <3>1. clob = acc.clob
      BY <2>1
    <3> QED
      BY <1>5, <1>6, <2>1, <3>1 DEF SlotDid
  <2>2. CASE ~old
    <3>1. clob = Orders!Placed(acc.clob, id, order)
      BY <2>2
    <3> HIDE DEF clob
    <3> QED
      BY <1>6, <2>2, <3>1, PlacedType DEF SlotDid
  <2>3. CASE old /\ id # recent[k] /\ ~Orders!MayCancel(acc.clob, recent[k])
    <3>1. clob = acc.clob
      BY <2>3
    <3> QED
      BY <1>6, <2>3, <3>1 DEF SlotDid
  <2>4. CASE old /\ id # recent[k] /\ Orders!MayCancel(acc.clob, recent[k])
    <3>1. clob = Orders!Placed(Orders!Cancelled(acc.clob, {recent[k]}), id, order)
      BY <2>4
    <3> HIDE DEF clob
    <3> DEFINE c == Orders!Cancelled(acc.clob, {recent[k]})
    <3>2. \A j \in DOMAIN c.resting :
            j \in DOMAIN acc.clob.resting /\ c.resting[j] = acc.clob.resting[j] /\ j # recent[k]
      BY <2>4, CancelledType
    <3> HIDE DEF c
    <3>3. \/ i \in DOMAIN c.resting /\ clob.resting[i] = c.resting[i]
          \/ /\ i = id /\ Orders!InTimeWindow
             /\ clob.resting[i] =
                  [side |-> order.side, price |-> order.price, left |-> expiration]
      BY <1>6, <3>1, PlacedType DEF c
    <3> QED
      BY <3>2, <3>3 DEF SlotDid
  <2> QED
    BY <2>1, <2>2, <2>3, <2>4
<1> HIDE DEF clob
<1> QED
  BY <1>1, <1>4, <1>6

\* One more slot.
LEMMA SlotStep ==
  ASSUME NEW qs, IsQuotes(qs), recent \in Seq(Orders!Ids), expiration \in Int,
         NEW k \in 1 .. Len(qs), NEW acc, SlotsDone(qs, acc, k - 1)
  PROVE  SlotsDone(qs, Orders!RefreshSlot(acc, k, qs[k]), k)
<1> DEFINE order == qs[k]
<1>1. /\ order.id \in Orders!Ids /\ k \in Nat /\ k >= 1 /\ Len(recent) \in Nat
      /\ k - 1 \in Nat /\ k - 1 + 1 = k
  BY DEF IsQuotes
<1> HIDE DEF order
<1>2. PICK id \in Orders!Ids : \E c :
        /\ Orders!RefreshSlot(acc, k, order) = [clob |-> c, ids |-> Append(acc.ids, id)]
        /\ \A i \in DOMAIN c.resting : SlotDid(acc, k, order, id, c, i)
  BY <1>1, SlotOutcome
<1>3. PICK clob :
        /\ Orders!RefreshSlot(acc, k, order) = [clob |-> clob, ids |-> Append(acc.ids, id)]
        /\ \A i \in DOMAIN clob.resting : SlotDid(acc, k, order, id, clob, i)
  BY <1>2
<1>4. PICK after : after = [clob |-> clob, ids |-> Append(acc.ids, id)]
  OBVIOUS
<1>5. after.clob = clob /\ after.ids = Append(acc.ids, id)
  BY <1>4
<1>6. /\ after.ids \in Seq(Orders!Ids) /\ Len(after.ids) = k
      /\ after.ids[k] = id /\ \A j \in 1 .. k - 1 : after.ids[j] = acc.ids[j]
  <2>1. acc.ids \in Seq(Orders!Ids) /\ Len(acc.ids) = k - 1
    BY DEF SlotsDone
  <2> HIDE DEF Orders!Ids
  <2> QED
    BY <1>1, <1>5, <2>1
<1>7. \A i \in DOMAIN after.clob.resting : after.clob.resting[i].left \in Int
  <2>1. \A i \in DOMAIN clob.resting : clob.resting[i].left \in Int
    BY <1>3 DEF SlotsDone, SlotDid
  <2> QED
    BY <1>5, <2>1
<1>8. ASSUME Sure
      PROVE  /\ Cancellable(after.clob.resting)
             /\ DOMAIN after.clob.resting # {} => Orders!InTimeWindow
  <2>1. \A i \in DOMAIN acc.clob.resting : acc.clob.resting[i].left <= expiration
    BY <1>8 DEF SlotsDone, Cancellable
  <2>2. \A i \in DOMAIN clob.resting : clob.resting[i].left <= expiration
    BY <1>3, <2>1 DEF SlotDid
  <2>3. DOMAIN acc.clob.resting # {} => Orders!InTimeWindow
    BY <1>8 DEF SlotsDone
  <2>4. \A i \in DOMAIN clob.resting : i \in DOMAIN acc.clob.resting \/ Orders!InTimeWindow
    BY <1>3 DEF SlotDid
  <2> QED
    BY <1>5, <2>2, <2>3, <2>4 DEF Cancellable
<1>9. ASSUME Sure, NEW i \in DOMAIN after.clob.resting
      PROVE  \/ AsWanted(qs, after.clob.resting, after.ids, k, i)
             \/ \E j \in k + 1 .. Len(recent) : recent[j] = i
  <2>1. \A j \in DOMAIN acc.clob.resting : Orders!MayCancel(acc.clob, j)
    BY <1>9 DEF SlotsDone, Cancellable, Orders!MayCancel
  <2>2. CASE i = id /\ clob.resting[i].side = order.side /\ clob.resting[i].price = order.price
    BY <1>1, <1>5, <1>6, <2>2 DEF AsWanted, order
  <2>3. CASE /\ i \in DOMAIN acc.clob.resting /\ clob.resting[i] = acc.clob.resting[i]
             /\ ~(k <= Len(recent) /\ i = recent[k])
    <3>1. CASE AsWanted(qs, acc.clob.resting, acc.ids, k - 1, i)
      <4>1. PICK j \in 1 .. k - 1 :
              /\ acc.ids[j] = i
              /\ acc.clob.resting[i].side = qs[j].side
              /\ acc.clob.resting[i].price = qs[j].price
        BY <3>1 DEF AsWanted
      <4>2. j \in 1 .. k /\ after.ids[j] = i
        BY <1>1, <1>6, <4>1
      <4> QED
        BY <1>5, <2>3, <4>1, <4>2 DEF AsWanted
    <3>2. CASE \E j \in k - 1 + 1 .. Len(recent) : recent[j] = i
      <4>1. PICK j \in k .. Len(recent) : recent[j] = i
        BY <1>1, <3>2
      <4>2. j # k
        BY <1>1, <2>3, <4>1
      <4> QED
        BY <1>1, <4>1, <4>2
    <3> QED
      BY <1>9, <2>3, <3>1, <3>2 DEF SlotsDone
  <2>4. clob.resting[i] = [side |-> order.side, price |-> order.price, left |-> expiration]
          => clob.resting[i].side = order.side /\ clob.resting[i].price = order.price
    OBVIOUS
  <2>5. i \in DOMAIN clob.resting
    BY <1>5, <1>9
  <2> QED
    BY <1>3, <2>1, <2>2, <2>3, <2>4, <2>5 DEF SlotDid
<1>10. SlotsDone(qs, after, k)
  BY <1>6, <1>7, <1>8, <1>9 DEF SlotsDone
<1> QED
  BY <1>3, <1>4, <1>10 DEF order

\* The lists a refresh may get.
LEMMA WantedQuotes ==
  ASSUME Orders!WellFormed, VaultTypesKept, NEW qs \in Orders!Wanted
  PROVE  IsQuotes(qs)
<1>1. MaxLayers \in Nat /\ layers \in 1 .. MaxLayers
  BY DEF Orders!WellFormed, VaultTypesKept
<1>2. CASE qs = <<>>
  BY <1>2 DEF IsQuotes
<1>3. ASSUME NEW p \in Prices, qs = Orders!Quotes(p) PROVE IsQuotes(qs)
  <2>1. 2 * layers \in Nat
    BY <1>1
  <2>2. \A k \in 1 .. 2 * layers : (k - 1) \div 2 \in 0 .. MaxLayers - 1
    BY <1>1
  <2>3. \A k \in 1 .. 2 * layers : qs[k].id \in Orders!Ids
    BY <1>3, <2>2 DEF Orders!Quotes, Orders!Quote, Orders!Ids
  <2>4. DOMAIN qs = 1 .. 2 * layers /\ Len(qs) = 2 * layers
    BY <1>3, <2>1 DEF Orders!Quotes
  <2> QED
    BY <2>1, <2>3, <2>4 DEF IsQuotes
<1>4. ASSUME NEW p \in Prices, NEW n \in 1 .. layers, qs = Orders!Reducing(p, n) PROVE IsQuotes(qs)
  <2>1. n \in Nat
    BY <1>1
  <2>2. \A k \in 1 .. n : k - 1 \in 0 .. MaxLayers - 1
    BY <1>1
  <2>3. \A k \in 1 .. n : qs[k].id \in Orders!Ids
    BY <1>4, <2>2 DEF Orders!Reducing, Orders!Quote, Orders!Ids
  <2>4. DOMAIN qs = 1 .. n /\ Len(qs) = n
    BY <1>4, <2>1 DEF Orders!Reducing
  <2> QED
    BY <2>1, <2>3, <2>4 DEF IsQuotes
<1> QED
  BY <1>2, <1>3, <1>4 DEF Orders!Wanted

\* The whole loop.
LEMMA LoopDone ==
  ASSUME Orders!WellFormed, QuotesInv, NEW qs, IsQuotes(qs)
  PROVE  SlotsDone(qs, Orders!Refreshed(qs)[Len(qs)], Len(qs))
<1> DEFINE f == Orders!Refreshed(qs)
           n == Len(qs)
           Bad == {k \in 0 .. n : ~SlotsDone(qs, f[k], k)}
<1>0. Expirations \subseteq Int
  BY DEF Orders!WellFormed
<1>1. n \in Nat /\ recent \in Seq(Orders!Ids) /\ expiration \in Int
  BY <1>0 DEF IsQuotes, QuotesInv, VaultTypesKept
<1>2. f[0] = [clob |-> Orders!Clob, ids |-> <<>>]
      /\ \A k \in 1 .. n : f[k] = Orders!RefreshSlot(f[k - 1], k, qs[k])
  BY <1>1, LoopRuns
<1> HIDE DEF f
<1>3. SlotsDone(qs, f[0], 0)
  <2>1. f[0].ids = <<>> /\ f[0].clob.resting = resting
    BY <1>2 DEF Orders!Clob
  <2>2. <<>> \in Seq(Orders!Ids) /\ Len(<<>>) = 0
    OBVIOUS
  <2>3. DOMAIN recent = 0 + 1 .. Len(recent)
    BY <1>1
  <2> QED
    BY <2>1, <2>2, <2>3 DEF SlotsDone, Sure, Orders!OutOfReach, QuotesInv, VaultTypesKept
<1>4. Bad = {}
  <2> SUFFICES ASSUME Bad # {} PROVE FALSE
    OBVIOUS
  <2>1. PICK k \in Bad : \A m \in Bad : k <= m
    <3>1. Bad \in SUBSET Nat
      BY <1>1
    <3> HIDE DEF Bad
    <3> QED
      BY <3>1, LeastNat
  <2>2. k \in 0 .. n /\ ~SlotsDone(qs, f[k], k)
    BY <2>1
  <2>3. k # 0
    BY <1>3, <2>2
  <2>4. k \in 1 .. n /\ k - 1 \in 0 .. n /\ ~(k <= k - 1)
    BY <1>1, <2>2, <2>3
  <2>5. SlotsDone(qs, f[k - 1], k - 1)
    BY <2>1, <2>4
  <2>6. SlotsDone(qs, Orders!RefreshSlot(f[k - 1], k, qs[k]), k)
    BY <1>1, <2>4, <2>5, SlotStep
  <2> QED
    BY <1>2, <2>2, <2>4, <2>6
<1>5. n \in 0 .. n
  BY <1>1
<1> QED
  BY <1>4, <1>5 DEF f

\* A refresh leaves only what is wanted, and lists it.
LEMMA RefreshKeeps ==
  ASSUME Orders!WellFormed, QuotesInv, NEW qs \in Orders!Wanted,
         Orders!RefreshVaultClobOrders(qs)
  PROVE  QuotesInv'
<1>1. IsQuotes(qs)
  BY WantedQuotes DEF QuotesInv
<1> DEFINE result == Orders!Refreshed(qs)[Len(qs)]
           n == Len(qs)
<1>2. SlotsDone(qs, result, n)
  BY <1>1, LoopDone
<1> DEFINE clob == Orders!CancelUnneeded(result.clob, n)
<1>3. /\ resting' = clob.resting /\ recent' = result.ids /\ wanted' = qs /\ phase' = "end"
      /\ UNCHANGED <<quoting, layers, expiration>>
      /\ quoting \in {"quoting", "closeonly"}
      /\ stranded' = (stranded \/ Orders!OutOfReach)
  BY DEF Orders!RefreshVaultClobOrders
<1> HIDE DEF result
<1>4. \A i \in DOMAIN clob.resting :
        /\ i \in DOMAIN result.clob.resting /\ clob.resting[i] = result.clob.resting[i]
        /\ (\E j \in n + 1 .. Len(recent) : recent[j] = i) => ~Orders!MayCancel(result.clob, i)
  BY CancelledType DEF Orders!CancelUnneeded
<1> HIDE DEF clob
<1>5. /\ recent' \in Seq(Orders!Ids) /\ Len(recent') = n /\ n \in Nat
      /\ DOMAIN qs = 1 .. n
  BY <1>1, <1>2, <1>3 DEF SlotsDone, IsQuotes
<1>6. \A i \in DOMAIN resting' : resting'[i].left \in Int
  BY <1>2, <1>3, <1>4 DEF SlotsDone
<1>7. VaultTypesKept'
  <2>1. Orders!Ids' = Orders!Ids
    BY DEF Orders!Ids
  <2> QED
    BY <1>3, <1>5, <1>6, <2>1 DEF VaultTypesKept, QuotesInv
<1>8. ASSUME ~stranded', NEW i \in DOMAIN resting'
      PROVE  /\ resting'[i].left <= expiration
             /\ \E j \in 1 .. n :
                  /\ recent'[j] = i
                  /\ resting'[i].side = qs[j].side /\ resting'[i].price = qs[j].price
  <2>1. i \in DOMAIN result.clob.resting /\ resting'[i] = result.clob.resting[i]
    BY <1>3, <1>4, <1>8
  <2>0. Sure
    BY <1>3, <1>8 DEF Sure
  <2>2. result.clob.resting[i].left <= expiration /\ Orders!InTimeWindow
    BY <1>2, <2>0, <2>1 DEF SlotsDone, Cancellable
  <2>3. Orders!MayCancel(result.clob, i)
    BY <2>1, <2>2 DEF Orders!MayCancel
  <2>4. AsWanted(qs, result.clob.resting, result.ids, n, i)
    BY <1>2, <1>3, <1>4, <1>8, <2>0, <2>1, <2>3 DEF SlotsDone
  <2> QED
    BY <1>3, <2>1, <2>2, <2>4 DEF AsWanted
<1>9. ~stranded' => Cancellable(resting)'
  BY <1>3, <1>8 DEF Cancellable
<1>10. ASSUME ~stranded' PROVE \A id \in DOMAIN resting' : \E k \in DOMAIN recent' : recent'[k] = id
  <2>1. DOMAIN recent' = 1 .. n
    BY <1>5
  <2> QED
    BY <1>3, <1>8, <1>10, <2>1
<1>11. Orders!NoStaleQuotes'
  BY <1>3, <1>5, <1>8 DEF Orders!NoStaleQuotes
<1>12. quoting' \notin Orders!Idle
  BY <1>3 DEF Orders!Idle
<1> QED
  BY <1>7, <1>9, <1>10, <1>11, <1>12 DEF QuotesInv

\* A vault starts without orders.
LEMMA QuotesInit == Orders!WellFormed /\ Orders!Init => QuotesInv
<1> SUFFICES ASSUME Orders!WellFormed, Orders!Init PROVE QuotesInv
  OBVIOUS
<1>1. DOMAIN resting = {} /\ recent = <<>> /\ phase # "end"
  BY DEF Orders!Init, Orders!NoOrders
<1>2. recent \in Seq(Orders!Ids)
  BY <1>1
<1> QED
  BY <1>1, <1>2 DEF Orders!Init, QuotesInv, VaultTypesKept, Cancellable, Orders!NoStaleQuotes

\* What keeps the parameters and the list, and takes orders away.
LEMMA FewerOrders ==
  ASSUME QuotesInv, UNCHANGED <<layers, expiration, recent, stranded>>,
         quoting' = quoting \/ quoting \in Orders!Idle,
         \A id \in DOMAIN resting' : id \in DOMAIN resting /\ resting'[id] = resting[id],
         phase' # "end" \/ wanted' = <<>>
  PROVE  QuotesInv'
<1>1. VaultTypesKept'
  BY DEF QuotesInv, VaultTypesKept, Orders!Ids
<1>2. Orders!NoStaleQuotes'
  BY DEF Orders!NoStaleQuotes
<1>3. Orders!Idle' = Orders!Idle
  BY DEF Orders!Idle
<1> QED
  BY <1>1, <1>2, <1>3 DEF QuotesInv, Cancellable

\* New parameters, with the orders and the list as they are.
LEMMA NewParameters ==
  ASSUME Orders!WellFormed, QuotesInv, NEW l \in 1 .. MaxLayers, NEW e \in Expirations,
         layers' = l, expiration' = e, phase' = "messages",
         ~stranded' => ~stranded /\ ~Orders!Shortens(e), UNCHANGED <<recent, resting>>,
         ~stranded /\ quoting' \in Orders!Idle => DOMAIN resting = {}
  PROVE  QuotesInv'
<1>1. VaultTypesKept'
  BY DEF QuotesInv, VaultTypesKept, Orders!Ids
<1>2. Orders!NoStaleQuotes' /\ Orders!Idle' = Orders!Idle
  BY DEF Orders!NoStaleQuotes, Orders!Idle
<1>3. ASSUME ~stranded' PROVE Cancellable(resting)'
  <2>0. Expirations \subseteq Int
    BY DEF Orders!WellFormed
  <2>1. e >= expiration \/ DOMAIN resting = {}
    <3>1. e \in Int /\ expiration \in Int
      BY <2>0 DEF QuotesInv, VaultTypesKept
    <3>2. ~(e < expiration) \/ DOMAIN resting = {}
      BY <1>3, Zenon DEF Orders!Shortens
    <3> QED
      BY <3>1, <3>2
  <2>2. e \in Int /\ expiration \in Int /\ \A id \in DOMAIN resting : resting[id].left \in Int
    BY <2>0 DEF QuotesInv, VaultTypesKept
  <2>3. Cancellable(resting)
    BY <1>3 DEF QuotesInv
  <2> QED
    BY <2>1, <2>2, <2>3 DEF Cancellable
<1> QED
  BY <1>1, <1>2, <1>3 DEF QuotesInv

\* Every step of a vault keeps the invariant.
LEMMA QuotesStep ==
  Orders!WellFormed /\ QuotesInv /\ [Orders!Next]_(Orders!vars) => QuotesInv'
<1> SUFFICES ASSUME Orders!WellFormed, QuotesInv, [Orders!Next]_(Orders!vars) PROVE QuotesInv'
  OBVIOUS
<1>1. CASE Orders!RefreshSkipped
  BY <1>1, FewerOrders DEF Orders!RefreshSkipped
<1>2. ASSUME NEW id \in Orders!Ids, Orders!RemoveOrder(id) PROVE QuotesInv'
  BY <1>2, FewerOrders DEF Orders!RemoveOrder
<1>3. CASE Orders!ExpireOrders
  BY <1>3, FewerOrders DEF Orders!ExpireOrders
<1>4. CASE Orders!AllocateToVault
  BY <1>4, FewerOrders DEF Orders!AllocateToVault, Orders!Idle
<1>5. ASSUME NEW l \in 1 .. MaxLayers, NEW e \in Expirations, NEW s \in Statuses,
             Orders!SetVaultParams(s, l, e)
      PROVE  QuotesInv'
  <2>1. /\ layers' = l /\ expiration' = e /\ quoting' = s /\ phase' = "messages"
        /\ ~stranded' => /\ ~stranded /\ ~Orders!Shortens(e)
                         /\ ~(Orders!GoesIdle(s) /\ Orders!OutOfReach)
    BY <1>5, Zenon DEF Orders!SetVaultParams
  <2>2. CASE Orders!GoesIdle(s)
    <3> DEFINE ids == {recent[k] : k \in DOMAIN recent}
               clob == Orders!Cancelled(Orders!Clob, ids)
    <3>1. recent' = <<>> /\ resting' = clob.resting
      BY <1>5, <2>2 DEF Orders!SetVaultParams, Orders!CancelExisting
    <3>2. \A i \in DOMAIN clob.resting :
            /\ i \in DOMAIN Orders!Clob.resting /\ clob.resting[i] = Orders!Clob.resting[i]
            /\ i \in ids => ~Orders!MayCancel(Orders!Clob, i)
      BY CancelledType
    <3> HIDE DEF clob
    <3>3. Orders!Clob.resting = resting
      BY DEF Orders!Clob
    <3>4. \A i \in DOMAIN resting' : resting'[i].left \in Int
      BY <3>1, <3>2, <3>3 DEF QuotesInv, VaultTypesKept
    <3>5. ASSUME ~stranded' PROVE DOMAIN resting' = {}
      <4> SUFFICES ASSUME NEW i \in DOMAIN resting' PROVE FALSE
        OBVIOUS
      <4>1. i \in DOMAIN resting /\ (i \in ids => ~Orders!MayCancel(Orders!Clob, i))
        BY <3>1, <3>2, <3>3
      <4>2. i \in ids /\ resting[i].left <= expiration
        BY <2>1, <3>5, <4>1 DEF QuotesInv, Cancellable
      <4>3. Orders!InTimeWindow
        BY <2>1, <2>2, <3>5, <4>1 DEF Orders!OutOfReach
      <4> QED
        BY <3>3, <4>1, <4>2, <4>3 DEF Orders!MayCancel
    <3>6. recent' \in Seq(Orders!Ids) /\ Orders!Ids' = Orders!Ids
      BY <3>1 DEF Orders!Ids
    <3>7. VaultTypesKept'
      BY <2>1, <3>4, <3>6 DEF VaultTypesKept
    <3> QED
      BY <2>1, <3>5, <3>7 DEF QuotesInv, Cancellable, Orders!NoStaleQuotes
  <2>3. CASE ~Orders!GoesIdle(s)
    <3>1. UNCHANGED <<recent, resting>>
      BY <1>5, <2>3 DEF Orders!SetVaultParams
    <3>2. ASSUME ~stranded, s \in Orders!Idle PROVE DOMAIN resting = {}
      <4>1. quoting = "none"
        BY <2>3, <3>2 DEF Orders!WellFormed, Orders!Idle, Orders!GoesIdle
      <4> QED
        BY <3>2, <4>1 DEF QuotesInv, Orders!Idle
    <3>3. Orders!Idle' = Orders!Idle
      BY DEF Orders!Idle
    <3> QED
      BY <2>1, <3>1, <3>2, <3>3, NewParameters
  <2> QED
    BY <2>2, <2>3
<1>6. ASSUME NEW l \in 1 .. MaxLayers, NEW e \in Expirations,
             Orders!SetDefaultQuotingParams(l, e)
      PROVE  QuotesInv'
  <2>1. /\ layers' = l /\ expiration' = e /\ phase' = "messages"
        /\ ~stranded' => ~stranded /\ ~Orders!Shortens(e)
        /\ UNCHANGED <<quoting, recent, resting>>
    BY <1>6, Zenon DEF Orders!SetDefaultQuotingParams
  <2>2. ~stranded /\ quoting' \in Orders!Idle => DOMAIN resting = {}
    BY <2>1 DEF QuotesInv
  <2> QED
    BY <2>1, <2>2, NewParameters
<1>7. ASSUME NEW d \in 0 .. MaxElapsed, NEW decommission \in BOOLEAN,
             Orders!NextBlock(d, decommission)
      PROVE  QuotesInv'
  <2>1. /\ phase' = "operations" /\ DOMAIN resting' = DOMAIN resting
        /\ stranded' = (stranded /\ DOMAIN resting # {})
        /\ UNCHANGED <<layers, expiration>>
    BY <1>7 DEF Orders!NextBlock
  <2>2. \A id \in DOMAIN resting :
          resting'[id].left \in Int /\ resting'[id].left <= resting[id].left
    <3>1. \A id \in DOMAIN resting : resting'[id].left = resting[id].left - d
      BY <1>7 DEF Orders!NextBlock, Orders!Aged
    <3> QED
      BY <3>1 DEF QuotesInv, VaultTypesKept, Orders!WellFormed
  <2>3. /\ recent' \in Seq(Orders!Ids) /\ Orders!Ids' = Orders!Ids
        /\ Orders!Idle' = Orders!Idle
    <3>1. recent' = recent \/ recent' = <<>>
      BY <1>7 DEF Orders!NextBlock
    <3>2. recent \in Seq(Orders!Ids) /\ <<>> \in Seq(Orders!Ids)
      BY DEF QuotesInv, VaultTypesKept
    <3>3. Orders!Ids' = Orders!Ids /\ Orders!Idle' = Orders!Idle
      BY DEF Orders!Ids, Orders!Idle
    <3> QED
      BY <3>1, <3>2, <3>3
  <2>4. VaultTypesKept'
    BY <2>1, <2>2, <2>3 DEF QuotesInv, VaultTypesKept
  <2>5. CASE DOMAIN resting = {}
    BY <2>1, <2>4, <2>5 DEF QuotesInv, Cancellable, Orders!NoStaleQuotes
  <2>6. CASE DOMAIN resting # {} /\ ~stranded
    <3>1. quoting \notin Orders!Idle
      BY <2>6 DEF QuotesInv
    <3>2. ~decommission /\ UNCHANGED <<quoting, recent>>
      BY <1>7, <3>1 DEF Orders!NextBlock, Orders!MayDecommission, Orders!Idle
    <3>3. Cancellable(resting)'
      <4>1. \A id \in DOMAIN resting : resting[id].left \in Int /\ resting[id].left <= expiration
        BY <2>6 DEF QuotesInv, VaultTypesKept, Cancellable
      <4>2. expiration \in Int
        BY DEF QuotesInv, VaultTypesKept, Orders!WellFormed
      <4> QED
        BY <2>1, <2>2, <4>1, <4>2 DEF Cancellable
    <3> QED
      BY <2>1, <2>3, <2>4, <2>6, <3>1, <3>2, <3>3 DEF QuotesInv, Orders!NoStaleQuotes
  <2>7. CASE DOMAIN resting # {} /\ stranded
    BY <2>1, <2>4, <2>7 DEF QuotesInv, Orders!NoStaleQuotes
  <2> QED
    BY <2>5, <2>6, <2>7
<1>8. CASE UNCHANGED Orders!vars
  BY <1>8 DEF Orders!vars, QuotesInv, VaultTypesKept, Cancellable, Orders!NoStaleQuotes,
              Orders!Ids, Orders!Idle
<1> QED
  BY <1>1, <1>2, <1>3, <1>4, <1>5, <1>6, <1>7, <1>8, RefreshKeeps DEF Orders!Next

\* Every order of a vault is in its list of client ids, for any layers, prices,
\* statuses, expirations and course of blocks, unless the vault had orders that it
\* could not cancel: OrderExpirationSeconds was lowered, or it reaches beyond
\* StatefulOrderTimeWindow from the previous block.
THEOREM EveryOrderListed == ASSUME Orders!WellFormed PROVE PartsSpec => []Tracked
<1>1. QuotesInv => Tracked
  BY DEF QuotesInv, Tracked, Orders!Tracked
<1>2. Orders!Init => QuotesInv
  BY QuotesInit
<1>3. QuotesInv /\ [Orders!Next]_(Orders!vars) => QuotesInv'
  BY QuotesStep
<1> QED
  BY <1>1, <1>2, <1>3, PartsOrders, PTL DEF Orders!Spec

\* After a refresh every order in state is as one of the slots wants it, unless
\* the vault had orders that it could not cancel, as above.
THEOREM RefreshLeavesNoneStale == ASSUME Orders!WellFormed PROVE PartsSpec => []NoStaleQuotes
<1>1. QuotesInv => NoStaleQuotes
  BY DEF QuotesInv, NoStaleQuotes
<1>2. Orders!Init => QuotesInv
  BY QuotesInit
<1>3. QuotesInv /\ [Orders!Next]_(Orders!vars) => QuotesInv'
  BY QuotesStep
<1> QED
  BY <1>1, <1>2, <1>3, PartsOrders, PTL DEF Orders!Spec

-----------------------------------------------------------------------------
(* x/ratelimit.                                                            *)

\* A behaviour of the whole is one of x/ratelimit.
LEMMA PartsLimits == PartsSpec => Limits!Spec
<1>1. PartsInit => Limits!Init
  BY DEF PartsInit
<1>2. [PartsNext]_<<part, vars, orders, limits, limiter>> => [Limits!Next]_(Limits!vars)
  <2> SUFFICES ASSUME [PartsNext]_<<part, vars, orders, limits, limiter>>
               PROVE  Limits!Next \/ UNCHANGED limits
    BY DEF limits, Limits!vars, Limits!counters, Limits!history
  <2> QED
    BY DEF PartsNext
<1> QED
  BY <1>1, <1>2, PTL DEF PartsSpec, Limits!Spec

\* Sequence numbers are given once: a packet without an answer is known by its
\* own, and only the packet from before the middleware has number 0.
PacketsInv ==
  /\ nextSeq \in Nat /\ nextSeq >= 1
  /\ \A p \in sent : p.seq \in Nat /\ p.seq < nextSeq
  /\ \A p, q \in sent : p.seq = q.seq => p = q
  /\ \A n : n \in pending <=> \E p \in sent : p.seq = n /\ p.seq >= 1

LEMMA PacketsInit == Limits!Init => PacketsInv
BY DEF Limits!Init, PacketsInv

LEMMA PacketsStep == PacketsInv /\ [Limits!Next]_(Limits!vars) => PacketsInv'
<1> SUFFICES ASSUME PacketsInv, [Limits!Next]_(Limits!vars) PROVE PacketsInv'
  OBVIOUS
<1>1. ASSUME UNCHANGED <<sent, nextSeq, pending>> PROVE PacketsInv'
  BY <1>1 DEF PacketsInv
<1>2. ASSUME NEW ls \in LimiterLists, Limits!SetLimitParams(ls) PROVE PacketsInv'
  BY <1>1, <1>2 DEF Limits!SetLimitParams
<1>3. ASSUME NEW amount \in Amounts, Limits!SendPacket(amount) PROVE PacketsInv'
  <2> DEFINE p == [seq |-> nextSeq, amount |-> amount]
  <2>1. /\ sent' = sent \cup {p} /\ pending' = pending \cup {nextSeq}
        /\ nextSeq' = nextSeq + 1 /\ p.seq = nextSeq
    BY <1>3 DEF Limits!SendPacket
  <2> HIDE DEF p
  <2> QED
    BY <2>1 DEF PacketsInv
<1>4. ASSUME NEW amount \in Amounts, Limits!OnRecvPacket(amount) PROVE PacketsInv'
  BY <1>1, <1>4 DEF Limits!OnRecvPacket
<1>5. ASSUME NEW p \in sent, Limits!OnAcknowledgementSuccess(p) PROVE PacketsInv'
  <2>1. sent' = sent \ {p} /\ pending' = pending \ {p.seq} /\ nextSeq' = nextSeq
    BY <1>5 DEF Limits!OnAcknowledgementSuccess
  <2> QED
    BY <2>1 DEF PacketsInv
<1>6. ASSUME NEW p \in sent, Limits!UndoSendPacket(p) PROVE PacketsInv'
  <2>1. sent' = sent \ {p} /\ pending' = pending \ {p.seq} /\ nextSeq' = nextSeq
    BY <1>6 DEF Limits!UndoSendPacket, Limits!HasPendingSendPacket,
                Limits!RemovePendingSendPacket
  <2> QED
    BY <2>1 DEF PacketsInv
<1>7. ASSUME NEW time \in BlockTimes, Limits!EndBlock(time) PROVE PacketsInv'
  BY <1>1, <1>7 DEF Limits!EndBlock
<1>8. CASE UNCHANGED Limits!vars
  BY <1>1, <1>8 DEF Limits!vars
<1> QED
  BY <1>2, <1>3, <1>4, <1>5, <1>6, <1>7, <1>8 DEF Limits!Next

\* The pending store of x/ratelimit holds exactly the unanswered packets that
\* were charged, for any number of packets and any order of their answers.
THEOREM PendingAsCharged == PartsSpec => []PendingExact
<1>1. PacketsInv => PendingExact
  BY DEF PacketsInv, PendingExact, Limits!PendingExact
<1> QED
  BY <1>1, PacketsInit, PacketsStep, PartsLimits, PTL DEF Limits!Spec

\* A list of limiters and what is kept for each of them.
CapacityTypes ==
  /\ DOMAIN capacity = DOMAIN limiters /\ DOMAIN peak = DOMAIN limiters
  /\ supply \in Nat /\ inflow \in Int /\ outflow \in Int /\ elapsed \in Nat
  /\ \A p \in sent : p.amount \in Nat
  /\ \A i \in DOMAIN limiters :
       /\ limiters[i].period \in Nat /\ limiters[i].period >= Limits!OneMillion
       /\ limiters[i].minimum \in Nat /\ limiters[i].tvlPpm \in Nat
       /\ capacity[i] \in Nat /\ peak[i] \in Nat

\* A capacity is what may still leave: with what left already it is within the
\* bound, and recovery gives at most a baseline per period.
Recovered(i) ==
  LET period == Limits!Milliseconds(limiters[i].period)
  IN  (capacity[i] + outflow - inflow) * period <= peak[i] * (period + elapsed)

CapacityInv == CapacityTypes /\ \A i \in DOMAIN limiters : Recovered(i)

LEMMA MillisecondsType ==
  ASSUME NEW ns \in Nat
  PROVE  /\ Limits!Milliseconds(ns) \in Nat
         /\ ns >= Limits!OneMillion => Limits!Milliseconds(ns) >= 1
BY DEF Limits!Milliseconds, Limits!OneMillion

LEMMA BaselineType ==
  ASSUME NEW tvl \in Nat, NEW l, l.minimum \in Nat, l.tvlPpm \in Nat
  PROVE  Limits!GetBaseline(tvl, l) \in Nat
<1>1. tvl * l.tvlPpm \in Nat
  OBVIOUS
<1>2. (tvl * l.tvlPpm) \div Limits!OneMillion \in Nat
  BY <1>1 DEF Limits!OneMillion
<1> QED
  BY <1>2 DEF Limits!GetBaseline, Limits!MaxOf

LEMMA CapacityInit == Limits!WellFormed /\ Limits!Init => CapacityInv
<1> SUFFICES ASSUME Limits!WellFormed, Limits!Init PROVE CapacityInv
  OBVIOUS
<1>1. DOMAIN limiters = {} /\ DOMAIN capacity = {} /\ DOMAIN peak = {}
  BY DEF Limits!Init
<1>2. \A p \in sent : p.amount \in Nat
  BY DEF Limits!Init, Limits!WellFormed
<1> QED
  BY <1>1, <1>2 DEF Limits!Init, Limits!WellFormed, CapacityInv, CapacityTypes

LEMMA SetNewLimits ==
  ASSUME Limits!WellFormed, CapacityInv, NEW ls \in LimiterLists, Limits!SetLimitParams(ls)
  PROVE  CapacityInv'
<1>1. /\ limiters' = ls /\ capacity' = Limits!Baselines(supply, ls)
      /\ peak' = Limits!Baselines(supply, ls)
      /\ inflow' = 0 /\ outflow' = 0 /\ elapsed' = 0 /\ UNCHANGED <<supply, sent>>
  BY DEF Limits!SetLimitParams
<1>2. \A i \in DOMAIN ls : /\ ls[i].period \in Nat /\ ls[i].minimum \in Nat
                           /\ ls[i].tvlPpm \in Nat /\ ls[i].period >= Limits!OneMillion
  <2> DEFINE OneLimiter == [period : Nat, minimum : Nat, tvlPpm : Nat]
  <2>1. ls \in Seq(OneLimiter) /\ \A i \in DOMAIN ls : ls[i].period >= Limits!OneMillion
    BY DEF Limits!WellFormed
  <2>2. \A i \in DOMAIN ls : ls[i] \in OneLimiter
    <3> HIDE DEF OneLimiter
    <3> QED
      BY <2>1
  <2> QED
    BY <2>1, <2>2
<1>3. supply \in Nat /\ \A p \in sent : p.amount \in Nat
  BY DEF CapacityInv, CapacityTypes
<1>4. \A i \in DOMAIN ls : Limits!GetBaseline(supply, ls[i]) \in Nat
  BY <1>2, <1>3, BaselineType
<1>5. /\ DOMAIN capacity' = DOMAIN ls /\ DOMAIN peak' = DOMAIN ls
      /\ \A i \in DOMAIN ls : capacity'[i] = Limits!GetBaseline(supply, ls[i])
                              /\ peak'[i] = capacity'[i]
  BY <1>1 DEF Limits!Baselines
<1>6. CapacityTypes'
  BY <1>1, <1>2, <1>3, <1>4, <1>5 DEF CapacityTypes
<1>7. ASSUME NEW i \in DOMAIN ls PROVE Recovered(i)'
  <2>1. capacity'[i] \in Nat /\ peak'[i] = capacity'[i]
    BY <1>4, <1>5
  <2>2. Limits!Milliseconds(ls[i].period) \in Nat
    BY <1>2, MillisecondsType
  <2> QED
    BY <1>1, <2>1, <2>2 DEF Recovered, Limits!Milliseconds
<1> QED
  BY <1>1, <1>6, <1>7 DEF CapacityInv

\* Charging and crediting move the capacity and the net outflow together.
LEMMA ShiftKeeps ==
  ASSUME CapacityInv, NEW d \in Int,
         UNCHANGED <<limiters, peak, elapsed>>, supply' \in Nat,
         \A p \in sent' : p.amount \in Nat,
         capacity' = [i \in DOMAIN capacity |-> capacity[i] + d],
         \A i \in DOMAIN capacity : capacity[i] + d >= 0,
         inflow' \in Int, outflow' \in Int,
         d + outflow' - inflow' = outflow - inflow
  PROVE  CapacityInv'
<1>1. CapacityTypes
  BY DEF CapacityInv
<1>2. \A i \in DOMAIN limiters : capacity'[i] = capacity[i] + d
  BY <1>1 DEF CapacityTypes
<1>3. CapacityTypes'
  BY <1>1, <1>2 DEF CapacityTypes
<1>4. ASSUME NEW i \in DOMAIN limiters PROVE Recovered(i)'
  <2>1. Recovered(i)
    BY DEF CapacityInv
  <2>2. capacity'[i] + outflow' - inflow' = capacity[i] + outflow - inflow
    <3> DEFINE new == capacity'[i]  old == capacity[i]  out == outflow'  in == inflow'
    <3>0. old \in Int /\ inflow \in Int /\ outflow \in Int
      BY <1>1 DEF CapacityTypes
    <3>1. new = old + d
      BY <1>2
    <3>2. out \in Int /\ in \in Int /\ d + out - in = outflow - inflow
      OBVIOUS
    <3> HIDE DEF new, old, out, in
    <3>3. new + out - in = old + outflow - inflow
      BY <3>0, <3>1, <3>2
    <3> QED
      BY <3>3 DEF new, old, out, in
  <2>3. limiters' = limiters /\ peak' = peak /\ elapsed' = elapsed
    OBVIOUS
  <2> QED
    BY <2>1, <2>2, <2>3 DEF Recovered, Limits!Milliseconds
<1> QED
  BY <1>3, <1>4 DEF CapacityInv

\* One step of CalculateNewCapacityList: a capacity stays a capacity, and rises
\* by no more than the share of a baseline that the elapsed time is of a period.
LEMMA ApproachBounds ==
  ASSUME NEW c \in Nat, NEW base \in Nat, NEW ms \in Nat, NEW period \in Nat,
         Limits!Milliseconds(period) >= 1, NEW n,
         n = Limits!Approach(c, base, Limits!CapacityDiff(c, base, ms, period))
  PROVE  n \in Nat /\ (n <= c \/ (n - c) * Limits!Milliseconds(period) <= base * ms)
<1> DEFINE P == Limits!Milliseconds(period)
           diff == Limits!CapacityDiff(c, base, ms, period)
<1>0. n = Limits!Approach(c, base, diff)
  OBVIOUS
<1>1. P \in Nat \ {0}
  BY MillisecondsType
<1>2. diff = (Limits!MaxOf(base, c - base) * ms) \div P
  BY DEF Limits!CapacityDiff
<1>3. Limits!MaxOf(base, c - base) \in Nat /\ (c < base => Limits!MaxOf(base, c - base) = base)
  BY DEF Limits!MaxOf
<1> DEFINE m == Limits!MaxOf(base, c - base)
<1> HIDE DEF P, diff, m
<1>4. m * ms \in Nat
  BY <1>3 DEF m
<1>5. diff \in Nat /\ diff * P <= m * ms
  <2>1. \A a \in Nat : a \div P \in Nat /\ (a \div P) * P <= a
    BY <1>1
  <2> QED
    BY <1>2, <1>4, <2>1 DEF m
<1>6. CASE c < base
  <2>1. diff * P <= base * ms
    BY <1>3, <1>5, <1>6 DEF m
  <2>2. n \in Nat /\ n - c <= diff /\ n >= c
    BY <1>0, <1>5, <1>6 DEF Limits!Approach, Limits!AbsOf
  <2>3. (n - c) * P <= diff * P
    BY <1>1, <1>5, <2>2
  <2>4. (n - c) * P \in Int /\ diff * P \in Int /\ base * ms \in Int
    BY <1>1, <1>5, <2>2
  <2> QED
    BY <2>1, <2>2, <2>3, <2>4 DEF P
<1>7. CASE ~(c < base)
  <2>1. n \in Nat /\ n <= c
    BY <1>0, <1>5, <1>7 DEF Limits!Approach, Limits!AbsOf
  <2> QED
    BY <2>1 DEF P
<1> QED
  BY <1>6, <1>7

\* The arithmetic of a block: the bound grows by at least what the capacity does.
LEMMA BoundGrows ==
  ASSUME NEW c \in Int, NEW n \in Int, NEW net \in Int, NEW P \in Nat, NEW ms \in Nat,
         NEW el \in Nat, NEW base \in Nat, NEW top \in Nat, NEW newTop \in Nat,
         newTop >= top, newTop >= base,
         (c + net) * P <= top * (P + el),
         n <= c \/ (n - c) * P <= base * ms
  PROVE  (n + net) * P <= newTop * (P + (el + ms))
<1>1. top * (P + el) <= newTop * (P + el)
  OBVIOUS
<1>2. base * ms <= newTop * ms
  OBVIOUS
<1>3. newTop * (P + (el + ms)) = newTop * (P + el) + newTop * ms
  OBVIOUS
<1>4. (n + net) * P = (c + net) * P + (n - c) * P
  OBVIOUS
<1>5. newTop * ms >= 0
  OBVIOUS
<1>6. n <= c => (n - c) * P <= 0
  OBVIOUS
<1>7. /\ top * (P + el) \in Int /\ newTop * (P + el) \in Int /\ base * ms \in Int
      /\ newTop * ms \in Int /\ (c + net) * P \in Int /\ (n - c) * P \in Int
  OBVIOUS
<1> QED
  BY <1>1, <1>2, <1>3, <1>4, <1>5, <1>6, <1>7

LEMMA EndBlockKeeps ==
  ASSUME Limits!WellFormed, CapacityInv, NEW time \in BlockTimes, Limits!EndBlock(time)
  PROVE  CapacityInv'
<1> DEFINE ms == Limits!Milliseconds(time)
           P(i) == Limits!Milliseconds(limiters[i].period)
           base(i) == Limits!GetBaseline(supply, limiters[i])
<1>1. /\ capacity' = Limits!UpdatedCapacities(ms)
      /\ peak' = [i \in DOMAIN peak |-> Limits!MaxOf(peak[i], base(i))]
      /\ elapsed' = elapsed + ms
      /\ UNCHANGED <<limiters, supply, sent, inflow, outflow>>
  BY DEF Limits!EndBlock
<1>2. CapacityTypes
  BY DEF CapacityInv
<1>3. ms \in Nat
  BY MillisecondsType DEF Limits!WellFormed
<1>4. \A i \in DOMAIN limiters : P(i) \in Nat /\ P(i) >= 1
  BY <1>2, MillisecondsType DEF CapacityTypes
<1>5. \A i \in DOMAIN limiters : base(i) \in Nat
  BY <1>2, BaselineType DEF CapacityTypes
<1>6. /\ DOMAIN peak' = DOMAIN limiters
      /\ \A i \in DOMAIN limiters :
           peak'[i] \in Nat /\ peak'[i] >= peak[i] /\ peak'[i] >= base(i)
  <2> HIDE DEF base
  <2> QED
    BY <1>1, <1>2, <1>5 DEF CapacityTypes, Limits!MaxOf
<1>7. /\ DOMAIN capacity' = DOMAIN limiters
      /\ \A i \in DOMAIN limiters :
           /\ capacity'[i] \in Nat
           /\ capacity'[i] <= capacity[i] \/ (capacity'[i] - capacity[i]) * P(i) <= base(i) * ms
  <2>1. CASE Len(limiters) # Len(capacity)
    <3>1. capacity' = capacity
      BY <1>1, <2>1 DEF Limits!UpdatedCapacities
    <3> QED
      BY <1>2, <3>1 DEF CapacityTypes
  <2>2. CASE Len(limiters) = Len(capacity)
    <3>1. capacity' = [i \in DOMAIN limiters |->
                         Limits!NewCapacity(capacity[i], limiters[i], ms)]
      BY <1>1, <2>2 DEF Limits!UpdatedCapacities
    <3>2. ASSUME NEW i \in DOMAIN limiters
          PROVE  /\ capacity'[i] \in Nat
                 /\ \/ capacity'[i] <= capacity[i]
                    \/ (capacity'[i] - capacity[i]) * P(i) <= base(i) * ms
      <4>1. capacity'[i] = Limits!Approach(capacity[i], base(i),
                Limits!CapacityDiff(capacity[i], base(i), ms, limiters[i].period))
        BY <3>1 DEF Limits!NewCapacity
      <4>2. capacity[i] \in Nat /\ base(i) \in Nat /\ limiters[i].period \in Nat
        BY <1>2, <1>5 DEF CapacityTypes
      <4> HIDE DEF ms, base
      <4> QED
        BY <1>3, <1>4, <4>1, <4>2,
           ApproachBounds
    <3> QED
      BY <3>1, <3>2
  <2> QED
    BY <2>1, <2>2
<1>8. CapacityTypes'
  <2> HIDE DEF ms, base, P
  <2> QED
    BY <1>1, <1>2, <1>3, <1>6, <1>7 DEF CapacityTypes
<1>9. ASSUME NEW i \in DOMAIN limiters PROVE Recovered(i)'
  <2>1. (capacity[i] + (outflow - inflow)) * P(i) <= peak[i] * (P(i) + elapsed)
    <3>1. capacity[i] + outflow - inflow = capacity[i] + (outflow - inflow)
      BY <1>2 DEF CapacityTypes
    <3> QED
      BY <3>1 DEF CapacityInv, Recovered
  <2>2. /\ capacity[i] \in Int /\ capacity'[i] \in Int /\ outflow - inflow \in Int
        /\ elapsed \in Nat /\ peak[i] \in Nat /\ peak'[i] \in Nat /\ P(i) \in Nat
        /\ base(i) \in Nat
    BY <1>2, <1>4, <1>5, <1>6, <1>7 DEF CapacityTypes
  <2>3. (capacity'[i] + (outflow - inflow)) * P(i) <= peak'[i] * (P(i) + (elapsed + ms))
    <3> HIDE DEF ms, base, P
    <3> QED
      BY <1>3, <1>6, <1>7, <2>1, <2>2, BoundGrows
  <2>4. capacity'[i] + outflow - inflow = capacity'[i] + (outflow - inflow)
    BY <1>2, <2>2 DEF CapacityTypes
  <2> QED
    BY <1>1, <2>3, <2>4 DEF Recovered, Limits!Milliseconds
<1> QED
  BY <1>1, <1>8, <1>9 DEF CapacityInv

LEMMA CapacityStep ==
  Limits!WellFormed /\ CapacityInv /\ [Limits!Next]_(Limits!vars) => CapacityInv'
<1> SUFFICES ASSUME Limits!WellFormed, CapacityInv, [Limits!Next]_(Limits!vars)
             PROVE  CapacityInv'
  OBVIOUS
<1>1. CapacityTypes
  BY DEF CapacityInv
<1>2. ASSUME NEW amount \in Amounts, Limits!SendPacket(amount) PROVE CapacityInv'
  <2>1. amount \in Nat
    BY DEF Limits!WellFormed
  <2>2. /\ UNCHANGED <<limiters, peak, elapsed, inflow>> /\ supply' = supply - amount
        /\ amount <= supply /\ outflow' = outflow + amount
        /\ sent' = sent \cup {[seq |-> nextSeq, amount |-> amount]}
        /\ capacity' = [i \in DOMAIN capacity |-> capacity[i] - amount]
        /\ \A i \in DOMAIN capacity : capacity[i] >= amount
    BY <1>2 DEF Limits!SendPacket, Limits!Debit, Limits!CapacitySuffices
  <2>3. /\ supply' \in Nat /\ \A p \in sent' : p.amount \in Nat
        /\ inflow' \in Int /\ outflow' \in Int
        /\ -amount + outflow' - inflow' = outflow - inflow
    BY <1>1, <2>1, <2>2 DEF CapacityTypes
  <2>4. /\ capacity' = [i \in DOMAIN capacity |-> capacity[i] + (-amount)]
        /\ \A i \in DOMAIN capacity : capacity[i] + (-amount) >= 0
    BY <1>1, <2>1, <2>2 DEF CapacityTypes
  <2> QED
    BY <2>1, <2>2, <2>3, <2>4, ShiftKeeps
<1>3. ASSUME NEW amount \in Amounts, Limits!OnRecvPacket(amount) PROVE CapacityInv'
  <2>1. amount \in Nat
    BY DEF Limits!WellFormed
  <2>2. /\ UNCHANGED <<limiters, peak, elapsed, outflow, sent>> /\ supply' = supply + amount
        /\ inflow' = inflow + amount
        /\ capacity' = [i \in DOMAIN capacity |-> capacity[i] + amount]
    BY <1>3 DEF Limits!OnRecvPacket, Limits!Credit
  <2>3. /\ supply' \in Nat /\ \A p \in sent' : p.amount \in Nat
        /\ inflow' \in Int /\ outflow' \in Int
        /\ amount + outflow' - inflow' = outflow - inflow
        /\ \A i \in DOMAIN capacity : capacity[i] + amount >= 0
    BY <1>1, <2>1, <2>2 DEF CapacityTypes
  <2> QED
    BY <2>1, <2>2, <2>3, ShiftKeeps
<1>4. ASSUME UNCHANGED <<limiters, peak, elapsed, capacity, inflow, outflow>>,
             supply' \in Nat, \A p \in sent' : p.amount \in Nat
      PROVE  CapacityInv'
  BY <1>1, <1>4 DEF CapacityInv, CapacityTypes, Recovered, Limits!Milliseconds
<1>5. ASSUME NEW p \in sent, Limits!OnAcknowledgementSuccess(p) PROVE CapacityInv'
  BY <1>1, <1>4, <1>5 DEF Limits!OnAcknowledgementSuccess, CapacityTypes, Limits!history
<1>6. ASSUME NEW p \in sent, Limits!UndoSendPacket(p) PROVE CapacityInv'
  <2>1. p.amount \in Nat /\ supply \in Nat
    BY <1>1 DEF CapacityTypes
  <2>2. /\ supply' \in Nat /\ \A q \in sent' : q.amount \in Nat
        /\ UNCHANGED <<limiters, peak, elapsed, outflow>>
    BY <1>1, <1>6, <2>1 DEF Limits!UndoSendPacket, CapacityTypes
  <2>3. CASE Limits!HasPendingSendPacket(p)
    <3>1. /\ capacity' = [i \in DOMAIN capacity |-> capacity[i] + p.amount]
          /\ inflow' = inflow + p.amount
      BY <1>6, <2>3 DEF Limits!UndoSendPacket, Limits!Credit
    <3>2. /\ inflow' \in Int /\ outflow' \in Int
          /\ p.amount + outflow' - inflow' = outflow - inflow
          /\ \A i \in DOMAIN capacity : capacity[i] + p.amount >= 0
      BY <1>1, <2>1, <2>2, <3>1 DEF CapacityTypes
    <3>3. p.amount \in Int
      BY <2>1
    <3> QED
      BY <2>2, <3>1, <3>2, <3>3, ShiftKeeps
  <2>4. CASE ~Limits!HasPendingSendPacket(p)
    BY <1>4, <1>6, <2>2, <2>4 DEF Limits!UndoSendPacket
  <2> QED
    BY <2>3, <2>4
<1>7. CASE UNCHANGED Limits!vars
  BY <1>1, <1>4, <1>7 DEF Limits!vars, Limits!history, CapacityTypes
<1> QED
  BY <1>2, <1>3, <1>5, <1>6, <1>7, SetNewLimits, EndBlockKeeps DEF Limits!Next

\* What left the chain under a list of limiters, net of what came in or came
\* back, is at most a baseline and a baseline more per period, for any limiters
\* with periods of a millisecond or more and any course of blocks and packets.
THEOREM NetOutflowBounded ==
  ASSUME Limits!WellFormed PROVE PartsSpec => []OutflowBounded
<1>1. CapacityInv => Limits!OutflowBounded
  <2> SUFFICES ASSUME CapacityInv, NEW i \in DOMAIN capacity
               PROVE  (outflow - inflow) * Limits!Milliseconds(limiters[i].period)
                        <= peak[i] * (Limits!Milliseconds(limiters[i].period) + elapsed)
    BY DEF Limits!OutflowBounded
  <2> DEFINE P == Limits!Milliseconds(limiters[i].period)
  <2>1. /\ i \in DOMAIN limiters /\ capacity[i] \in Nat /\ outflow \in Int /\ inflow \in Int
        /\ peak[i] \in Nat /\ elapsed \in Nat
    BY DEF CapacityInv, CapacityTypes
  <2>2. P \in Nat
    BY <2>1, MillisecondsType DEF CapacityInv, CapacityTypes
  <2>3. (capacity[i] + outflow - inflow) * P <= peak[i] * (P + elapsed)
    BY <2>1 DEF CapacityInv, Recovered
  <2> HIDE DEF P
  <2>4. (capacity[i] + outflow - inflow) * P = capacity[i] * P + (outflow - inflow) * P
    BY <2>1, <2>2
  <2>5. capacity[i] * P >= 0
    BY <2>1, <2>2
  <2>6. /\ capacity[i] * P \in Int /\ (outflow - inflow) * P \in Int
        /\ peak[i] * (P + elapsed) \in Int
    BY <2>1, <2>2
  <2>7. (outflow - inflow) * P <= peak[i] * (P + elapsed)
    BY <2>3, <2>4, <2>5, <2>6
  <2> QED
    BY <2>7 DEF P
<1>2. Limits!Init => CapacityInv
  BY CapacityInit
<1>3. CapacityInv /\ [Limits!Next]_(Limits!vars) => CapacityInv'
  BY CapacityStep
<1> QED
  <2>1. Limits!OutflowBounded => OutflowBounded
    BY DEF OutflowBounded
  <2> QED
    BY <1>1, <1>2, <1>3, <2>1, PartsLimits, PTL DEF Limits!Spec

-----------------------------------------------------------------------------
(* The rate limiter of orders and cancellations.                           *)

\* A behaviour of the whole is one of the limiter.
LEMMA PartsLimiter == PartsSpec => Limiter!Spec
<1>1. PartsInit => Limiter!Init
  BY DEF PartsInit
<1>2. [PartsNext]_<<part, vars, orders, limits, limiter>> => [Limiter!Next]_(Limiter!vars)
  <2> SUFFICES ASSUME [PartsNext]_<<part, vars, orders, limits, limiter>>
               PROVE  Limiter!Next \/ UNCHANGED limiter
    BY DEF limiter, Limiter!vars, Limiter!limiter, Limiter!history
  <2> QED
    BY DEF PartsNext
<1> QED
  BY <1>1, <1>2, PTL DEF PartsSpec, Limiter!Spec

\* The blocks of the longest window, and those in which a key asked for something.
Longest == Limiter!MaxNumBlocks(config)
Recent == Limiter!Window(Longest)
Busy(k) == {h \in Recent : asked[k][h] > 0}

\* Nothing was asked for at a height to come, and no more granted than asked for.
LimiterTypes ==
  /\ stored \in Configs /\ config \in Configs
  /\ committed \in Limiter!Heights
  /\ asked \in [Keys -> [Limiter!Heights -> Nat]]
  /\ granted \in [Keys -> [Limiter!Heights -> Nat]]
  /\ \A k \in Keys, h \in Limiter!Heights :
       granted[k][h] <= asked[k][h] /\ (h > committed => asked[k][h] = 0)

\* The counts per block are those of the longest window, for keys that have any.
BlocksKept ==
  /\ DOMAIN blockCounts = {k \in Keys : Busy(k) # {}}
  /\ \A k \in DOMAIN blockCounts :
       DOMAIN blockCounts[k] = Busy(k) /\ \A h \in Busy(k) : blockCounts[k][h] = asked[k][h]

\* The dirty set at an offset is of the one block of the longest window there.
DirtyKept ==
  /\ DOMAIN dirty = 0 .. Longest - 1
  /\ \A o \in DOMAIN dirty : dirty[o] = {k \in Keys : \E h \in Busy(k) : h % Longest = o}

\* The counts per limit are the sums over their windows, for the same keys.
LimitsKept ==
  /\ DOMAIN limitCounts = DOMAIN blockCounts
  /\ \A k \in Keys, i \in DOMAIN config :
       Limiter!LimitsOf(k)[i] = SumOf(asked[k], Limiter!Window(config[i].num))

GrantsWithin ==
  \A k \in Keys, i \in DOMAIN config :
    SumOf(granted[k], Limiter!Window(config[i].num)) <= config[i].limit

LimiterInv ==
  LimiterTypes /\ BlocksKept /\ DirtyKept /\ LimitsKept /\ GrantsWithin /\ panicked = FALSE

\* What the module sums with is the operator the lemmas are about.
LEMMA SameSum == \A f, S : Limiter!SumOf(f, S) = SumOf(f, S)
BY DEF Limiter!SumOf, SumOf, Limiter!Units, Units, Limiter!Cardinality, Cardinality

\* A configuration has limits over at least one block, the last over the most.
LEMMA ConfigType ==
  ASSUME Limiter!WellFormed, NEW c \in Configs
  PROVE  /\ Limiter!MaxNumBlocks(c) \in Nat \ {0}
         /\ \A i \in DOMAIN c : /\ c[i].num \in Nat \ {0} /\ c[i].limit \in Nat
                                /\ c[i].num <= Limiter!MaxNumBlocks(c)
<1> DEFINE R == [num : Nat \ {0}, limit : Nat \ {0}]
<1>1. /\ c \in Seq(R) /\ c # <<>>
      /\ \A i, j \in DOMAIN c : i <= j => c[i].num <= c[j].num
  BY DEF Limiter!WellFormed
<1>2. \A r \in R : r.num \in Nat \ {0} /\ r.limit \in Nat
  OBVIOUS
<1> HIDE DEF R
<1>3. /\ Len(c) \in DOMAIN c /\ \A i \in DOMAIN c : c[i] \in R /\ i <= Len(c)
  BY <1>1
<1> QED
  BY <1>1, <1>2, <1>3 DEF Limiter!MaxNumBlocks

\* Windows are finite and within the longest one, and end with the last block.
LEMMA WindowType ==
  ASSUME Limiter!WellFormed, LimiterTypes
  PROVE  /\ committed \in Nat /\ Limiter!Heights \subseteq Nat
         /\ \A num : IsFiniteSet(Limiter!Window(num)) /\ Limiter!Window(num) \subseteq Limiter!Heights
         /\ Longest \in Nat \ {0} /\ committed \in Recent
         /\ \A i \in DOMAIN config : /\ config[i].num \in Nat \ {0} /\ config[i].limit \in Nat
                                     /\ Limiter!Window(config[i].num) \subseteq Recent
                                     /\ committed \in Limiter!Window(config[i].num)
<1>1. MaxCommitted \in Nat
  BY DEF Limiter!WellFormed
<1>2. IsFiniteSet(Limiter!Heights) /\ Limiter!Heights \subseteq Nat /\ committed \in Nat
  BY <1>1, FS_Interval DEF Limiter!Heights, LimiterTypes
<1>3. \A num : Limiter!Window(num) \subseteq Limiter!Heights
  BY DEF Limiter!Window
<1>4. \A num : IsFiniteSet(Limiter!Window(num))
  BY <1>2, <1>3, FS_Subset
<1>5. /\ Longest \in Nat \ {0}
      /\ \A i \in DOMAIN config : /\ config[i].num \in Nat \ {0} /\ config[i].limit \in Nat
                                  /\ config[i].num <= Longest
  BY ConfigType DEF LimiterTypes, Longest
<1>6. \A num \in Nat \ {0} : committed \in Limiter!Window(num)
  BY <1>2 DEF Limiter!Window, LimiterTypes
<1>7. \A num \in Nat \ {0} : num <= Longest => Limiter!Window(num) \subseteq Recent
  <2> SUFFICES ASSUME NEW num \in Nat \ {0}, num <= Longest, NEW h \in Limiter!Heights,
                      h > committed - num, h <= committed
               PROVE  h > committed - Longest
    BY DEF Limiter!Window, Recent
  <2>1. h \in Nat
    BY <1>2
  <2> QED
    BY <1>2, <1>5, <2>1
<1> QED
  BY <1>2, <1>3, <1>4, <1>5, <1>6, <1>7 DEF Recent

\* perKeyBlockCounts knows what was asked for in the longest window.
LEMMA CountAtAsked ==
  ASSUME LimiterTypes, Limiter!WellFormed, BlocksKept, NEW k \in Keys, NEW h \in Recent
  PROVE  Limiter!CountAt(k, h) = asked[k][h]
<1>1. asked[k][h] \in Nat /\ (h \notin Busy(k) => asked[k][h] = 0)
  BY WindowType DEF LimiterTypes, Recent, Busy
<1>2. CASE k \in DOMAIN blockCounts
  BY <1>1, <1>2 DEF BlocksKept, Limiter!CountAt, Limiter!CountsOf
<1>3. CASE k \notin DOMAIN blockCounts
  <2>1. Busy(k) = {}
    BY <1>3 DEF BlocksKept
  <2>2. DOMAIN Limiter!CountsOf(k) = {}
    BY <1>3 DEF Limiter!CountsOf, Limiter!None
  <2> QED
    BY <1>1, <2>1, <2>2 DEF Limiter!CountAt
<1> QED
  BY <1>2, <1>3

\* A limiter that is new has counted nothing.
LEMMA NewLimiterCounts ==
  ASSUME Limiter!WellFormed, committed \in Limiter!Heights, stored \in Configs,
         config \in Configs, blockCounts = Limiter!None, limitCounts = Limiter!None,
         dirty = [o \in 0 .. Limiter!MaxNumBlocks(config) - 1 |-> {}],
         asked = Limiter!Zero, granted = Limiter!Zero, panicked = FALSE
  PROVE  LimiterInv
<1>1. \A k \in Keys, h \in Limiter!Heights : asked[k][h] = 0 /\ granted[k][h] = 0
  BY DEF Limiter!Zero
<1>2. LimiterTypes
  BY <1>1 DEF LimiterTypes, Limiter!Zero
<1>3. Recent \subseteq Limiter!Heights
  BY <1>2, WindowType DEF Recent
<1>4. \A k \in Keys : Busy(k) = {}
  BY <1>1, <1>3 DEF Busy
<1>5. DOMAIN blockCounts = {} /\ DOMAIN limitCounts = {}
  BY DEF Limiter!None
<1>6. BlocksKept /\ DirtyKept
  BY <1>4, <1>5 DEF BlocksKept, DirtyKept, Longest
<1>7. \A k \in Keys : \A num : SumOf(asked[k], Limiter!Window(num)) = 0
                            /\ SumOf(granted[k], Limiter!Window(num)) = 0
  <2> SUFFICES ASSUME NEW k \in Keys, NEW num
               PROVE  SumOf(asked[k], Limiter!Window(num)) = 0
                      /\ SumOf(granted[k], Limiter!Window(num)) = 0
    OBVIOUS
  <2>1. \A h \in Limiter!Window(num) : asked[k][h] = 0 /\ granted[k][h] = 0
    BY <1>1 DEF Limiter!Window
  <2> QED
    BY <2>1, SumZero
<1>8. LimitsKept
  BY <1>5, <1>7 DEF LimitsKept, Limiter!LimitsOf
<1>9. \A i \in DOMAIN config : config[i].limit \in Nat
  BY <1>2, WindowType
<1>10. GrantsWithin
  BY <1>7, <1>9 DEF GrantsWithin
<1> QED
  BY <1>2, <1>6, <1>8, <1>10 DEF LimiterInv

\* RateLimitIncrBy counts in the block's count and in every window alike.
LEMMA IncrKeeps ==
  ASSUME Limiter!WellFormed, LimiterInv, NEW k \in Keys, NEW n \in Weights,
         Limiter!RateLimitIncrBy(k, n)
  PROVE  LimiterInv'
<1>1. /\ LimiterTypes /\ BlocksKept /\ DirtyKept /\ LimitsKept /\ GrantsWithin
      /\ panicked = FALSE /\ n \in Nat \ {0}
  BY DEF LimiterInv, Limiter!WellFormed
<1>2. /\ committed \in Nat /\ committed \in Limiter!Heights /\ Longest \in Nat \ {0} /\ committed \in Recent
      /\ Recent \subseteq Limiter!Heights
      /\ \A num : IsFiniteSet(Limiter!Window(num)) /\ Limiter!Window(num) \subseteq Limiter!Heights
      /\ \A i \in DOMAIN config : committed \in Limiter!Window(config[i].num)
                                  /\ config[i].limit \in Nat
  BY <1>1, WindowType DEF LimiterTypes, Recent
<1>3. /\ asked \in [Keys -> [Limiter!Heights -> Nat]]
      /\ granted \in [Keys -> [Limiter!Heights -> Nat]]
      /\ \A j \in Keys, h \in Limiter!Heights :
           granted[j][h] <= asked[j][h] /\ (h > committed => asked[j][h] = 0)
  BY <1>1 DEF LimiterTypes
<1>4. UNCHANGED <<committed, stored, config, panicked>>
  BY DEF Limiter!RateLimitIncrBy
<1>5. /\ asked' \in [Keys -> [Limiter!Heights -> Nat]]
      /\ asked'[k][committed] = asked[k][committed] + n
      /\ \A j \in Keys, h \in Limiter!Heights :
           j # k \/ h # committed => asked'[j][h] = asked[j][h]
  <2>1. asked' = [asked EXCEPT ![k][committed] = @ + n]
    BY DEF Limiter!RateLimitIncrBy
  <2>2. asked[k][committed] + n \in Nat
    BY <1>1, <1>2, <1>3
  <2> QED
    BY <1>2, <1>3, <2>1, <2>2
<1>6. PICK counts : /\ counts = [i \in DOMAIN config |-> Limiter!LimitsOf(k)[i] + n]
                    /\ limitCounts' = [j \in DOMAIN limitCounts \cup {k} |->
                                         IF j = k THEN counts ELSE limitCounts[j]]
                    /\ granted' = [granted EXCEPT ![k][committed] =
                                     IF Limiter!WithinLimits(counts) THEN @ + n ELSE @]
  BY DEF Limiter!RateLimitIncrBy, Limiter!Counted
<1>7. /\ granted' \in [Keys -> [Limiter!Heights -> Nat]]
      /\ \A j \in Keys, h \in Limiter!Heights :
           j # k \/ h # committed => granted'[j][h] = granted[j][h]
      /\ granted'[k][committed] <= asked'[k][committed]
      /\ ~Limiter!WithinLimits(counts) => granted' = granted
  <2>1. CASE Limiter!WithinLimits(counts)
    <3>1. granted' = [granted EXCEPT ![k][committed] = @ + n]
      BY <1>6, <2>1
    <3>2. /\ granted[k][committed] + n \in Nat
          /\ granted[k][committed] + n <= asked[k][committed] + n
      BY <1>1, <1>2, <1>3
    <3> QED
      BY <1>2, <1>3, <1>5, <2>1, <3>1, <3>2
  <2>2. CASE ~Limiter!WithinLimits(counts)
    <3>1. granted' = granted
      BY <1>2, <1>3, <1>6, <2>2
    <3>2. granted[k][committed] <= asked[k][committed] + n
      BY <1>1, <1>2, <1>3
    <3> QED
      BY <1>2, <1>3, <1>5, <3>1, <3>2
  <2> QED
    BY <2>1, <2>2
<1>8. LimiterTypes'
  <2>1. ASSUME NEW j \in Keys, NEW h \in Limiter!Heights
        PROVE  granted'[j][h] <= asked'[j][h] /\ (h > committed => asked'[j][h] = 0)
    <3>1. CASE j = k /\ h = committed
      BY <1>2, <1>7, <3>1
    <3>2. CASE j # k \/ h # committed
      BY <1>3, <1>5, <1>7, <3>2
    <3> QED
      BY <3>1, <3>2
  <2> QED
    BY <1>1, <1>4, <1>5, <1>7, <2>1 DEF LimiterTypes, Limiter!Heights
<1>9. Longest' = Longest /\ Recent' = Recent /\ \A num : Limiter!Window(num)' = Limiter!Window(num)
  BY <1>4 DEF Longest, Recent, Limiter!MaxNumBlocks, Limiter!Window, Limiter!Heights
<1>10. /\ Busy(k)' = Busy(k) \cup {committed}
       /\ \A j \in Keys : j # k => Busy(j)' = Busy(j)
  <2>1. asked'[k][committed] > 0
    BY <1>1, <1>2, <1>3, <1>5
  <2> QED
    BY <1>2, <1>5, <1>9, <2>1 DEF Busy
<1>11. BlocksKept'
  <2>1. \A h \in Busy(k) : Limiter!CountAt(k, h) = asked[k][h]
    BY <1>1, CountAtAsked DEF Busy
  <2>2. Limiter!CountAt(k, committed) = asked[k][committed]
    BY <1>1, <1>2, CountAtAsked
  <2>3. DOMAIN Limiter!CountsOf(k) = Busy(k)
    BY <1>1 DEF BlocksKept, Limiter!CountsOf, Limiter!None
  <2>4. blockCounts' = [j \in DOMAIN blockCounts \cup {k} |->
           IF j # k THEN blockCounts[j]
           ELSE [h \in Busy(k) \cup {committed} |->
                   IF h = committed THEN asked[k][committed] + n ELSE asked[k][h]]]
    BY <2>1, <2>2, <2>3 DEF Limiter!RateLimitIncrBy
  <2>5. /\ DOMAIN blockCounts' = DOMAIN blockCounts \cup {k}
        /\ DOMAIN blockCounts'[k] = Busy(k) \cup {committed}
        /\ \A h \in Busy(k) \cup {committed} : blockCounts'[k][h] = asked'[k][h]
        /\ \A j \in DOMAIN blockCounts : j # k => blockCounts'[j] = blockCounts[j]
    BY <1>2, <1>5, <2>4 DEF Busy
  <2>6. ASSUME NEW j \in DOMAIN blockCounts'
        PROVE  /\ DOMAIN blockCounts'[j] = Busy(j)'
               /\ \A h \in Busy(j)' : blockCounts'[j][h] = asked'[j][h]
    <3>1. CASE j = k
      BY <1>10, <2>5, <3>1
    <3>2. CASE j # k
      <4>1. j \in DOMAIN blockCounts /\ j \in Keys
        BY <1>1, <2>5, <2>6, <3>2 DEF BlocksKept
      <4>2. DOMAIN blockCounts[j] = Busy(j) /\ \A h \in Busy(j) : blockCounts[j][h] = asked[j][h]
        BY <1>1, <4>1 DEF BlocksKept
      <4>3. \A h \in Busy(j) : asked'[j][h] = asked[j][h]
        BY <1>2, <1>5, <3>2, <4>1 DEF Busy
      <4> QED
        BY <1>10, <2>5, <3>2, <4>1, <4>2, <4>3
    <3> QED
      BY <3>1, <3>2
  <2>7. DOMAIN blockCounts' = {j \in Keys : Busy(j)' # {}}
    BY <1>1, <1>10, <2>5 DEF BlocksKept
  <2> QED
    BY <2>6, <2>7 DEF BlocksKept
<1>12. DirtyKept'
  <2>1. /\ dirty' = [dirty EXCEPT ![committed % Longest] = @ \cup {k}]
        /\ DOMAIN dirty = 0 .. Longest - 1
    BY <1>1 DEF DirtyKept, Limiter!RateLimitIncrBy, Longest
  <2>2. DOMAIN dirty' = 0 .. Longest - 1
    BY <2>1
  <2>3. ASSUME NEW o \in 0 .. Longest - 1
        PROVE  dirty'[o] = {j \in Keys : \E h \in Busy(j)' : h % Longest = o}
    <3>1. dirty[o] = {j \in Keys : \E h \in Busy(j) : h % Longest = o}
      BY <1>1, <2>1 DEF DirtyKept
    <3>2. dirty'[o] = IF committed % Longest = o THEN dirty[o] \cup {k} ELSE dirty[o]
      BY <2>1
    <3> QED
      BY <1>10, <3>1, <3>2
  <2> QED
    BY <1>9, <2>2, <2>3 DEF DirtyKept
<1>13. ASSUME NEW j \in Keys, NEW i \in DOMAIN config
       PROVE  /\ Limiter!LimitsOf(j)'[i] = SumOf(asked'[j], Limiter!Window(config[i].num))
              /\ SumOf(granted'[j], Limiter!Window(config[i].num)) <= config[i].limit
  <2>1. PICK W : W = Limiter!Window(config[i].num)
    OBVIOUS
  <2>2. IsFiniteSet(W) /\ W \subseteq Limiter!Heights /\ committed \in W
    BY <1>2, <2>1
  <2>3. /\ Limiter!LimitsOf(j)[i] = SumOf(asked[j], W)
        /\ SumOf(granted[j], W) <= config[i].limit
    BY <1>1, <2>1 DEF LimitsKept, GrantsWithin
  <2>4. CASE j # k
    <3>1. \A h \in W : asked'[j][h] = asked[j][h] /\ granted'[j][h] = granted[j][h]
      BY <1>5, <1>7, <2>2, <2>4
    <3>2. SumOf(asked'[j], W) = SumOf(asked[j], W) /\ SumOf(granted'[j], W) = SumOf(granted[j], W)
      BY <3>1, SumAgree
    <3>3. Limiter!LimitsOf(j)' = Limiter!LimitsOf(j)
      BY <1>4, <1>6, <2>4 DEF Limiter!LimitsOf
    <3> QED
      BY <2>1, <2>3, <3>2, <3>3
  <2>5. CASE j = k
    <3>1. Limiter!LimitsOf(j)'[i] = SumOf(asked[k], W) + n
      BY <1>6, <2>3, <2>5 DEF Limiter!LimitsOf
    <3>2. /\ \A h \in W : asked[k][h] \in Nat /\ asked'[k][h] \in Nat /\ granted'[k][h] \in Nat
          /\ \A h \in W \ {committed} : asked'[k][h] = asked[k][h]
          /\ \A h \in W : granted'[k][h] <= asked'[k][h]
      <4>1. /\ \A h \in W : asked[k][h] \in Nat /\ asked'[k][h] \in Nat /\ granted'[k][h] \in Nat
            /\ \A h \in W \ {committed} : asked'[k][h] = asked[k][h]
        BY <1>3, <1>5, <1>7, <2>2
      <4>2. \A h \in Limiter!Heights : granted'[k][h] <= asked'[k][h]
        BY <1>8 DEF LimiterTypes, Limiter!Heights
      <4> QED
        BY <2>2, <4>1, <4>2
    <3>3. SumOf(asked'[k], W) = SumOf(asked[k], W) - asked[k][committed] + asked'[k][committed]
      BY <2>2, <3>2, SumChange
    <3>4. SumOf(asked'[k], W) = SumOf(asked[k], W) + n
      <4>1. SumOf(asked[k], W) \in Nat /\ asked[k][committed] \in Nat
        BY <2>2, <3>2, SumType
      <4> QED
        BY <1>1, <1>5, <3>3, <4>1
    <3>5. SumOf(granted'[k], W) <= config[i].limit
      <4>1. CASE Limiter!WithinLimits(counts)
        <5>1. SumOf(granted'[k], W) <= SumOf(asked'[k], W)
          BY <2>2, <3>2, SumGrows
        <5>2. SumOf(asked'[k], W) <= config[i].limit
          <6>1. counts[i] <= config[i].limit
            BY <4>1 DEF Limiter!WithinLimits
          <6>2. counts[i] = SumOf(asked[k], W) + n
            BY <1>6, <2>3, <2>5
          <6> QED
            BY <3>4, <6>1, <6>2
        <5>3. SumOf(granted'[k], W) \in Nat /\ SumOf(asked'[k], W) \in Nat
          BY <2>2, <3>2, SumType
        <5> QED
          BY <1>2, <5>1, <5>2, <5>3
      <4>2. CASE ~Limiter!WithinLimits(counts)
        BY <1>7, <2>3, <2>5, <4>2
      <4> QED
        BY <4>1, <4>2
    <3> QED
      BY <2>1, <2>5, <3>1, <3>4, <3>5
  <2> QED
    BY <2>4, <2>5
<1>14. LimitsKept'
  <2>1. DOMAIN limitCounts' = DOMAIN limitCounts \cup {k}
    BY <1>6
  <2>2. DOMAIN blockCounts' = DOMAIN blockCounts \cup {k}
    BY DEF Limiter!RateLimitIncrBy
  <2>3. DOMAIN limitCounts' = DOMAIN blockCounts'
    BY <1>1, <2>1, <2>2 DEF LimitsKept
  <2> QED
    BY <1>4, <1>9, <1>13, <2>3 DEF LimitsKept
<1>15. GrantsWithin'
  BY <1>4, <1>9, <1>13 DEF GrantsWithin
<1> QED
  BY <1>1, <1>4, <1>8, <1>11, <1>12, <1>14, <1>15 DEF LimiterInv

\* Blocks less than the array's length apart have offsets of their own.
LEMMA OffsetsDistinct ==
  ASSUME NEW m \in Nat \ {0}, NEW a \in Nat, NEW b \in Nat, a < b, b < a + m
  PROVE  a % m # b % m
<1> SUFFICES ASSUME a % m = b % m PROVE FALSE
  OBVIOUS
<1>1. PICK r, p, q : r = a % m /\ p = a \div m /\ q = b \div m
  OBVIOUS
<1>2. p \in Int /\ q \in Int /\ r \in Int /\ a = m * p + r /\ b = m * q + r
  BY <1>1
<1>3. m * (q - p) = b - a
  BY <1>2
<1>4. q - p \in Int /\ m * (q - p) > 0 /\ m * (q - p) < m
  BY <1>2, <1>3
<1>5. q - p >= 1
  BY <1>4
<1>6. m * (q - p) >= m
  BY <1>4, <1>5
<1> QED
  BY <1>4, <1>6

\* The block that leaves the longest window had the offset of the next one.
LEMMA OffsetReused ==
  ASSUME NEW m \in Nat \ {0}, NEW a \in Nat, a >= m
  PROVE  (a - m) % m = a % m
<1>1. PICK r, q : r = a % m /\ q = a \div m
  OBVIOUS
<1>2. r \in 0 .. m - 1 /\ q \in Int /\ a = m * q + r
  BY <1>1
<1>3. a - m = m * (q - 1) + r /\ q - 1 \in Int /\ a - m \in Int
  BY <1>2
<1>4. PICK s, p : s = (a - m) % m /\ p = (a - m) \div m
  OBVIOUS
<1>5. s \in 0 .. m - 1 /\ p \in Int /\ a - m = m * p + s
  BY <1>3, <1>4
<1>6. m * (p - (q - 1)) = r - s
  BY <1>2, <1>3, <1>5
<1>7. m * (p - (q - 1)) < m /\ m * (p - (q - 1)) > -m /\ p - (q - 1) \in Int
  BY <1>2, <1>5, <1>6
<1>8. p - (q - 1) < 1 /\ p - (q - 1) > -1
  BY <1>7
<1>9. p - (q - 1) = 0
  BY <1>7, <1>8
<1>10. r = s
  BY <1>2, <1>5, <1>6, <1>9
<1> QED
  BY <1>1, <1>4, <1>10

\* A window moves on by a block, in which nothing was asked for yet: its sum
\* loses what was asked for in the block that leaves it.
LEMMA SumMovesOn ==
  ASSUME NEW f \in [Limiter!Heights -> Nat], Limiter!WellFormed, LimiterTypes,
         committed + 1 \in Limiter!Heights, f[committed + 1] = 0, NEW num \in Nat \ {0},
         NEW W, W = Limiter!Window(num),
         NEW V, V = {h \in Limiter!Heights : h > committed + 1 - num /\ h <= committed + 1}
  PROVE  /\ SumOf(f, V) \in Nat
         /\ SumOf(f, V) = IF committed + 1 >= num THEN SumOf(f, W) - f[committed + 1 - num]
                                               ELSE SumOf(f, W)
<1>1. committed \in Nat /\ Limiter!Heights \subseteq Nat /\ IsFiniteSet(W) /\ W \subseteq Limiter!Heights
  BY WindowType
<1>2. PICK new, old : new = committed + 1 /\ old = committed + 1 - num
  OBVIOUS
<1>3. V = (W \ {old}) \cup {new} /\ new \notin W \ {old}
  <2>1. W = {h \in Limiter!Heights : h > committed - num /\ h <= committed}
    BY DEF Limiter!Window
  <2>2. /\ new \in Limiter!Heights /\ old \in Int /\ new = committed + 1 /\ old = committed + 1 - num
        /\ V = {h \in Limiter!Heights : h > new - num /\ h <= new}
    BY <1>1, <1>2
  <2>3. /\ W \subseteq Limiter!Heights /\ V \subseteq Limiter!Heights
        /\ \A h \in Limiter!Heights : h \in W <=> h > committed - num /\ h <= committed
        /\ \A h \in Limiter!Heights : h \in V <=> h > new - num /\ h <= new
    BY <2>1, <2>2
  <2>4. ASSUME NEW h \in Limiter!Heights PROVE h \in V <=> h \in (W \ {old}) \cup {new}
    <3>1. h \in Nat /\ committed \in Nat /\ num \in Nat \ {0}
      BY <1>1
    <3>2. h > new - num /\ h <= new <=> (h > committed - num /\ h <= committed /\ h # old) \/ h = new
      BY <2>2, <3>1
    <3> QED
      BY <2>3, <3>2
  <2>5. new \notin W
    BY <1>1, <2>2, <2>3
  <2> QED
    BY <2>2, <2>3, <2>4, <2>5
<1>4. IsFiniteSet(W \ {old}) /\ W \ {old} \subseteq Limiter!Heights
  BY <1>1, FS_Subset
<1>5. \A h \in Limiter!Heights : f[h] \in Nat
  OBVIOUS
<1>6. SumOf(f, V) = SumOf(f, W \ {old}) + f[new]
  <2>1. \A h \in (W \ {old}) \cup {new} : f[h] \in Nat
    BY <1>2, <1>4, <1>5
  <2>2. SumOf(f, (W \ {old}) \cup {new}) = SumOf(f, W \ {old}) + f[new]
    BY <1>3, <1>4, <2>1, SumAdd
  <2> QED
    BY <1>3, <2>2
<1>7. SumOf(f, W \ {old}) \in Nat
  BY <1>4, <1>5, SumType
<1>8. SumOf(f, V) = SumOf(f, W \ {old})
  BY <1>2, <1>6, <1>7
<1>9. CASE committed + 1 >= num
  <2>1. old \in W
    <3>1. MaxCommitted \in Nat /\ committed + 1 <= MaxCommitted
      BY DEF Limiter!WellFormed, Limiter!Heights
    <3>2. old \in Limiter!Heights
      BY <1>1, <1>2, <1>9, <3>1 DEF Limiter!Heights
    <3> QED
      BY <1>1, <1>2, <1>9, <3>2 DEF Limiter!Window
  <2>2. SumOf(f, W \ {old}) = SumOf(f, W) - f[old]
    BY <1>1, <1>5, <2>1, SumWithout
  <2> QED
    BY <1>2, <1>7, <1>8, <1>9, <2>2
<1>10. CASE ~(committed + 1 >= num)
  <2>1. old \notin W
    BY <1>1, <1>2, <1>10
  <2>2. W \ {old} = W
    BY <2>1
  <2> QED
    BY <1>7, <1>8, <1>10, <2>2
<1> QED
  BY <1>9, <1>10

\* PruneRateLimits takes from every window what leaves it, and never panics.
LEMMA PruneKeeps ==
  ASSUME Limiter!WellFormed, LimiterInv, Limiter!PrepareCheckState
  PROVE  LimiterInv'
<1>1. /\ LimiterTypes /\ BlocksKept /\ DirtyKept /\ LimitsKept /\ GrantsWithin
      /\ panicked = FALSE
  BY DEF LimiterInv
<1>2. PICK now, oldest : now = committed + 1 /\ oldest = committed + 1 - Longest
  OBVIOUS
<1>3. /\ committed \in Nat /\ Limiter!Heights \subseteq Nat /\ Longest \in Nat \ {0}
      /\ \A num : IsFiniteSet(Limiter!Window(num)) /\ Limiter!Window(num) \subseteq Limiter!Heights
      /\ \A i \in DOMAIN config : /\ config[i].num \in Nat \ {0} /\ config[i].limit \in Nat
                                  /\ Limiter!Window(config[i].num) \subseteq Recent
  BY <1>1, WindowType
<1>4. now \in Limiter!Heights /\ now \in Nat
  <2>1. MaxCommitted \in Nat /\ committed < MaxCommitted
    BY DEF Limiter!WellFormed, Limiter!PrepareCheckState
  <2> QED
    BY <1>2, <1>3, <2>1 DEF Limiter!Heights
<1>5. /\ asked \in [Keys -> [Limiter!Heights -> Nat]]
      /\ granted \in [Keys -> [Limiter!Heights -> Nat]]
      /\ \A k \in Keys, h \in Limiter!Heights :
           granted[k][h] <= asked[k][h] /\ (h > committed => asked[k][h] = 0)
  BY <1>1 DEF LimiterTypes
<1>6. committed' = now /\ UNCHANGED <<stored, config, asked, granted>>
  BY <1>2 DEF Limiter!PrepareCheckState, Limiter!history
<1>7. \A k \in Keys : asked[k][now] = 0 /\ granted[k][now] = 0
  <2> SUFFICES ASSUME NEW k \in Keys PROVE asked[k][now] = 0 /\ granted[k][now] = 0
    OBVIOUS
  <2>1. now > committed
    BY <1>2, <1>3
  <2>2. asked[k][now] = 0 /\ granted[k][now] \in Nat /\ granted[k][now] <= asked[k][now]
    BY <1>4, <1>5, <2>1
  <2> QED
    BY <2>2
<1>8. LimiterTypes'
  <2>1. \A h \in Limiter!Heights : h > now => h > committed
    BY <1>2, <1>3
  <2> QED
    BY <1>1, <1>4, <1>5, <1>6, <2>1 DEF LimiterTypes, Limiter!Heights
<1>9. /\ Longest' = Longest
      /\ \A num : Limiter!Window(num)' = {h \in Limiter!Heights : h > now - num /\ h <= now}
  BY <1>6 DEF Longest, Limiter!MaxNumBlocks, Limiter!Window, Limiter!Heights
<1>10. Recent' = (Recent \ {oldest}) \cup {now} /\ now \notin Recent
  <2>1. Recent' = {h \in Limiter!Heights : h > now - Longest /\ h <= now}
    BY <1>9 DEF Recent
  <2>2. Recent = {h \in Limiter!Heights : h > committed - Longest /\ h <= committed}
    BY DEF Recent, Limiter!Window
  <2>3. PICK m, V, W : m = Longest /\ V = Recent' /\ W = Recent
    OBVIOUS
  <2>4. /\ m \in Nat \ {0} /\ now = committed + 1 /\ oldest = committed + 1 - m /\ oldest \in Int
        /\ V = {h \in Limiter!Heights : h > now - m /\ h <= now}
        /\ W = {h \in Limiter!Heights : h > committed - m /\ h <= committed}
    BY <1>2, <1>3, <2>1, <2>2, <2>3
  <2>5. /\ W \subseteq Limiter!Heights /\ V \subseteq Limiter!Heights
        /\ \A h \in Limiter!Heights : h \in W <=> h > committed - m /\ h <= committed
        /\ \A h \in Limiter!Heights : h \in V <=> h > now - m /\ h <= now
    BY <2>4
  <2>6. V = (W \ {oldest}) \cup {now} /\ now \notin W
    <3>1. ASSUME NEW h \in Limiter!Heights PROVE h \in V <=> h \in (W \ {oldest}) \cup {now}
      <4>1. h \in Nat /\ committed \in Nat
        BY <1>3
      <4>2. h > now - m /\ h <= now <=> (h > committed - m /\ h <= committed /\ h # oldest) \/ h = now
        BY <2>4, <4>1
      <4> QED
        BY <2>5, <4>2
    <3>2. now \notin W
      BY <1>3, <1>4, <2>4, <2>5
    <3> QED
      BY <1>4, <2>5, <3>1, <3>2
  <2> QED
    BY <2>3, <2>6
<1>11. \A k \in Keys : Busy(k)' = Busy(k) \ {oldest}
  BY <1>6, <1>7, <1>10 DEF Busy
<1>12. PICK off : off = now % Longest
  OBVIOUS
<1>13. off \in 0 .. Longest - 1
  BY <1>3, <1>4, <1>12
<1>14. \A k \in Keys : oldest \in Busy(k) => oldest % Longest = off
  <2> SUFFICES ASSUME NEW k \in Keys, oldest \in Busy(k) PROVE oldest % Longest = off
    OBVIOUS
  <2>1. oldest \in Nat
    BY <1>3 DEF Busy, Recent
  <2>2. now >= Longest /\ oldest = now - Longest
    BY <1>2, <1>3, <2>1
  <2> QED
    BY <1>3, <1>4, <1>12, <2>2, OffsetReused
<1>15. \A k \in Keys : \A h \in Busy(k) : h # oldest => h % Longest # off
  <2> SUFFICES ASSUME NEW k \in Keys, NEW h \in Busy(k), h # oldest
               PROVE  h % Longest # off
    OBVIOUS
  <2>1. h \in Nat /\ h > committed - Longest /\ h <= committed
    BY <1>3 DEF Busy, Recent, Limiter!Window
  <2>2. h < now /\ now < h + Longest
    BY <1>2, <1>3, <2>1
  <2> QED
    BY <1>3, <1>4, <1>12, <2>1, <2>2, OffsetsDistinct
<1>16. /\ DOMAIN dirty = 0 .. Longest - 1
       /\ \A o \in DOMAIN dirty : dirty[o] = {k \in Keys : \E h \in Busy(k) : h % Longest = o}
  BY <1>1 DEF DirtyKept
<1>17. dirty[off] = {k \in Keys : oldest \in Busy(k)}
  BY <1>13, <1>14, <1>15, <1>16
<1>18. Limiter!Missing(now) = {}
  <2>1. \A o \in DOMAIN dirty : dirty[o] \subseteq DOMAIN blockCounts
    BY <1>1, <1>16 DEF BlocksKept
  <2>2. \A i \in DOMAIN config : Limiter!DirtyFor(now, i) \subseteq DOMAIN blockCounts
    <3> SUFFICES ASSUME NEW i \in DOMAIN config, now >= config[i].num
                 PROVE  dirty[(now - config[i].num) % Limiter!MaxNumBlocks(config)]
                          \subseteq DOMAIN blockCounts
      BY DEF Limiter!DirtyFor, Limiter!Reaches
    <3>1. now - config[i].num \in Nat
      BY <1>3, <1>4
    <3>2. (now - config[i].num) % Longest \in 0 .. Longest - 1
      BY <1>3, <3>1
    <3> QED
      BY <1>16, <2>1, <3>2 DEF Longest
  <2>3. dirty[now % Limiter!MaxNumBlocks(config)] \subseteq DOMAIN blockCounts
    BY <1>12, <1>13, <1>16, <2>1 DEF Longest
  <2>4. DOMAIN limitCounts = DOMAIN blockCounts
    BY <1>1 DEF LimitsKept
  <2> QED
    BY <2>2, <2>3, <2>4 DEF Limiter!Missing
<1>19. PICK gone :
         /\ gone = Limiter!Emptied(now)
         /\ limitCounts' = [k \in DOMAIN limitCounts \ gone |-> Limiter!Subtracted(now, k)]
         /\ blockCounts' = [k \in DOMAIN blockCounts \ gone |-> Limiter!WithoutOldest(now, k)]
         /\ dirty' = [dirty EXCEPT ![off] = {}]
         /\ panicked' = panicked
  <2>1. now = committed + 1 /\ off = (committed + 1) % Limiter!MaxNumBlocks(config)
    BY <1>2, <1>12 DEF Longest
  <2>2. Limiter!Missing(committed + 1) = {}
    BY <1>18, <2>1
  <2>3. PICK gone \in {Limiter!Emptied(committed + 1)} :
          /\ limitCounts' = [k \in DOMAIN limitCounts \ gone |-> Limiter!Subtracted(committed + 1, k)]
          /\ blockCounts' = [k \in DOMAIN blockCounts \ gone |-> Limiter!WithoutOldest(committed + 1, k)]
          /\ dirty' = [dirty EXCEPT ![(committed + 1) % Limiter!MaxNumBlocks(config)] = {}]
          /\ UNCHANGED panicked
    BY <2>2 DEF Limiter!PrepareCheckState
  <2> QED
    BY <2>1, <2>3
<1>20. ASSUME NEW k \in DOMAIN blockCounts
       PROVE  /\ DOMAIN Limiter!WithoutOldest(now, k) = Busy(k)'
              /\ \A h \in Busy(k)' : Limiter!WithoutOldest(now, k)[h] = asked[k][h]
  <2>1. /\ k \in Keys /\ DOMAIN blockCounts[k] = Busy(k)
        /\ \A h \in Busy(k) : blockCounts[k][h] = asked[k][h]
    BY <1>1, <1>20 DEF BlocksKept
  <2>2. CASE k \notin dirty[off]
    <3>1. Busy(k)' = Busy(k)
      BY <1>11, <1>17, <2>1, <2>2
    <3>2. Limiter!WithoutOldest(now, k) = blockCounts[k]
      BY <1>12, <2>2 DEF Limiter!WithoutOldest, Longest
    <3> QED
      BY <2>1, <3>1, <3>2
  <2>3. CASE k \in dirty[off]
    <3>1. Limiter!WithoutOldest(now, k) = [g \in Busy(k) \ {oldest} |-> blockCounts[k][g]]
      <4>1. /\ oldest = now - Limiter!MaxNumBlocks(config)
            /\ off = now % Limiter!MaxNumBlocks(config)
        BY <1>2, <1>3, <1>12 DEF Longest
      <4> QED
        BY <2>1, <2>3, <4>1 DEF Limiter!WithoutOldest
    <3> QED
      BY <1>11, <2>1, <3>1
  <2> QED
    BY <2>2, <2>3
<1>21. DOMAIN blockCounts \ gone = {k \in Keys : Busy(k)' # {}}
  <2>1. gone = {k \in dirty[off] : k \in DOMAIN blockCounts /\ Busy(k)' = {}}
    <3>1. gone = {k \in dirty[off] : k \in DOMAIN blockCounts
                                      /\ DOMAIN Limiter!WithoutOldest(now, k) = {}}
      BY <1>12, <1>19 DEF Limiter!Emptied, Longest
    <3> QED
      BY <1>20, <3>1
  <2>2. DOMAIN blockCounts = {k \in Keys : Busy(k) # {}}
    BY <1>1 DEF BlocksKept
  <2>3. \A k \in Keys : k \notin dirty[off] => Busy(k)' = Busy(k)
    BY <1>11, <1>17
  <2>4. \A k \in Keys : Busy(k)' # {} => Busy(k) # {}
    BY <1>11
  <2> QED
    BY <2>1, <2>2, <2>3, <2>4
<1>22. BlocksKept'
  <2>1. DOMAIN blockCounts' = {k \in Keys : Busy(k)' # {}}
    BY <1>19, <1>21
  <2>2. ASSUME NEW k \in DOMAIN blockCounts'
        PROVE  DOMAIN blockCounts'[k] = Busy(k)' /\ \A h \in Busy(k)' : blockCounts'[k][h] = asked'[k][h]
    <3>1. k \in DOMAIN blockCounts /\ blockCounts'[k] = Limiter!WithoutOldest(now, k)
      BY <1>19, <2>2
    <3> QED
      BY <1>6, <1>20, <3>1
  <2> QED
    BY <2>1, <2>2 DEF BlocksKept
<1>23. DirtyKept'
  <2>1. DOMAIN dirty' = 0 .. Longest - 1
    BY <1>16, <1>19
  <2>2. ASSUME NEW o \in 0 .. Longest - 1
        PROVE  dirty'[o] = {k \in Keys : \E h \in Busy(k)' : h % Longest = o}
    <3>1. CASE o = off
      <4>1. dirty'[o] = {}
        BY <1>13, <1>16, <1>19, <3>1
      <4> QED
        BY <1>11, <1>15, <3>1, <4>1
    <3>2. CASE o # off
      <4>1. dirty'[o] = dirty[o] /\ dirty[o] = {k \in Keys : \E h \in Busy(k) : h % Longest = o}
        BY <1>13, <1>16, <1>19, <3>2
      <4>2. \A k \in Keys : (\E h \in Busy(k)' : h % Longest = o) <=> \E h \in Busy(k) : h % Longest = o
        BY <1>11, <1>14, <3>2
      <4> QED
        BY <4>1, <4>2
    <3> QED
      BY <3>1, <3>2
  <2> QED
    BY <1>9, <2>1, <2>2 DEF DirtyKept
<1>24. ASSUME NEW k \in Keys, NEW i \in DOMAIN config
       PROVE  /\ Limiter!LimitsOf(k)'[i] = SumOf(asked[k], Limiter!Window(config[i].num)')
              /\ SumOf(granted[k], Limiter!Window(config[i].num)') <= config[i].limit
  <2>1. PICK num, W, V : /\ num = config[i].num /\ W = Limiter!Window(num)
                         /\ V = {h \in Limiter!Heights : h > committed + 1 - num /\ h <= committed + 1}
    OBVIOUS
  <2>2. /\ num \in Nat \ {0} /\ IsFiniteSet(W) /\ W \subseteq Recent
        /\ Limiter!Window(config[i].num)' = V
    BY <1>2, <1>3, <1>6, <1>9, <2>1
  <2>3. /\ asked[k] \in [Limiter!Heights -> Nat] /\ granted[k] \in [Limiter!Heights -> Nat]
        /\ committed + 1 \in Limiter!Heights /\ asked[k][committed + 1] = 0 /\ granted[k][committed + 1] = 0
    BY <1>2, <1>4, <1>5, <1>7
  <2>4. /\ SumOf(asked[k], V) = IF committed + 1 >= num
                                THEN SumOf(asked[k], W) - asked[k][committed + 1 - num]
                                ELSE SumOf(asked[k], W)
    BY <1>1, <2>1, <2>2, <2>3, SumMovesOn
  <2>5. SumOf(granted[k], V) <= config[i].limit
    <3>1. /\ SumOf(granted[k], V) \in Nat
          /\ SumOf(granted[k], V) = IF committed + 1 >= num
                                    THEN SumOf(granted[k], W) - granted[k][committed + 1 - num]
                                    ELSE SumOf(granted[k], W)
      BY <1>1, <2>1, <2>2, <2>3, SumMovesOn
    <3>2. SumOf(granted[k], W) \in Nat
      <4>1. \A h \in W : granted[k][h] \in Nat
        BY <1>3, <2>1, <2>3
      <4> QED
        BY <2>2, <4>1, SumType
    <3>3. committed + 1 >= num => granted[k][committed + 1 - num] \in Nat
      <4>1. committed + 1 >= num => committed + 1 - num \in Limiter!Heights
        <5>1. MaxCommitted \in Nat
          BY DEF Limiter!WellFormed
        <5> QED
          BY <1>2, <1>3, <1>4, <2>2, <5>1 DEF Limiter!Heights
      <4> QED
        BY <2>3, <4>1
    <3>4. SumOf(granted[k], W) <= config[i].limit /\ config[i].limit \in Nat
      BY <1>1, <1>3, <2>1 DEF GrantsWithin
    <3> QED
      BY <3>1, <3>2, <3>3, <3>4
  <2>6. Limiter!LimitsOf(k)[i] = SumOf(asked[k], W)
    BY <1>1, <2>1 DEF LimitsKept
  <2>7. CASE k \in DOMAIN limitCounts'
    <3>1. Limiter!LimitsOf(k)'[i] = Limiter!Subtracted(now, k)[i]
      BY <1>19, <2>7 DEF Limiter!LimitsOf
    <3>2. Limiter!Subtracted(now, k)[i] =
            IF k \in Limiter!DirtyFor(now, i)
              THEN Limiter!LimitsOf(k)[i] - Limiter!CountAt(k, now - num)
              ELSE Limiter!LimitsOf(k)[i]
      BY <2>1 DEF Limiter!Subtracted
    <3>3. CASE committed + 1 >= num
      <4>1. PICK old : old = now - num
        OBVIOUS
      <4>2. old \in Nat /\ old \in W
        <5>1. MaxCommitted \in Nat
          BY DEF Limiter!WellFormed
        <5>2. old \in Nat /\ old \in Limiter!Heights
          BY <1>2, <1>3, <1>4, <2>2, <3>3, <4>1, <5>1 DEF Limiter!Heights
        <5> QED
          BY <1>2, <1>3, <2>1, <2>2, <4>1, <5>2 DEF Limiter!Window
      <4>3. Limiter!CountAt(k, old) = asked[k][old] /\ asked[k][old] \in Nat
        BY <1>1, <1>3, <2>1, <2>2, <2>3, <4>2, CountAtAsked
      <4>4. old % Longest \in 0 .. Longest - 1
        BY <1>3, <4>2
      <4>5. Limiter!DirtyFor(now, i) = {j \in Keys : \E h \in Busy(j) : h % Longest = old % Longest}
        BY <1>2, <1>16, <2>1, <3>3, <4>1, <4>4 DEF Limiter!DirtyFor, Limiter!Reaches, Longest
      <4>6. k \notin Limiter!DirtyFor(now, i) => asked[k][old] = 0
        BY <2>2, <4>2, <4>3, <4>5 DEF Busy
      <4>7. SumOf(asked[k], W) \in Nat
        <5>1. \A h \in W : asked[k][h] \in Nat
          BY <1>3, <2>1, <2>3
        <5> QED
          BY <2>2, <5>1, SumType
      <4>8. SumOf(asked[k], V) = SumOf(asked[k], W) - asked[k][old]
        <5>1. old = committed + 1 - num
          BY <1>2, <1>3, <2>2, <4>1
        <5> QED
          BY <2>4, <3>3, <5>1
      <4>9. Limiter!Subtracted(now, k)[i] =
              IF k \in Limiter!DirtyFor(now, i) THEN SumOf(asked[k], W) - asked[k][old]
                                                ELSE SumOf(asked[k], W)
        BY <2>6, <3>2, <4>1, <4>3
      <4>10. Limiter!Subtracted(now, k)[i] = SumOf(asked[k], V)
        BY <4>3, <4>6, <4>7, <4>8, <4>9
      <4> QED
        BY <2>2, <2>5, <3>1, <4>10
    <3>4. CASE ~(committed + 1 >= num)
      <4>1. Limiter!DirtyFor(now, i) = {}
        BY <1>2, <2>1, <3>4 DEF Limiter!DirtyFor, Limiter!Reaches
      <4> QED
        BY <2>2, <2>4, <2>5, <2>6, <3>1, <3>2, <3>4, <4>1
    <3> QED
      BY <3>3, <3>4
  <2>8. CASE k \notin DOMAIN limitCounts'
    <3>1. Limiter!LimitsOf(k)'[i] = 0
      BY <1>6, <2>8 DEF Limiter!LimitsOf
    <3>2. Busy(k)' = {}
      BY <1>1, <1>19, <1>21, <2>8 DEF LimitsKept
    <3>3. V \subseteq Recent'
      <4>1. num <= Longest
        BY <1>1, <2>1, ConfigType DEF LimiterTypes, Longest
      <4>2. Recent' = {h \in Limiter!Heights : h > now - Longest /\ h <= now}
        BY <1>9 DEF Recent
      <4>3. ASSUME NEW h \in V PROVE h \in Recent'
        <5>1. h \in Nat /\ h \in Limiter!Heights /\ h > committed + 1 - num /\ h <= committed + 1
          BY <1>3, <2>1, <4>3
        <5>2. h > now - Longest /\ h <= now
          BY <1>2, <1>3, <2>2, <4>1, <5>1
        <5> QED
          BY <4>2, <5>1, <5>2
      <4> QED
        BY <4>3
    <3>4. \A h \in V : asked[k][h] = 0
      <4>1. \A h \in V : h \in Recent' /\ asked[k][h] \in Nat
        BY <2>1, <2>3, <3>3
      <4> QED
        BY <1>6, <3>2, <4>1 DEF Busy
    <3>5. SumOf(asked[k], V) = 0
      BY <3>4, SumZero
    <3> QED
      BY <2>2, <2>5, <3>1, <3>5
  <2> QED
    BY <2>7, <2>8
<1>25. LimitsKept'
  <2>1. DOMAIN limitCounts' = DOMAIN blockCounts'
    BY <1>1, <1>19 DEF LimitsKept
  <2> QED
    BY <1>6, <1>24, <2>1 DEF LimitsKept
<1>26. GrantsWithin'
  BY <1>6, <1>24 DEF GrantsWithin
<1> QED
  BY <1>1, <1>8, <1>19, <1>22, <1>23, <1>25, <1>26 DEF LimiterInv

\* A node starts with a new limiter.
LEMMA LimiterInit == Limiter!WellFormed /\ Limiter!Init => LimiterInv
<1> SUFFICES ASSUME Limiter!WellFormed, Limiter!Init PROVE LimiterInv
  OBVIOUS
<1>1. committed \in Limiter!Heights
  BY DEF Limiter!WellFormed, Limiter!Init, Limiter!Heights
<1> QED
  BY <1>1, NewLimiterCounts DEF Limiter!Init

\* A new configuration starts a new limiter, whether its write to state is kept
\* or not.
LEMMA NewLimiterKeeps ==
  ASSUME Limiter!WellFormed, LimiterInv, NEW c \in Configs, Limiter!NewLimiter(c),
         UNCHANGED <<committed, panicked>>, stored' \in Configs
  PROVE  LimiterInv'
<1>1. /\ config' = c /\ blockCounts' = Limiter!None /\ limitCounts' = Limiter!None
      /\ dirty' = [o \in 0 .. Limiter!MaxNumBlocks(config') - 1 |-> {}]
      /\ asked' = Limiter!Zero /\ granted' = Limiter!Zero
  BY DEF Limiter!NewLimiter
<1>2. /\ committed' \in Limiter!Heights /\ panicked' = FALSE
      /\ \A i \in DOMAIN c : c[i].limit \in Nat
  <2>1. committed' \in Limiter!Heights /\ panicked' = FALSE
    BY DEF LimiterInv, LimiterTypes
  <2> QED
    BY <2>1, ConfigType
<1>3. \A k \in Keys, h \in Limiter!Heights : asked'[k][h] = 0 /\ granted'[k][h] = 0
  BY <1>1 DEF Limiter!Zero
<1>4. LimiterTypes'
  BY <1>1, <1>2, <1>3 DEF LimiterTypes, Limiter!Zero, Limiter!Heights
<1>5. \A k \in Keys : Busy(k)' = {}
  BY <1>3 DEF Busy, Recent, Limiter!Window, Limiter!Heights
<1>6. DOMAIN blockCounts' = {} /\ DOMAIN limitCounts' = {}
  BY <1>1 DEF Limiter!None
<1>7. BlocksKept'
  BY <1>5, <1>6 DEF BlocksKept
<1>8. DirtyKept'
  BY <1>1, <1>5 DEF DirtyKept, Longest, Limiter!MaxNumBlocks
<1>9. ASSUME NEW k \in Keys, NEW num
      PROVE  /\ SumOf(asked'[k], Limiter!Window(num)') = 0
             /\ SumOf(granted'[k], Limiter!Window(num)') = 0
  <2>1. \A h \in Limiter!Window(num)' : asked'[k][h] = 0 /\ granted'[k][h] = 0
    BY <1>3 DEF Limiter!Window, Limiter!Heights
  <2> QED
    BY <2>1, SumZero
<1>10. LimitsKept'
  <2>1. \A k \in Keys, i \in DOMAIN config' : Limiter!LimitsOf(k)'[i] = 0
    BY <1>6 DEF Limiter!LimitsOf
  <2> QED
    BY <1>6, <1>9, <2>1 DEF LimitsKept
<1>11. GrantsWithin'
  BY <1>1, <1>2, <1>9 DEF GrantsWithin
<1> QED
  BY <1>2, <1>4, <1>7, <1>8, <1>10, <1>11 DEF LimiterInv

\* Every step of the limiter keeps the invariant.
LEMMA LimiterStep ==
  Limiter!WellFormed /\ LimiterInv /\ [Limiter!Next]_(Limiter!vars) => LimiterInv'
<1> SUFFICES ASSUME Limiter!WellFormed, LimiterInv, [Limiter!Next]_(Limiter!vars)
             PROVE  LimiterInv'
  OBVIOUS
<1>1. stored \in Configs
  BY DEF LimiterInv, LimiterTypes
<1>2. ASSUME NEW c \in Configs, NEW kept \in BOOLEAN, Limiter!InitializeBlockRateLimit(c, kept)
      PROVE  LimiterInv'
  BY <1>1, <1>2, NewLimiterKeeps DEF Limiter!InitializeBlockRateLimit
<1>3. CASE Limiter!Restart
  BY <1>1, <1>3, NewLimiterKeeps DEF Limiter!Restart
<1>4. CASE UNCHANGED Limiter!vars
  <2>1. UNCHANGED <<committed, stored, config, blockCounts, limitCounts, dirty, panicked, asked,
                    granted>>
    BY <1>4 DEF Limiter!vars, Limiter!limiter, Limiter!history
  <2>2. \A k : Busy(k)' = Busy(k)
    BY <2>1 DEF Busy, Recent, Longest, Limiter!Window, Limiter!Heights, Limiter!MaxNumBlocks
  <2>3. Longest' = Longest /\ \A num : Limiter!Window(num)' = Limiter!Window(num)
    BY <2>1 DEF Longest, Limiter!MaxNumBlocks, Limiter!Window, Limiter!Heights
  <2>4. LimiterTypes'
    BY <2>1 DEF LimiterInv, LimiterTypes, Limiter!Heights
  <2>5. BlocksKept' /\ DirtyKept'
    BY <2>1, <2>2, <2>3 DEF LimiterInv, BlocksKept, DirtyKept
  <2>6. LimitsKept' /\ GrantsWithin'
    BY <2>1, <2>3 DEF LimiterInv, LimitsKept, GrantsWithin, Limiter!LimitsOf
  <2> QED
    BY <2>1, <2>4, <2>5, <2>6 DEF LimiterInv
<1> QED
  BY <1>2, <1>3, <1>4, IncrKeeps, PruneKeeps DEF Limiter!Next

\* The counters of the rate limiter are the sums of what was asked for within
\* their windows, for any limits, keys and course of blocks, no window lets more
\* through than its limit, and PruneRateLimits never panics.
THEOREM WindowsExact ==
  ASSUME Limiter!WellFormed PROVE PartsSpec => []WindowExact
<1>1. LimiterInv => Limiter!WindowExact
  <2> SUFFICES ASSUME LimiterInv PROVE Limiter!WindowExact
    OBVIOUS
  <2>1. LimitsKept /\ GrantsWithin /\ ~panicked
    BY Zenon DEF LimiterInv
  <2> QED
    BY <2>1, SameSum DEF Limiter!WindowExact, LimitsKept, GrantsWithin
<1>2. Limiter!Init => LimiterInv
  BY LimiterInit
<1>3. LimiterInv /\ [Limiter!Next]_(Limiter!vars) => LimiterInv'
  BY LimiterStep
<1> QED
  <2>1. Limiter!WindowExact => WindowExact
    BY DEF WindowExact
  <2> QED
    BY <1>1, <1>2, <1>3, <2>1, PartsLimiter, PTL DEF Limiter!Spec
=============================================================================

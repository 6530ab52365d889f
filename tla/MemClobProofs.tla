--------------------------- MODULE MemClobProofs ----------------------------
(***************************************************************************)
(* Proofs about MemClob, for any orders, windows and heights.              *)
(*                                                                         *)
(* The first half is about the memclob alone.  Each function of it has a   *)
(* lemma, named ...Does, that says what it changes and when none of its    *)
(* Must checks panics; the matching loop is a run of Turn with the         *)
(* invariant Looped.  StateOK is inductive, and NoPanic, NotCrossed,       *)
(* CancelledGone and PriceTimePriority follow from it.                     *)
(*                                                                         *)
(* The second half relates the queue to its delivery.  Every operation     *)
(* that matching appends is delivered on top of what the queue so far      *)
(* arrives at, with the same fill amounts (Mirrors); the orders the queue  *)
(* names are in state and are replayed after the next block (Named), and   *)
(* what is pending is untouched (Awaits).  QueueOK is inductive, and       *)
(* Proposable and StatefulAccounted follow from it.                        *)
(***************************************************************************)
EXTENDS MemClob, FiniteSetTheorems, WellFoundedInduction, TLAPS

\* A set of numbers that is not empty has a least one.
LEMMA LeastNat ==
  ASSUME NEW S \in SUBSET Nat, S # {}
  PROVE  \E n \in S : \A m \in S : n <= m
<1> DEFINE R == OpToRel(<, Nat)
<1>1. IsWellFoundedOn(R, Nat)
  BY NatLessThanWellFounded
<1>2. R = {ss \in Nat \X Nat : ss[1] < ss[2]}
  BY DEF OpToRel
<1> HIDE DEF R
<1>3. \E x \in S : \A y \in S : ~(<<y, x>> \in R)
  BY <1>1, WFMin
<1>4. \A x, y \in S : y < x => <<y, x>> \in R
  BY <1>2
<1>5. PICK n \in S : \A m \in S : ~(m < n)
  BY <1>3, <1>4
<1>6. \A m \in S : n <= m
  BY <1>5
<1> QED
  BY <1>6

\* Induction, with the set of the numbers that are good.
LEMMA Induct ==
  ASSUME NEW Good, 0 \in Good, NEW n \in Nat,
         \A k \in 1 .. n : k - 1 \in Good => k \in Good
  PROVE  \A k \in 0 .. n : k \in Good
<1> DEFINE Bad == {k \in 0 .. n : k \notin Good}
<1> SUFFICES ASSUME Bad # {} PROVE FALSE
  OBVIOUS
<1>1. Bad \in SUBSET Nat
  OBVIOUS
<1>2. PICK k \in Bad : \A m \in Bad : k <= m
  <2> HIDE DEF Bad
  <2> QED
    BY <1>1, LeastNat
<1>3. k # 0 /\ k \in 1 .. n /\ k - 1 \in 0 .. n /\ ~(k <= k - 1)
  BY <1>2
<1>4. k - 1 \in Good
  BY <1>2, <1>3
<1> QED
  BY <1>2, <1>3, <1>4

\* f keeps what of seq is in S.
Keeping(f, seq, S, n) ==
  /\ f[0] = <<>>
  /\ \A k \in 1 .. n :
       f[k] = IF seq[k] \in S THEN Append(f[k - 1], seq[k]) ELSE f[k - 1]

\* The filter is defined.
LEMMA KeepRuns ==
  ASSUME NEW seq, Len(seq) \in Nat, NEW S
  PROVE  \E f : Keep(seq, S) = f[Len(seq)] /\ Keeping(f, seq, S, Len(seq))
<1> DEFINE Step(r, k) == IF seq[k] \in S THEN Append(r, seq[k]) ELSE r
           Runs(g, n) == g = [i \in 0 .. n |->
                                IF i = 0 THEN <<>>
                                ELSE IF seq[i] \in S THEN Append(g[i - 1], seq[i])
                                ELSE g[i - 1]]
           Good == {n \in Nat : \E g : Runs(g, n)}
<1>1. 0 \in Good
  <2>1. Runs([k \in 0 .. 0 |-> <<>>], 0)
    OBVIOUS
  <2> QED
    BY <2>1
<1>2. ASSUME NEW n \in 1 .. Len(seq), n - 1 \in Good PROVE n \in Good
  <2>1. PICK g : Runs(g, n - 1)
    BY <1>2
  <2> DEFINE h == [k \in 0 .. n |-> IF k = n THEN Step(g[n - 1], n) ELSE g[k]]
  <2>2. Runs(h, n)
    <3> SUFFICES ASSUME NEW k \in 0 .. n
                 PROVE  h[k] = IF k = 0 THEN <<>>
                               ELSE IF seq[k] \in S THEN Append(h[k - 1], seq[k])
                               ELSE h[k - 1]
      OBVIOUS
    <3>1. k # 0 => k - 1 \in 0 .. n - 1 /\ k - 1 # n /\ h[k - 1] = g[k - 1]
      OBVIOUS
    <3>2. CASE k = n
      BY <3>1, <3>2
    <3>3. CASE k # n
      <4>1. k \in 0 .. n - 1 /\ h[k] = g[k]
        BY <3>3
      <4>2. g[k] = IF k = 0 THEN <<>>
                   ELSE IF seq[k] \in S THEN Append(g[k - 1], seq[k])
                   ELSE g[k - 1]
        BY <2>1, <4>1
      <4> QED
        BY <3>1, <4>1, <4>2
    <3> QED
      BY <3>2, <3>3
  <2> HIDE DEF h, Runs
  <2> QED
    BY <2>2
<1>3. Len(seq) \in Good
  <2> HIDE DEF Good
  <2>1. \A k \in 0 .. Len(seq) : k \in Good
    BY <1>1, <1>2, Induct
  <2> QED
    BY <2>1
<1>4. \E g : Runs(g, Len(seq))
  BY <1>3
<1> DEFINE f == CHOOSE g : Runs(g, Len(seq))
<1>5. Keep(seq, S) = f[Len(seq)]
  BY DEF Keep
<1> HIDE DEF Runs
<1>6. Runs(f, Len(seq))
  BY <1>4, Zenon
<1> HIDE DEF f
<1>7. f = [i \in 0 .. Len(seq) |->
             IF i = 0 THEN <<>>
             ELSE IF seq[i] \in S THEN Append(f[i - 1], seq[i])
             ELSE f[i - 1]]
  BY <1>6 DEF Runs
<1>8. 0 \in 0 .. Len(seq) /\ \A k \in 1 .. Len(seq) : k \in 0 .. Len(seq) /\ k # 0
  OBVIOUS
<1>9. Keeping(f, seq, S, Len(seq))
  BY <1>7, <1>8 DEF Keeping
<1> QED
  BY <1>5, <1>9

\* What the filter returns.
LEMMA KeepIs ==
  ASSUME NEW T, NEW seq \in Seq(T), NEW S
  PROVE  /\ Keep(seq, S) \in Seq(T)
         /\ ToSet(Keep(seq, S)) = ToSet(seq) \cap S
         /\ IsInjective(seq) => IsInjective(Keep(seq, S))
<1>1. PICK f : Keep(seq, S) = f[Len(seq)] /\ Keeping(f, seq, S, Len(seq))
  BY KeepRuns
<1> DEFINE Part(k) == {seq[i] : i \in 1 .. k} \cap S
           Kept(k) == /\ f[k] \in Seq(T)
                      /\ ToSet(f[k]) = Part(k)
                      /\ IsInjective(seq) => IsInjective(f[k])
           Good == {k \in 0 .. Len(seq) : Kept(k)}
<1>2. 0 \in Good
  <2>1. f[0] = <<>>
    BY <1>1 DEF Keeping
  <2>2. <<>> \in Seq(T) /\ ToSet(<<>>) = {} /\ IsInjective(<<>>)
    BY DEF ToSet, IsInjective
  <2>3. Part(0) = {}
    OBVIOUS
  <2>4. 0 \in 0 .. Len(seq)
    OBVIOUS
  <2>5. Kept(0)
    BY <2>1, <2>2, <2>3
  <2> QED
    BY <2>4, <2>5
<1>3. ASSUME NEW k \in 1 .. Len(seq), k - 1 \in Good PROVE k \in Good
  <2> SUFFICES Kept(k)
    OBVIOUS
  <2>1. Kept(k - 1)
    BY <1>3
  <2>2. PICK s : s = f[k - 1]
    OBVIOUS
  <2>3. f[k] = IF seq[k] \in S THEN Append(s, seq[k]) ELSE s
    BY <1>1, <2>2 DEF Keeping
  <2>4. Part(k) = Part(k - 1) \cup ({seq[k]} \cap S)
    OBVIOUS
  <2>5. seq[k] \in T /\ s \in Seq(T) /\ ToSet(s) = Part(k - 1)
    BY <2>1, <2>2
  <2>6. CASE seq[k] \in S
    <3>1. f[k] = Append(s, seq[k]) /\ f[k] \in Seq(T)
      BY <2>3, <2>5, <2>6
    <3>2. ToSet(f[k]) = ToSet(s) \cup {seq[k]}
      BY <3>1, <2>5 DEF ToSet
    <3>3. ASSUME IsInjective(seq) PROVE IsInjective(f[k])
      <4>1. seq[k] \notin Part(k - 1)
        BY <3>3 DEF IsInjective
      <4>2. IsInjective(s) /\ seq[k] \notin ToSet(s)
        BY <4>1, <2>1, <2>2, <2>5, <3>3
      <4>3. DOMAIN f[k] = 1 .. Len(s) + 1 /\ DOMAIN s = 1 .. Len(s) /\ Len(s) \in Nat
            /\ f[k][Len(s) + 1] = seq[k]
            /\ \A i \in 1 .. Len(s) : f[k][i] = s[i] /\ s[i] \in ToSet(s)
        BY <3>1, <2>5 DEF ToSet
      <4> QED
        BY <4>2, <4>3 DEF IsInjective
    <3> QED
      BY <3>1, <3>2, <3>3, <2>4, <2>5, <2>6
  <2>7. CASE seq[k] \notin S
    <3>1. f[k] = s /\ Part(k) = Part(k - 1)
      BY <2>3, <2>4, <2>7
    <3> QED
      BY <2>1, <2>2, <3>1
  <2> QED
    BY <2>6, <2>7
<1>4. Kept(Len(seq))
  <2>1. Len(seq) \in Nat
    OBVIOUS
  <2>2. \A k \in 0 .. Len(seq) : k \in Good
    <3> HIDE DEF Good
    <3> QED
      BY <1>2, <1>3, <2>1, Induct
  <2> HIDE DEF Kept
  <2> QED
    BY <2>1, <2>2
<1>5. Part(Len(seq)) = ToSet(seq) \cap S
  BY DEF ToSet
<1> QED
  BY <1>1, <1>4, <1>5

-----------------------------------------------------------------------------
(* Types.                                                                  *)

\* Liquidation orders, and the names that a match may have for its taker.
Liquidations == DOMAIN LiquidationOrders
Names == Ids \cup {Id(l) : l \in Liquidations}

\* Operations of the queue.
Operations ==
  [op : {"place"}, order : Hashes]
    \cup [op : {"preexisting", "remove"}, id : Ids]
    \cup [op : {"match"}, taker : Names, fills : Seq([id : Ids, amount : Nat \ {0}])]

Fillings == [Ids -> Nat]

\* Memclobs.
Mems ==
  [book : Seq(Hashes), queue : Seq(Operations), queued : SUBSET Hashes,
   removals : SUBSET Ids, matched : [Ids -> Hashes \cup {None}],
   bytes : SUBSET Hashes, cancels : [ShortTermIds -> Nat], panicked : BOOLEAN]

Statuses ==
  {"Success", "Undercollateralized", "ViolatesIsolated", "PostOnlyWouldCross",
   "ReduceOnlyResized"}

\* States of the matching loop.
Runs ==
  [fill : Fillings, fills : Seq([maker : Hashes, amount : Nat \ {0}]),
   out : Seq(Hashes), met : SUBSET Hashes, left : Nat, status : Statuses]

\* The fields of a signed order, from the assumption on the constants.
LEMMA OrderTypes ==
  ASSUME NEW h \in Hashes
  PROVE  /\ h \in Nat /\ h # None /\ Id(h) \in Ids /\ ~IsLiquidation(h)
         /\ Order(h).isBuy \in BOOLEAN /\ IsStateful(h) \in BOOLEAN
         /\ Order(h).reduceOnly \in BOOLEAN
         /\ Order(h).size \in Nat \ {0} /\ Order(h).subticks \in Nat \ {0}
         /\ Order(h).goodTil \in Nat
         /\ ~IsStateful(h) => Id(h) \in ShortTermIds
         /\ IsStateful(h) => Id(h) \notin ShortTermIds
         /\ Order(h).reduceOnly => RequiresImmediateExecution(h)
         /\ h \notin Liquidations
  BY MemClobAssumption DEF Ids, ShortTermIds, IsLiquidation, Liquidations, IsStateful

\* The fields of a liquidation order.
LEMMA LiquidationTypes ==
  ASSUME NEW l \in Liquidations
  PROVE  /\ l \in Nat /\ Id(l) \notin Ids /\ IsLiquidation(l) /\ l \notin Hashes
         /\ Order(l).isBuy \in BOOLEAN /\ ~IsStateful(l)
         /\ Order(l).reduceOnly \in BOOLEAN
         /\ Order(l).size \in Nat \ {0} /\ Order(l).subticks \in Nat \ {0}
         /\ Order(l).goodTil \in Nat
  BY MemClobAssumption DEF IsLiquidation, Liquidations, IsStateful

\* Orders of one id have one kind and one owner.
LEMMA SameId ==
  ASSUME NEW g \in Hashes, NEW h \in Hashes, Id(g) = Id(h)
  PROVE  IsStateful(g) = IsStateful(h) /\ Order(g).owner = Order(h).owner
  BY MemClobAssumption

\* An id is the id of some order.
LEMMA IdsAre == \A id \in Ids : \E h \in Hashes : Id(h) = id
  BY DEF Ids

\* Short-term ids are ids.
LEMMA ShortIdsAre == ShortTermIds \subseteq Ids
  BY DEF Ids, ShortTermIds

\* Of two orders one replaces the other.
LEMMA Replacing ==
  /\ \A g \in Hashes : ~IsReplacedBy(g, g)
  /\ \A f, g, h \in Hashes : IsReplacedBy(f, g) /\ IsReplacedBy(g, h) => IsReplacedBy(f, h)
  /\ \A g, h \in Hashes : g = h \/ IsReplacedBy(g, h) \/ IsReplacedBy(h, g)
  BY OrderTypes DEF IsReplacedBy

\* Two orders cross each other.
LEMMA CrossesBoth ==
  ASSUME NEW g \in Hashes \cup Liquidations, NEW h \in Hashes \cup Liquidations
  PROVE  Crosses(g, h) = Crosses(h, g)
  <1>1. \A x \in Hashes \cup Liquidations : Order(x).isBuy \in BOOLEAN /\ Order(x).subticks \in Nat
    BY OrderTypes, LiquidationTypes
  <1> QED
    BY <1>1 DEF Crosses

\* Only signed orders rest.
LEMMA BookType ==
  ASSUME NEW M \in Mems
  PROVE  ToSet(M.book) \subseteq Hashes
  BY DEF Mems, ToSet

\* GetOrderRemainingAmount, with the fill amount on either side of the size.
LEMMA RemainingType ==
  ASSUME NEW h \in Hashes, NEW fills \in Fillings
  PROVE  /\ Remaining(h, fills) \in Nat
         /\ fills[Id(h)] \in Nat
         /\ Remaining(h, fills) = 0 <=> fills[Id(h)] >= Order(h).size
         /\ fills[Id(h)] < Order(h).size => Remaining(h, fills) = Order(h).size - fills[Id(h)]
  BY OrderTypes DEF Remaining, Fillings

-----------------------------------------------------------------------------
(* What the operations on the memclob change.                              *)

\* mustRemoveOrder: what changes, and that it does not panic if the orders rest
\* and the bytes of the short-term ones are there.
LEMMA RemoveAllDoes ==
  ASSUME NEW M \in Mems, NEW S
  PROVE  /\ RemoveAll(M, S) \in Mems
         /\ ToSet(RemoveAll(M, S).book) = ToSet(M.book) \ S
         /\ RemoveAll(M, S).queue = M.queue
         /\ RemoveAll(M, S).queued = M.queued
         /\ RemoveAll(M, S).removals = M.removals
         /\ RemoveAll(M, S).matched = M.matched
         /\ RemoveAll(M, S).cancels = M.cancels
         /\ RemoveAll(M, S).bytes = M.bytes \ {h \in S : ~IsStateful(h) /\ h \notin M.queued}
         /\ ~M.panicked /\ S \subseteq ToSet(M.book)
              /\ (\A h \in S : ~IsStateful(h) /\ h \notin M.queued => h \in M.bytes)
              => ~RemoveAll(M, S).panicked
  <1> DEFINE K == Keep(M.book, ToSet(M.book) \ S)
             U == {h \in S : ~IsStateful(h) /\ h \notin M.queued}
             P == \/ M.panicked
                  \/ ~(S \subseteq ToSet(M.book))
                  \/ ~(U \subseteq M.bytes)
  <1>1. K \in Seq(Hashes) /\ ToSet(K) = ToSet(M.book) \ S
    <2>1. M.book \in Seq(Hashes)
      BY DEF Mems
    <2> QED
      BY <2>1, KeepIs
  <1>2. P \in BOOLEAN
    OBVIOUS
  <1> HIDE DEF K, P
  <1>3. RemoveAll(M, S) = [M EXCEPT !.book = K, !.bytes = @ \ U, !.panicked = P]
    BY DEF RemoveAll, K, P
  <1> HIDE DEF U
  <1>4. /\ RemoveAll(M, S) \in Mems
        /\ RemoveAll(M, S).book = K
        /\ RemoveAll(M, S).queue = M.queue
        /\ RemoveAll(M, S).queued = M.queued
        /\ RemoveAll(M, S).removals = M.removals
        /\ RemoveAll(M, S).matched = M.matched
        /\ RemoveAll(M, S).cancels = M.cancels
        /\ RemoveAll(M, S).bytes = M.bytes \ U
        /\ RemoveAll(M, S).panicked = P
    BY <1>1, <1>2, <1>3 DEF Mems
  <1> QED
    BY <1>1, <1>4, Zenon DEF U, P

\* Sequences as sets.
LEMMA ConcatSet ==
  ASSUME NEW T, NEW a \in Seq(T), NEW b \in Seq(T)
  PROVE  a \o b \in Seq(T) /\ ToSet(a \o b) = ToSet(a) \cup ToSet(b)
  <1>1. a \o b \in Seq(T) /\ Len(a \o b) = Len(a) + Len(b) /\ Len(a) \in Nat /\ Len(b) \in Nat
        /\ DOMAIN (a \o b) = 1 .. Len(a) + Len(b)
        /\ DOMAIN a = 1 .. Len(a) /\ DOMAIN b = 1 .. Len(b)
    OBVIOUS
  <1>2. \A i \in 1 .. Len(a) : (a \o b)[i] = a[i]
    OBVIOUS
  <1>3. \A i \in 1 .. Len(b) : (a \o b)[Len(a) + i] = b[i]
    OBVIOUS
  <1>4. \A i \in DOMAIN (a \o b) : (a \o b)[i] \in ToSet(a) \cup ToSet(b)
    <2> SUFFICES ASSUME NEW i \in DOMAIN (a \o b)
                 PROVE  (a \o b)[i] \in ToSet(a) \cup ToSet(b)
      OBVIOUS
    <2>1. CASE i \in 1 .. Len(a)
      BY <1>1, <1>2, <2>1 DEF ToSet
    <2>2. CASE i \notin 1 .. Len(a)
      <3>1. i - Len(a) \in 1 .. Len(b) /\ i = Len(a) + (i - Len(a))
        BY <1>1, <2>2
      <3>2. (a \o b)[i] = b[i - Len(a)]
        BY <1>3, <3>1
      <3> QED
        BY <1>1, <3>1, <3>2 DEF ToSet
    <2> QED
      BY <2>1, <2>2
  <1>5. \A i \in 1 .. Len(b) : Len(a) + i \in DOMAIN (a \o b)
    BY <1>1
  <1>6. \A x \in ToSet(a) \cup ToSet(b) : x \in ToSet(a \o b)
    <2>1. \A i \in 1 .. Len(a) : i \in DOMAIN (a \o b) /\ (a \o b)[i] = a[i]
      BY <1>1, <1>2
    <2>2. \A i \in 1 .. Len(b) : \E j \in DOMAIN (a \o b) : (a \o b)[j] = b[i]
      BY <1>3, <1>5
    <2> QED
      BY <1>1, <2>1, <2>2, Zenon DEF ToSet
  <1> QED
    BY <1>1, <1>4, <1>6 DEF ToSet

\* The elements of a sequence of one.
LEMMA SingletonSet ==
  ASSUME NEW T, NEW x \in T
  PROVE  <<x>> \in Seq(T) /\ ToSet(<<x>>) = {x}
  BY DEF ToSet

\* Append adds one element.
LEMMA AppendSet ==
  ASSUME NEW T, NEW a \in Seq(T), NEW x \in T
  PROVE  Append(a, x) \in Seq(T) /\ ToSet(Append(a, x)) = ToSet(a) \cup {x}
         /\ Append(a, x) = a \o <<x>>
  BY DEF ToSet

\* The placement of an order is an operation.
LEMMA PlacementType ==
  ASSUME NEW h \in Hashes
  PROVE  /\ Placement(h) \in Operations
         /\ Placement(h).op \in {"place", "preexisting"}
         /\ Placement(h).op = "place" <=> ~IsStateful(h)
         /\ ~IsStateful(h) => Placement(h) = [op |-> "place", order |-> h]
         /\ IsStateful(h) => Placement(h) = [op |-> "preexisting", id |-> Id(h)]
  BY OrderTypes DEF Placement, Operations

\* What joins the queue for the orders of hs.
Placements(hs) == [i \in DOMAIN hs |-> Placement(hs[i])]

\* The placements of a sequence of orders.
LEMMA PlacementsAre ==
  ASSUME NEW hs \in Seq(Hashes)
  PROVE  /\ Placements(hs) \in Seq(Operations)
         /\ ToSet(Placements(hs)) = {Placement(h) : h \in ToSet(hs)}
         /\ DOMAIN Placements(hs) = DOMAIN hs
         /\ Len(Placements(hs)) = Len(hs)
         /\ \A i \in DOMAIN hs : Placements(hs)[i] = Placement(hs[i])
  <1>1. \A i \in DOMAIN hs : Placement(hs[i]) \in Operations
    BY PlacementType
  <1>2. /\ DOMAIN Placements(hs) = DOMAIN hs
        /\ \A i \in DOMAIN hs : Placements(hs)[i] = Placement(hs[i])
    BY DEF Placements
  <1>3. Placements(hs) \in Seq(Operations) /\ Len(Placements(hs)) = Len(hs)
    BY <1>1 DEF Placements
  <1> QED
    BY <1>2, <1>3 DEF ToSet

\* Orders join the queue: no panic if they are not queued and have their bytes.
LEMMA AddPlacementsDoes ==
  ASSUME NEW M \in Mems, NEW hs \in Seq(Hashes)
  PROVE  /\ AddPlacements(M, hs) \in Mems
         /\ AddPlacements(M, hs).book = M.book
         /\ AddPlacements(M, hs).queue = M.queue \o Placements(hs)
         /\ AddPlacements(M, hs).queued = M.queued \cup ToSet(hs)
         /\ AddPlacements(M, hs).removals = M.removals
         /\ AddPlacements(M, hs).matched = M.matched
         /\ AddPlacements(M, hs).cancels = M.cancels
         /\ AddPlacements(M, hs).bytes = M.bytes
         /\ ~M.panicked /\ (\A h \in ToSet(hs) : h \notin M.queued /\ (~IsStateful(h) => h \in M.bytes))
              => ~AddPlacements(M, hs).panicked
  <1> DEFINE P == \/ M.panicked
                  \/ \E h \in ToSet(hs) :
                       \/ h \in M.queued
                       \/ ~IsStateful(h) /\ h \notin M.bytes
             Q == M.queue \o Placements(hs)
             D == M.queued \cup ToSet(hs)
  <1>1. P \in BOOLEAN
    OBVIOUS
  <1>2. Q \in Seq(Operations)
    BY PlacementsAre, ConcatSet DEF Mems
  <1>2a. D \in SUBSET Hashes
    BY DEF Mems, ToSet
  <1> HIDE DEF P, Q, D
  <1>3. AddPlacements(M, hs) = [M EXCEPT !.queue = Q, !.queued = D, !.panicked = P]
    BY DEF AddPlacements, P, Q, D, Placements
  <1>4. /\ AddPlacements(M, hs) \in Mems
        /\ AddPlacements(M, hs).book = M.book
        /\ AddPlacements(M, hs).queue = Q
        /\ AddPlacements(M, hs).queued = D
        /\ AddPlacements(M, hs).removals = M.removals
        /\ AddPlacements(M, hs).matched = M.matched
        /\ AddPlacements(M, hs).cancels = M.cancels
        /\ AddPlacements(M, hs).bytes = M.bytes
        /\ AddPlacements(M, hs).panicked = P
    BY <1>1, <1>2, <1>2a, <1>3 DEF Mems
  <1> QED
    BY <1>4, Zenon DEF P, Q, D

\* The bytes of a short-term order are kept: no panic if they were not.
LEMMA AddTxBytesDoes ==
  ASSUME NEW M \in Mems, NEW h \in Hashes
  PROVE  /\ AddTxBytes(M, h) \in Mems
         /\ AddTxBytes(M, h).book = M.book
         /\ AddTxBytes(M, h).queue = M.queue
         /\ AddTxBytes(M, h).queued = M.queued
         /\ AddTxBytes(M, h).removals = M.removals
         /\ AddTxBytes(M, h).matched = M.matched
         /\ AddTxBytes(M, h).cancels = M.cancels
         /\ AddTxBytes(M, h).bytes = M.bytes \cup {h}
         /\ ~M.panicked /\ h \notin M.bytes => ~AddTxBytes(M, h).panicked
  <1> DEFINE P == M.panicked \/ h \in M.bytes
  <1>1. P \in BOOLEAN
    OBVIOUS
  <1> HIDE DEF P
  <1>3. AddTxBytes(M, h) = [M EXCEPT !.bytes = @ \cup {h}, !.panicked = P]
    BY DEF AddTxBytes, P
  <1>4. /\ AddTxBytes(M, h) \in Mems
        /\ AddTxBytes(M, h).book = M.book
        /\ AddTxBytes(M, h).queue = M.queue
        /\ AddTxBytes(M, h).queued = M.queued
        /\ AddTxBytes(M, h).removals = M.removals
        /\ AddTxBytes(M, h).matched = M.matched
        /\ AddTxBytes(M, h).cancels = M.cancels
        /\ AddTxBytes(M, h).bytes = M.bytes \cup {h}
        /\ AddTxBytes(M, h).panicked = P
    BY <1>1, <1>3 DEF Mems
  <1> QED
    BY <1>4, Zenon DEF P

\* The orders of hs whose removal joins the queue.
ToRemove(M, hs) == {h \in ToSet(hs) : IsStateful(h) /\ Id(h) \notin M.removals}
Removing(M, hs) ==
  [i \in DOMAIN Keep(hs, ToRemove(M, hs)) |->
     [op |-> "remove", id |-> Id(Keep(hs, ToRemove(M, hs))[i])]]

\* The removals of the stateful orders of hs join the queue, each once.
LEMMA RemoveFromStateDoes ==
  ASSUME NEW M \in Mems, NEW hs \in Seq(Hashes)
  PROVE  /\ RemoveFromState(M, hs) \in Mems
         /\ RemoveFromState(M, hs).book = M.book
         /\ RemoveFromState(M, hs).queue = M.queue \o Removing(M, hs)
         /\ Removing(M, hs) \in Seq(Operations)
         /\ ToSet(Removing(M, hs)) = {[op |-> "remove", id |-> Id(h)] : h \in ToRemove(M, hs)}
         /\ RemoveFromState(M, hs).queued = M.queued
         /\ RemoveFromState(M, hs).removals = M.removals \cup {Id(h) : h \in ToRemove(M, hs)}
         /\ RemoveFromState(M, hs).matched = M.matched
         /\ RemoveFromState(M, hs).cancels = M.cancels
         /\ RemoveFromState(M, hs).bytes = M.bytes
         /\ RemoveFromState(M, hs).panicked = M.panicked
  <1> DEFINE new == Keep(hs, ToRemove(M, hs))
             Q == M.queue \o Removing(M, hs)
             R == M.removals \cup {Id(h) : h \in ToSet(new)}
  <1>1. new \in Seq(Hashes) /\ ToSet(new) = ToRemove(M, hs)
    BY KeepIs DEF ToRemove
  <1> HIDE DEF new
  <1>1a. Removing(M, hs) = [i \in DOMAIN new |-> [op |-> "remove", id |-> Id(new[i])]]
    BY DEF Removing, new
  <1>2. /\ Removing(M, hs) \in Seq(Operations)
        /\ ToSet(Removing(M, hs)) = {[op |-> "remove", id |-> Id(h)] : h \in ToSet(new)}
    <2>1. \A i \in DOMAIN new : [op |-> "remove", id |-> Id(new[i])] \in Operations
      BY <1>1, OrderTypes DEF Operations
    <2> QED
      BY <1>1, <1>1a, <2>1 DEF ToSet
  <1>3. Q \in Seq(Operations)
    BY <1>2, ConcatSet DEF Mems
  <1>4. R \in SUBSET Ids
    BY <1>1, OrderTypes DEF Mems, ToSet
  <1> HIDE DEF Q, R
  <1>5. RemoveFromState(M, hs) = [M EXCEPT !.queue = Q, !.removals = R]
    BY <1>1a DEF RemoveFromState, Q, R, new, ToRemove
  <1>6. /\ RemoveFromState(M, hs) \in Mems
        /\ RemoveFromState(M, hs).book = M.book
        /\ RemoveFromState(M, hs).queue = Q
        /\ RemoveFromState(M, hs).queued = M.queued
        /\ RemoveFromState(M, hs).removals = R
        /\ RemoveFromState(M, hs).matched = M.matched
        /\ RemoveFromState(M, hs).cancels = M.cancels
        /\ RemoveFromState(M, hs).bytes = M.bytes
        /\ RemoveFromState(M, hs).panicked = M.panicked
    BY <1>3, <1>4, <1>5 DEF Mems
  <1> QED
    BY <1>1, <1>2, <1>6, Zenon DEF Q, R

-----------------------------------------------------------------------------
(* The best of the orders that cross.                                      *)

\* What fails of some subset of a finite set fails of a smallest one.
LEMMA SmallestFailure ==
  ASSUME NEW S, IsFiniteSet(S), NEW Bad \in SUBSET (SUBSET S), Bad # {}
  PROVE  \E T \in Bad : \A y \in T : T \ {y} \notin Bad
<1> DEFINE R == StrictSubsetOrdering(S)
<1>1. IsWellFoundedOn(R, SUBSET S)
  BY FS_StrictSubsetOrderingWellFounded, FS_FiniteSubsetsOfFinite
<1>2. \A T \in SUBSET S : \A y \in T : <<T \ {y}, T>> \in R
  BY DEF StrictSubsetOrdering
<1> HIDE DEF R
<1>3. PICK T \in Bad : \A U \in Bad : ~(<<U, T>> \in R)
  BY <1>1, WFMin
<1> QED
  BY <1>2, <1>3

\* The book is finite.
LEMMA FiniteBook ==
  ASSUME NEW T, NEW seq \in Seq(T)
  PROVE  IsFiniteSet(ToSet(seq))
<1>1. Len(seq) \in Nat /\ DOMAIN seq = 1 .. Len(seq)
  OBVIOUS
<1>2. IsFiniteSet(1 .. Len(seq))
  BY <1>1, FS_Interval
<1>3. seq \in Surjection(1 .. Len(seq), ToSet(seq))
  BY <1>1 DEF Surjection, ToSet
<1> QED
  BY <1>2, <1>3, FS_Surjection

\* Arrival is a position in the book that holds the order.
LEMMA ArrivalIs ==
  ASSUME NEW M \in Mems, NEW h \in ToSet(M.book)
  PROVE  Arrival(M, h) \in Nat /\ Arrival(M, h) \in DOMAIN M.book /\ M.book[Arrival(M, h)] = h
<1>1. DOMAIN M.book \subseteq Nat
  BY DEF Mems
<1>2. \E i \in DOMAIN M.book : M.book[i] = h
  BY DEF ToSet
<1> QED
  BY <1>1, <1>2 DEF Arrival

\* All orders of S are bids, or all are asks.
OneSide(S) == \A g, h \in S : Order(g).isBuy = Order(h).isBuy

\* The orders of one side are in line.
LEMMA AheadOrders ==
  ASSUME NEW M \in Mems, NEW S \in SUBSET ToSet(M.book), OneSide(S)
  PROVE  /\ \A g, h \in S : g = h \/ Ahead(M, g, h) \/ Ahead(M, h, g)
         /\ \A g, h \in S : ~(Ahead(M, g, h) /\ Ahead(M, h, g))
         /\ \A f, g, h \in S : Ahead(M, f, g) /\ Ahead(M, g, h) => Ahead(M, f, h)
<1>1. \A h \in S : /\ Arrival(M, h) \in Nat /\ M.book[Arrival(M, h)] = h
                   /\ Order(h).subticks \in Nat
                   /\ Order(h).isBuy \in BOOLEAN
  BY ArrivalIs, BookType, OrderTypes
<1>2. \A g, h \in S : Arrival(M, g) = Arrival(M, h) => g = h
  BY <1>1
<1>3. \A g, h \in S : Order(g).isBuy = Order(h).isBuy
  BY DEF OneSide
<1> QED
  BY <1>1, <1>2, <1>3 DEF Ahead

\* getBestOrderOnSide finds an order that is ahead of all others.
LEMMA BestIs ==
  ASSUME NEW M \in Mems, NEW S \in SUBSET ToSet(M.book), OneSide(S), S # {}
  PROVE  Best(M, S) \in S /\ \A g \in S \ {Best(M, S)} : Ahead(M, Best(M, S), g)
<1> DEFINE Leads(h, T) == h \in T /\ \A g \in T \ {h} : Ahead(M, h, g)
           Bad == {T \in SUBSET S : T # {} /\ ~\E h \in T : Leads(h, T)}
<1>1. IsFiniteSet(S)
  <2>1. M.book \in Seq(Hashes)
    BY DEF Mems
  <2> QED
    BY <2>1, FiniteBook, FS_Subset
<1>2. Bad = {}
  <2> SUFFICES ASSUME Bad # {} PROVE FALSE
    OBVIOUS
  <2>1. PICK T \in Bad : \A y \in T : T \ {y} \notin Bad
    <3>1. Bad \in SUBSET (SUBSET S)
      OBVIOUS
    <3> HIDE DEF Bad
    <3> QED
      BY <1>1, <3>1, SmallestFailure
  <2>2. T \in SUBSET S /\ T # {} /\ ~\E h \in T : Leads(h, T)
    BY <2>1
  <2>3. PICK y \in T : TRUE
    BY <2>2
  <2>4. T \ {y} # {}
    BY <2>2
  <2>5. PICK b \in T \ {y} : Leads(b, T \ {y})
    BY <2>1, <2>2, <2>4
  <2>6. Ahead(M, b, y) \/ Ahead(M, y, b)
    BY <2>2, <2>5, AheadOrders
  <2>7. CASE Ahead(M, b, y)
    BY <2>2, <2>5, <2>7
  <2>8. CASE Ahead(M, y, b)
    <3>1. \A g \in T \ {y} : Ahead(M, y, g)
      BY <2>2, <2>5, <2>8, AheadOrders
    <3> QED
      BY <2>2, <3>1
  <2> QED
    BY <2>6, <2>7, <2>8
<1>3. \E h \in S : \A g \in S \ {h} : Ahead(M, h, g)
  BY <1>2
<1> QED
  BY <1>3, Zenon DEF Best

-----------------------------------------------------------------------------
(* The matching loop.                                                      *)

\* f is the run of the matching loop.
Turning(f, M, fills, taker, fate, n) ==
  /\ f[0] = Unmatched(taker, fills)
  /\ \A k \in 1 .. n : f[k] = Turn(M, f[k - 1], taker, fate)

\* The loop of mustPerformTakerOrderMatching is a run of Turn.
LEMMA MatchingRuns ==
  ASSUME NEW M, NEW fills, NEW taker, NEW fate, NEW n \in Nat,
         n = Cardinality(Crossing(M, taker))
  PROVE  \E f : /\ PerformTakerOrderMatching(M, fills, taker, fate) = f[n]
                /\ Turning(f, M, fills, taker, fate, n)
<1> DEFINE base == Unmatched(taker, fills)
           RunsTo(g, m) == g = [k \in 0 .. m |->
                                  IF k = 0 THEN base ELSE Turn(M, g[k - 1], taker, fate)]
           Good == {m \in Nat : \E g : RunsTo(g, m)}
<1>1. 0 \in Good
  <2>1. RunsTo([k \in 0 .. 0 |-> base], 0)
    OBVIOUS
  <2> QED
    BY <2>1
<1>2. ASSUME NEW m \in 1 .. n, m - 1 \in Good PROVE m \in Good
  <2>1. PICK g : RunsTo(g, m - 1)
    BY <1>2
  <2> DEFINE h == [k \in 0 .. m |-> IF k = m THEN Turn(M, g[m - 1], taker, fate) ELSE g[k]]
  <2>2. RunsTo(h, m)
    <3> SUFFICES ASSUME NEW k \in 0 .. m
                 PROVE  h[k] = IF k = 0 THEN base ELSE Turn(M, h[k - 1], taker, fate)
      OBVIOUS
    <3>1. k # 0 => k - 1 \in 0 .. m - 1 /\ k - 1 # m /\ h[k - 1] = g[k - 1]
      OBVIOUS
    <3>2. CASE k = m
      BY <3>1, <3>2
    <3>3. CASE k # m
      <4>1. k \in 0 .. m - 1 /\ h[k] = g[k]
        BY <3>3
      <4>2. g[k] = IF k = 0 THEN base ELSE Turn(M, g[k - 1], taker, fate)
        BY <2>1, <4>1
      <4> QED
        BY <3>1, <4>1, <4>2
    <3> QED
      BY <3>2, <3>3
  <2> HIDE DEF h, RunsTo
  <2> QED
    BY <2>2
<1>3. \E g : RunsTo(g, n)
  <2>1. \A k \in 0 .. n : k \in Good
    <3> HIDE DEF Good
    <3> QED
      BY <1>1, <1>2, Induct
  <2> QED
    BY <2>1
<1> DEFINE f == CHOOSE g : RunsTo(g, n)
<1>5. PerformTakerOrderMatching(M, fills, taker, fate) = f[n]
  BY DEF PerformTakerOrderMatching
<1> HIDE DEF RunsTo
<1>6. RunsTo(f, n)
  BY <1>3, Zenon
<1> HIDE DEF f
<1>7. f = [k \in 0 .. n |-> IF k = 0 THEN base ELSE Turn(M, f[k - 1], taker, fate)]
  BY <1>6 DEF RunsTo
<1>8. 0 \in 0 .. n /\ \A k \in 1 .. n : k \in 0 .. n /\ k # 0
  OBVIOUS
<1>9. Turning(f, M, fills, taker, fate, n)
  BY <1>7, <1>8 DEF Turning
<1> QED
  BY <1>5, <1>9

\* No two orders of S have one id.
DistinctIds(S) == \A g, h \in S : Id(g) = Id(h) => g = h
\* The makers that were filled.
Makers(r) == {r.fills[i].maker : i \in DOMAIN r.fills}
\* The loop has nothing left to do for the taker.
Over(r) == r.status # "Success" \/ r.left = 0

\* What the loop starts from.
Ready(M, fills, taker) ==
  /\ M \in Mems /\ fills \in Fillings
  /\ DistinctIds(ToSet(M.book))
  /\ \A h \in ToSet(M.book) : fills[Id(h)] < Order(h).size
  /\ taker \in Hashes \cup Liquidations
  /\ taker \in Hashes => fills[Id(taker)] < Order(taker).size

\* An order the loop is done with for good.
Gone(r, taker, g) ==
  \/ Id(g) = Id(taker)
  \/ g \in ToSet(r.out)
  \/ g \in Makers(r) /\ r.fill[Id(g)] = Order(g).size

\* The orders that were met: each leaves, is filled, or neither, but once.
LoopMet(M, taker, r) ==
  /\ r.met \subseteq Crossing(M, taker)
  /\ ToSet(r.out) \subseteq r.met /\ Makers(r) \subseteq r.met
  /\ ToSet(r.out) \cap Makers(r) = {}
  /\ \A h \in ToSet(r.out) \cup Makers(r) : Id(h) # Id(taker)
  /\ IsInjective(r.out)
  /\ \A i, j \in DOMAIN r.fills : r.fills[i].maker = r.fills[j].maker => i = j
  /\ \A h \in Makers(r) : Order(h).owner # Order(taker).owner
  /\ IsPostOnly(taker) => r.fills = <<>>

\* What the loop filled.
LoopFills(fills, taker, r) ==
  /\ \A i \in DOMAIN r.fills :
       /\ r.fill[Id(r.fills[i].maker)] = fills[Id(r.fills[i].maker)] + r.fills[i].amount
       /\ r.fill[Id(r.fills[i].maker)] =< Order(r.fills[i].maker).size
  /\ \A id \in Ids : \/ r.fill[id] = fills[id]
                     \/ id = Id(taker)
                     \/ \E h \in Makers(r) : Id(h) = id
  /\ \A id \in Ids : r.fill[id] >= fills[id]
  /\ taker \in Hashes => r.fill[Id(taker)] + r.left = Order(taker).size
  /\ r.fills = <<>> => r.fill = fills /\ r.left > 0

\* An order that was met is gone, unless the loop is over, and so is all that
\* was ahead of a maker that was filled.
LoopGone(M, taker, r) ==
  /\ ~Over(r) => \A g \in r.met : Gone(r, taker, g)
  /\ \A h \in Makers(r) : \A g \in Crossing(M, taker) : Ahead(M, g, h) => Gone(r, taker, g)

\* The invariant of the matching loop.
Looped(M, fills, taker, r) ==
  r \in Runs /\ LoopMet(M, taker, r) /\ LoopFills(fills, taker, r) /\ LoopGone(M, taker, r)

\* The orders that cross the taker are finitely many, of one side.
LEMMA CrossingIs ==
  ASSUME NEW M \in Mems, NEW taker \in Hashes \cup Liquidations
  PROVE  /\ Crossing(M, taker) \in SUBSET ToSet(M.book)
         /\ Crossing(M, taker) \subseteq Hashes
         /\ OneSide(Crossing(M, taker))
         /\ IsFiniteSet(Crossing(M, taker))
         /\ Cardinality(Crossing(M, taker)) \in Nat
         /\ taker \notin Crossing(M, taker)
<1>1. Crossing(M, taker) \in SUBSET ToSet(M.book) /\ Crossing(M, taker) \subseteq Hashes
  BY BookType DEF Crossing
<1>2. Order(taker).isBuy \in BOOLEAN /\ \A h \in Crossing(M, taker) : Order(h).isBuy \in BOOLEAN
  BY <1>1, OrderTypes, LiquidationTypes
<1>3. OneSide(Crossing(M, taker)) /\ taker \notin Crossing(M, taker)
  BY <1>2 DEF Crossing, Crosses, OneSide
<1>4. IsFiniteSet(Crossing(M, taker))
  <2>1. M.book \in Seq(Hashes)
    BY DEF Mems
  <2> QED
    BY <1>1, <2>1, FiniteBook, FS_Subset
<1> QED
  BY <1>1, <1>3, <1>4, FS_CardinalityType

\* The loop starts with nothing met.
LEMMA LoopStarts ==
  ASSUME NEW M, NEW fills, NEW taker, Ready(M, fills, taker)
  PROVE  Looped(M, fills, taker, Unmatched(taker, fills)) /\ Unmatched(taker, fills).met = {}
<1> DEFINE r == Unmatched(taker, fills)
<1>1. Remaining(taker, fills) \in Nat /\ Remaining(taker, fills) > 0
      /\ (taker \in Hashes => fills[Id(taker)] + Remaining(taker, fills) = Order(taker).size)
  BY RemainingType, OrderTypes, LiquidationTypes DEF Ready, Remaining
<1>2. /\ r.fill = fills /\ r.fills = <<>> /\ r.out = <<>> /\ r.met = {}
      /\ r.left = Remaining(taker, fills) /\ r.status = "Success"
  BY DEF Unmatched
<1>3. r \in Runs
  BY <1>1 DEF Unmatched, Runs, Ready, Statuses
<1> HIDE DEF r
<1>4. Makers(r) = {} /\ ToSet(r.out) = {} /\ IsInjective(r.out)
  BY <1>2 DEF Makers, ToSet, IsInjective
<1>5. LoopMet(M, taker, r)
  BY <1>2, <1>4 DEF LoopMet
<1>6. LoopFills(fills, taker, r)
  BY <1>1, <1>2 DEF LoopFills, Ready, Fillings
<1>7. LoopGone(M, taker, r)
  BY <1>2, <1>4 DEF LoopGone
<1> QED
  BY <1>2, <1>3, <1>5, <1>6, <1>7 DEF Looped, r

\* What a turn that meets the maker comes to.
MetWith(r, taker, maker, f, q) ==
  \/ q = [r EXCEPT !.out = Append(@, maker)]
  \/ \E t \in Statuses \ {"Success"} : q = [r EXCEPT !.status = t]
  \/ q = [r EXCEPT !.out = Append(@, maker), !.status = "Undercollateralized"]
  \/ /\ Order(maker).owner # Order(taker).owner
     /\ ~IsPostOnly(taker)
     /\ q = MatchWith(r, taker, maker, f)

\* A maker's turn: it leaves, or stops the loop, or matches.
LEMMA MeetIs ==
  ASSUME NEW r \in Runs, NEW taker \in Hashes \cup Liquidations, NEW maker \in Hashes,
         NEW f \in Fates(taker)
  PROVE  MetWith(r, taker, maker, f, Meet(r, taker, maker, f))
<1>1. f \in {"matches", "makerFails", "takerFails", "bothFail", "isolated", "closes"}
      /\ (f = "closes" => Order(taker).reduceOnly)
  BY DEF Fates
<1>2. CASE Order(maker).owner = Order(taker).owner
  BY <1>2 DEF Meet, MetWith
<1>3. CASE Order(maker).owner # Order(taker).owner /\ f = "makerFails"
  BY <1>3 DEF Meet, MetWith
<1>4. CASE Order(maker).owner # Order(taker).owner /\ f = "takerFails"
  BY <1>4 DEF Meet, Statuses, MetWith
<1>5. CASE Order(maker).owner # Order(taker).owner /\ f = "bothFail"
  <2>1. Meet(r, taker, maker, f) = [[r EXCEPT !.out = Append(@, maker)] EXCEPT
                                      !.status = "Undercollateralized"]
    BY <1>5 DEF Meet
  <2>2. [[r EXCEPT !.out = Append(@, maker)] EXCEPT !.status = "Undercollateralized"]
          = [r EXCEPT !.out = Append(@, maker), !.status = "Undercollateralized"]
    BY DEF Runs
  <2> QED
    BY <2>1, <2>2 DEF MetWith
<1>6. CASE Order(maker).owner # Order(taker).owner /\ f = "isolated"
  BY <1>6 DEF Meet, Statuses, MetWith
<1>7. CASE Order(maker).owner # Order(taker).owner /\ f \in {"matches", "closes"}
  <2>1. CASE IsPostOnly(taker)
    BY <1>7, <2>1 DEF Meet, Statuses, MetWith
  <2>2. CASE ~IsPostOnly(taker)
    BY <1>1, <1>7, <2>2 DEF Meet, MetWith
  <2> QED
    BY <2>1, <2>2
<1> QED
  BY <1>1, <1>2, <1>3, <1>4, <1>5, <1>6, <1>7

\* The maker whose turn it is.
Facing(M, fills, taker, r, maker) ==
  /\ Ready(M, fills, taker) /\ Looped(M, fills, taker, r) /\ ~Over(r)
  /\ maker \in Crossing(M, taker) \ r.met
  /\ \A g \in (Crossing(M, taker) \ r.met) \ {maker} : Ahead(M, maker, g)

\* A maker that fails joins makerOrdersToRemove.
LEMMA OutGrows ==
  \A a \in Seq(Hashes), x \in Hashes : ToSet(Append(a, x)) = ToSet(a) \cup {x}
  <1> SUFFICES ASSUME NEW a \in Seq(Hashes), NEW x \in Hashes
               PROVE  ToSet(Append(a, x)) = ToSet(a) \cup {x}
    OBVIOUS
  <1> DEFINE b == Append(a, x)
  <1>1. /\ DOMAIN a = 1 .. Len(a) /\ DOMAIN b = 1 .. Len(a) + 1 /\ Len(a) \in Nat
        /\ b[Len(a) + 1] = x
        /\ \A i \in 1 .. Len(a) : b[i] = a[i]
    OBVIOUS
  <1> HIDE DEF b
  <1>2. /\ \A i \in DOMAIN a : i \in DOMAIN b /\ b[i] = a[i]
        /\ Len(a) + 1 \in DOMAIN b
        /\ \A i \in DOMAIN b : i \in DOMAIN a \/ i = Len(a) + 1
    BY <1>1
  <1>3. ToSet(b) = ToSet(a) \cup {x}
    BY <1>1, <1>2, Zenon DEF ToSet
  <1> QED
    BY <1>3 DEF b

\* A turn without a match.
LEMMA TurnWithout ==
  ASSUME NEW M, NEW fills, NEW taker, NEW r, NEW maker, NEW q,
         Facing(M, fills, taker, r, maker), q \in Runs,
         q.met = r.met \cup {maker}, q.fills = r.fills, q.fill = r.fill, q.left = r.left,
         \/ q.out = r.out
         \/ Id(maker) # Id(taker) /\ q.out = Append(r.out, maker),
         q.status # "Success" \/ Gone(q, taker, maker)
  PROVE  Looped(M, fills, taker, q)
<1>1. r \in Runs /\ r.out \in Seq(Hashes) /\ M \in Mems /\ taker \in Hashes \cup Liquidations
  BY DEF Runs, Ready, Facing, Looped
<1>2. maker \in Hashes /\ maker \notin ToSet(r.out) /\ maker \notin Makers(r)
  BY <1>1, CrossingIs DEF LoopMet, Facing, Looped
<1>3. Makers(q) = Makers(r)
  BY DEF Makers
<1>4. ToSet(q.out) = ToSet(r.out) \/ (Id(maker) # Id(taker) /\ ToSet(q.out) = ToSet(r.out) \cup {maker})
  <2>1. ToSet(Append(r.out, maker)) = ToSet(r.out) \cup {maker}
    BY <1>1, <1>2, OutGrows
  <2> QED
    BY <2>1
<1>5. IsInjective(q.out)
  <2>1. IsInjective(r.out)
    BY DEF LoopMet, Facing, Looped
  <2>2. CASE q.out = Append(r.out, maker)
    <3>1. DOMAIN q.out = 1 .. Len(r.out) + 1 /\ DOMAIN r.out = 1 .. Len(r.out)
          /\ Len(r.out) \in Nat /\ q.out[Len(r.out) + 1] = maker
          /\ \A i \in 1 .. Len(r.out) : q.out[i] = r.out[i] /\ r.out[i] \in ToSet(r.out)
      BY <1>1, <1>2, <2>2 DEF ToSet
    <3> QED
      BY <1>2, <2>1, <3>1 DEF IsInjective
  <2> QED
    BY <2>1, <2>2
<1>6. LoopMet(M, taker, q)
  BY <1>2, <1>3, <1>4, <1>5 DEF LoopMet, Facing, Looped
<1>7. LoopFills(fills, taker, q)
  BY <1>3 DEF LoopFills, Facing, Looped
<1>8. \A g \in r.met : Gone(r, taker, g) => Gone(q, taker, g)
  BY <1>3, <1>4 DEF Gone
<1>9. \A g \in Crossing(M, taker) : Gone(r, taker, g) => Gone(q, taker, g)
  BY <1>3, <1>4 DEF Gone
<1>10. LoopGone(M, taker, q)
  <2>1. ASSUME ~Over(q), NEW g \in q.met PROVE Gone(q, taker, g)
    BY <1>8, <2>1 DEF Over, LoopGone, Facing, Looped
  <2> QED
    BY <2>1, <1>3, <1>9 DEF LoopGone, Facing, Looped
<1> QED
  BY <1>6, <1>7, <1>10 DEF Looped

\* What a match fills.
LEMMA AmountIs ==
  ASSUME NEW M, NEW fills, NEW taker, NEW r, NEW maker, NEW f, Facing(M, fills, taker, r, maker),
         Id(maker) # Id(taker)
  PROVE  /\ maker \in Hashes /\ Id(maker) \in Ids
         /\ r.fill[Id(maker)] = fills[Id(maker)] /\ r.fill[Id(maker)] \in Nat
         /\ MatchedAmount(r, maker, f) \in Nat \ {0}
         /\ MatchedAmount(r, maker, f) =< r.left
         /\ r.fill[Id(maker)] + MatchedAmount(r, maker, f) =< Order(maker).size
         /\ f # "closes" /\ MatchedAmount(r, maker, f) < r.left =>
              r.fill[Id(maker)] + MatchedAmount(r, maker, f) = Order(maker).size
<1>1. r \in Runs /\ M \in Mems /\ taker \in Hashes \cup Liquidations /\ fills \in Fillings
  BY DEF Facing, Looped, Ready
<1>2. maker \in Hashes /\ maker \in ToSet(M.book) /\ Id(maker) \in Ids
      /\ Order(maker).size \in Nat
  BY <1>1, CrossingIs, OrderTypes DEF Facing
<1>3. \A h \in Makers(r) : Id(h) # Id(maker)
  BY <1>1, <1>2, CrossingIs DEF Facing, Looped, LoopMet, Ready, DistinctIds
<1>4. r.fill[Id(maker)] = fills[Id(maker)] /\ r.fill \in Fillings
  BY <1>1, <1>2, <1>3 DEF Facing, Looped, LoopFills, Runs
<1>5. fills[Id(maker)] < Order(maker).size
  BY <1>2 DEF Facing, Ready
<1>6. r.fill[Id(maker)] \in Nat /\ Remaining(maker, r.fill) = Order(maker).size - r.fill[Id(maker)]
      /\ Remaining(maker, r.fill) \in Nat
  BY <1>2, <1>4, <1>5, RemainingType
<1>7. r.left \in Nat /\ r.left # 0
  BY <1>1 DEF Facing, Over, Runs
<1> QED
  BY <1>2, <1>4, <1>5, <1>6, <1>7 DEF MatchedAmount

\* Both sides are filled.
LEMMA BothFilled ==
  ASSUME NEW fills \in Fillings, NEW taker \in Hashes \cup Liquidations, NEW maker \in Hashes,
         NEW n \in Nat, Id(maker) # Id(taker)
  PROVE  /\ Fill(Fill(fills, taker, n), maker, n) \in Fillings
         /\ \A id \in Ids :
              Fill(Fill(fills, taker, n), maker, n)[id] =
                IF id = Id(maker) \/ id = Id(taker) THEN fills[id] + n ELSE fills[id]
<1>1. ~IsLiquidation(maker) /\ Id(maker) \in Ids
  BY OrderTypes
<1>2. CASE taker \in Hashes
  <2>1. ~IsLiquidation(taker) /\ Id(taker) \in Ids
    BY <1>2, OrderTypes
  <2> QED
    BY <1>1, <2>1 DEF Fill, Fillings
<1>3. CASE taker \in Liquidations
  <2>1. IsLiquidation(taker) /\ Id(taker) \notin Ids
    BY <1>3, LiquidationTypes
  <2> QED
    BY <1>1, <2>1 DEF Fill, Fillings
<1> QED
  BY <1>2, <1>3

\* The maker and the taker are filled by n.
Paying(M, taker, r, q, maker, n) ==
  /\ maker \in Crossing(M, taker) /\ Id(maker) # Id(taker)
  /\ Order(maker).owner # Order(taker).owner
  /\ n \in Nat \ {0} /\ n =< r.left /\ r.fill[Id(maker)] + n =< Order(maker).size
  /\ q.fills = Append(r.fills, [maker |-> maker, amount |-> n]) /\ q.left = r.left - n
  /\ \A id \in Ids : q.fill[id] = IF id = Id(maker) \/ id = Id(taker)
                                   THEN r.fill[id] + n ELSE r.fill[id]

\* What a turn comes to.
Stepped(M, taker, r, q) ==
  \/ q.fills = r.fills /\ q.fill = r.fill /\ q.left = r.left
  \/ \E maker, n : Paying(M, taker, r, q, maker, n)

\* A turn with a match.
LEMMA TurnWith ==
  ASSUME NEW M, NEW fills, NEW taker, NEW r, NEW maker, NEW f,
         Facing(M, fills, taker, r, maker), Id(maker) # Id(taker),
         Order(maker).owner # Order(taker).owner, ~IsPostOnly(taker)
  PROVE  /\ Looped(M, fills, taker, MatchWith([r EXCEPT !.met = @ \cup {maker}], taker, maker, f))
         /\ Stepped(M, taker, r, MatchWith([r EXCEPT !.met = @ \cup {maker}], taker, maker, f))
<1> DEFINE s == [r EXCEPT !.met = @ \cup {maker}]
           q == MatchWith(s, taker, maker, f)
           n == MatchedAmount(r, maker, f)
           x == [maker |-> maker, amount |-> n]
           fill2 == Fill(Fill(r.fill, taker, n), maker, n)
<1>1. r \in Runs /\ M \in Mems /\ taker \in Hashes \cup Liquidations /\ fills \in Fillings
      /\ r.status = "Success" /\ r.left \in Nat /\ r.fill \in Fillings /\ r.met \subseteq Hashes
      /\ r.out \in Seq(Hashes) /\ r.fills \in Seq([maker : Hashes, amount : Nat \ {0}])
  BY DEF Facing, Looped, Ready, Over, Runs
<1>2. /\ maker \in Hashes /\ Id(maker) \in Ids
      /\ r.fill[Id(maker)] = fills[Id(maker)] /\ r.fill[Id(maker)] \in Nat
      /\ n \in Nat \ {0} /\ n =< r.left
      /\ r.fill[Id(maker)] + n =< Order(maker).size
      /\ f # "closes" /\ n < r.left => r.fill[Id(maker)] + n = Order(maker).size
  BY AmountIs
<1> HIDE DEF n
<1>3. /\ fill2 \in Fillings
      /\ \A id \in Ids : fill2[id] = IF id = Id(maker) \/ id = Id(taker)
                                     THEN r.fill[id] + n ELSE r.fill[id]
  <2>1. n \in Nat /\ r.fill \in Fillings /\ taker \in Hashes \cup Liquidations /\ maker \in Hashes
    BY <1>1, <1>2
  <2> QED
    BY <2>1, BothFilled
<1> HIDE DEF fill2
<1>4. s \in Runs /\ s.fill = r.fill /\ s.left = r.left /\ s.fills = r.fills /\ s.out = r.out
      /\ s.met = r.met \cup {maker} /\ s.status = "Success"
  BY <1>1, <1>2 DEF Runs
<1>5. MatchedAmount(s, maker, f) = n
  BY <1>4 DEF MatchedAmount, n
<1> HIDE DEF s
<1>6. q = [s EXCEPT !.fill = fill2, !.fills = Append(@, x), !.left = @ - n,
                    !.status = IF f = "closes" /\ s.left > n THEN "ReduceOnlyResized" ELSE @]
  BY <1>4, <1>5 DEF MatchWith, fill2
<1>7. /\ q.fill = fill2 /\ q.fills = Append(r.fills, x) /\ q.left = r.left - n
      /\ q.out = r.out /\ q.met = r.met \cup {maker}
      /\ q.status = IF f = "closes" /\ r.left > n THEN "ReduceOnlyResized" ELSE "Success"
  BY <1>4, <1>6 DEF Runs
<1>8. x \in [maker : Hashes, amount : Nat \ {0}]
  BY <1>2
<1>9. q \in Runs
  <2>1. Append(r.fills, x) \in Seq([maker : Hashes, amount : Nat \ {0}]) /\ r.left - n \in Nat
    BY <1>1, <1>2, <1>8
  <2>2. (IF f = "closes" /\ s.left > n THEN "ReduceOnlyResized" ELSE s.status) \in Statuses
    BY <1>4 DEF Statuses
  <2> QED
    BY <1>3, <1>4, <1>6, <2>1, <2>2 DEF Runs
<1> HIDE DEF q
<1>10. /\ DOMAIN q.fills = 1 .. Len(r.fills) + 1 /\ DOMAIN r.fills = 1 .. Len(r.fills)
       /\ Len(r.fills) \in Nat /\ q.fills[Len(r.fills) + 1] = x
       /\ \A i \in 1 .. Len(r.fills) : q.fills[i] = r.fills[i]
  BY <1>1, <1>7, <1>8
<1>10a. x.maker = maker /\ x.amount = n
  OBVIOUS
<1>10b. Stepped(M, taker, r, q)
  <2>1. maker \in Crossing(M, taker)
    BY DEF Facing
  <2>2. Paying(M, taker, r, q, maker, n)
    BY <1>2, <1>3, <1>7, <2>1 DEF Paying
  <2> QED
    BY <2>2 DEF Stepped
<1> HIDE DEF x
<1>11. Makers(q) = Makers(r) \cup {maker}
  <2>1. \A i \in DOMAIN r.fills : i \in DOMAIN q.fills /\ q.fills[i] = r.fills[i]
    BY <1>10
  <2>2. Len(r.fills) + 1 \in DOMAIN q.fills
    BY <1>10
  <2>3. \A i \in DOMAIN q.fills : i \in DOMAIN r.fills \/ i = Len(r.fills) + 1
    BY <1>10
  <2> QED
    BY <1>10, <1>10a, <2>1, <2>2, <2>3 DEF Makers
<1>12. maker \notin ToSet(r.out) /\ maker \notin Makers(r) /\ maker \in Crossing(M, taker)
       /\ maker \in ToSet(M.book)
  BY <1>1, CrossingIs DEF Facing, Looped, LoopMet
<1>13. LoopMet(M, taker, q)
  <2>1. LoopMet(M, taker, r)
    BY DEF Facing, Looped
  <2>2. \A i \in DOMAIN r.fills : r.fills[i].maker # maker
    BY <1>12 DEF Makers
  <2>3. \A i, j \in DOMAIN q.fills : q.fills[i].maker = q.fills[j].maker => i = j
    <3>1. \A i \in DOMAIN q.fills :
            \/ i \in DOMAIN r.fills /\ q.fills[i].maker = r.fills[i].maker
            \/ i = Len(r.fills) + 1 /\ q.fills[i].maker = maker
      BY <1>10, <1>10a
    <3> QED
      BY <2>1, <2>2, <3>1 DEF LoopMet
  <2> QED
    BY <1>7, <1>11, <1>12, <2>1, <2>3 DEF LoopMet
<1>14. \A h \in Makers(r) : Id(h) # Id(maker) /\ Id(h) # Id(taker) /\ Id(h) \in Ids
  BY <1>1, <1>12, CrossingIs, OrderTypes DEF Facing, Looped, LoopMet, Ready, DistinctIds
<1>15. LoopFills(fills, taker, q)
  <2>1. LoopFills(fills, taker, r)
    BY DEF Facing, Looped
  <2>2. \A i \in DOMAIN r.fills : r.fills[i].maker \in Makers(r)
    BY DEF Makers
  <2>3. ASSUME NEW i \in DOMAIN q.fills
        PROVE  /\ q.fill[Id(q.fills[i].maker)] = fills[Id(q.fills[i].maker)] + q.fills[i].amount
               /\ q.fill[Id(q.fills[i].maker)] =< Order(q.fills[i].maker).size
    <3>1. CASE i = Len(r.fills) + 1
      BY <1>2, <1>3, <1>7, <1>10, <1>10a, <3>1
    <3>2. CASE i # Len(r.fills) + 1
      <4>1. i \in DOMAIN r.fills /\ q.fills[i] = r.fills[i]
        BY <1>10, <3>2
      <4>2. q.fill[Id(r.fills[i].maker)] = r.fill[Id(r.fills[i].maker)]
        BY <1>3, <1>7, <1>14, <2>2, <4>1
      <4> QED
        BY <2>1, <4>1, <4>2 DEF LoopFills
    <3> QED
      BY <3>1, <3>2
  <2>4. ASSUME NEW id \in Ids
        PROVE  \/ q.fill[id] = fills[id] \/ id = Id(taker) \/ \E h \in Makers(q) : Id(h) = id
    BY <1>3, <1>7, <1>11, <2>1 DEF LoopFills
  <2>5. \A id \in Ids : q.fill[id] >= fills[id]
    <3>1. \A id \in Ids : r.fill[id] >= fills[id] /\ r.fill[id] \in Nat /\ fills[id] \in Nat
      BY <1>1, <2>1 DEF LoopFills, Fillings
    <3> QED
      BY <1>2, <1>3, <1>7, <3>1
  <2>6. taker \in Hashes => q.fill[Id(taker)] + q.left = Order(taker).size
    <3> SUFFICES ASSUME taker \in Hashes PROVE q.fill[Id(taker)] + q.left = Order(taker).size
      OBVIOUS
    <3>1. Id(taker) \in Ids /\ r.fill[Id(taker)] \in Nat
      BY <1>1, OrderTypes DEF Fillings
    <3>2. r.fill[Id(taker)] + r.left = Order(taker).size
      BY <2>1 DEF LoopFills
    <3>3. q.fill[Id(taker)] = r.fill[Id(taker)] + n
      BY <1>3, <1>7, <3>1
    <3> QED
      BY <1>1, <1>2, <1>7, <3>1, <3>2, <3>3
  <2>7. q.fills # <<>>
    BY <1>10
  <2> QED
    BY <2>3, <2>4, <2>5, <2>6, <2>7 DEF LoopFills
<1>16. \A g \in Crossing(M, taker) : Gone(r, taker, g) => Gone(q, taker, g)
  <2>1. \A h \in Makers(r) : q.fill[Id(h)] = r.fill[Id(h)]
    BY <1>3, <1>7, <1>14
  <2> QED
    BY <1>7, <1>11, <2>1 DEF Gone
<1>17. LoopGone(M, taker, q)
  <2>1. LoopGone(M, taker, r) /\ \A g \in r.met : Gone(r, taker, g)
    BY DEF Facing, Looped, LoopGone
  <2>2. r.met \subseteq Crossing(M, taker)
    BY DEF Facing, Looped, LoopMet
  <2>3. ASSUME ~Over(q) PROVE Gone(q, taker, maker)
    <3>1. q.left # 0 /\ q.status = "Success"
      BY <2>3 DEF Over
    <3>2. n < r.left /\ f # "closes"
      BY <1>1, <1>2, <1>7, <3>1
    <3>3. q.fill[Id(maker)] = Order(maker).size
      BY <1>2, <1>3, <1>7, <3>2
    <3> QED
      BY <1>11, <3>3 DEF Gone
  <2>4. ASSUME NEW g \in Crossing(M, taker), Ahead(M, g, maker) PROVE Gone(q, taker, g)
    <3>1. g = maker => FALSE
      BY <1>1, <1>12, <2>4, AheadOrders, CrossingIs
    <3>2. g \in r.met
      <4> SUFFICES ASSUME g \notin r.met PROVE FALSE
        OBVIOUS
      <4>1. Ahead(M, maker, g)
        BY <2>4, <3>1 DEF Facing
      <4> QED
        BY <1>1, <1>12, <2>4, <4>1, AheadOrders, CrossingIs
    <3> QED
      BY <1>16, <2>1, <2>4, <3>2
  <2> QED
    BY <1>7, <1>11, <1>16, <2>1, <2>2, <2>3, <2>4 DEF LoopGone
<1> QED
  BY <1>9, <1>10b, <1>13, <1>15, <1>17 DEF Looped, q, s

CanTurn(M, fills, taker, fate, r) ==
  /\ Ready(M, fills, taker) /\ Looped(M, fills, taker, r) /\ fate \in Fatings(M, taker)
  /\ ~Over(r) /\ Crossing(M, taker) \ r.met # {}

Turned(M, fills, taker, r, q) ==
  /\ Looped(M, fills, taker, q) /\ Stepped(M, taker, r, q)
  /\ \E maker \in Crossing(M, taker) \ r.met : q.met = r.met \cup {maker}

\* One turn of the loop.
LEMMA TurnKeeps ==
  ASSUME NEW M, NEW fills, NEW taker, NEW r, NEW fate, CanTurn(M, fills, taker, fate, r)
  PROVE  Turned(M, fills, taker, r, Turn(M, r, taker, fate))
<1>0. /\ Ready(M, fills, taker) /\ Looped(M, fills, taker, r) /\ fate \in Fatings(M, taker)
      /\ ~Over(r) /\ Crossing(M, taker) \ r.met # {}
  BY DEF CanTurn
<1> DEFINE maker == Best(M, Crossing(M, taker) \ r.met)
           s == [r EXCEPT !.met = @ \cup {maker}]
           q == Turn(M, r, taker, fate)
<1>1. r \in Runs /\ M \in Mems /\ taker \in Hashes \cup Liquidations
  BY <1>0 DEF Looped, Ready
<1>2. maker \in Crossing(M, taker) \ r.met
      /\ \A g \in (Crossing(M, taker) \ r.met) \ {maker} : Ahead(M, maker, g)
  <2> DEFINE S == Crossing(M, taker) \ r.met
  <2>1. S \in SUBSET ToSet(M.book) /\ OneSide(S) /\ S # {}
    BY <1>0, <1>1, CrossingIs DEF OneSide
  <2> HIDE DEF S
  <2>2. Best(M, S) \in S /\ \A g \in S \ {Best(M, S)} : Ahead(M, Best(M, S), g)
    BY <1>1, <2>1, BestIs
  <2> QED
    BY <2>2 DEF S
<1>3. q = IF Id(maker) = Id(taker) THEN s ELSE Meet(s, taker, maker, fate[maker])
  BY <1>0 DEF Turn, Over
<1> HIDE DEF maker, q
<1>4. Facing(M, fills, taker, r, maker) /\ maker \in Hashes
  BY <1>0, <1>1, <1>2, CrossingIs DEF Facing
<1>5. s \in Runs /\ s.fill = r.fill /\ s.left = r.left /\ s.fills = r.fills /\ s.out = r.out
      /\ s.met = r.met \cup {maker} /\ s.status = r.status
  BY <1>1, <1>4 DEF Runs
<1>6. CASE Id(maker) = Id(taker)
  <2>1. q = s /\ Gone(s, taker, maker)
    BY <1>3, <1>6 DEF Gone
  <2> HIDE DEF s
  <2>2. Looped(M, fills, taker, s)
    BY <1>4, <1>5, <2>1, TurnWithout
  <2> QED
    BY <1>2, <1>5, <2>1, <2>2 DEF q, Turned, Stepped
<1>7. CASE Id(maker) # Id(taker)
  <2> DEFINE f == fate[maker]
  <2>1. f \in Fates(taker)
    BY <1>0, <1>2 DEF Fatings
  <2>2. q = Meet(s, taker, maker, f)
    BY <1>3, <1>7
  <2> HIDE DEF f
  <2>3. CASE q = MatchWith(s, taker, maker, f) /\ Order(maker).owner # Order(taker).owner
             /\ ~IsPostOnly(taker)
    <3>1. Looped(M, fills, taker, q) /\ Stepped(M, taker, r, q)
      BY <1>4, <1>7, <2>3, TurnWith
    <3>2. q.met = s.met
      <4> HIDE DEF s
      <4> QED
        BY <1>5, <2>3 DEF MatchWith, Runs
    <3> QED
      BY <1>2, <1>5, <3>1, <3>2 DEF q, Turned
  <2> HIDE DEF s
  <2>5. r.out \in Seq(Hashes) /\ Append(r.out, maker) \in Seq(Hashes)
        /\ "Undercollateralized" \in Statuses
    BY <1>1, <1>4 DEF Runs, Statuses
  <2>6. CASE q = [s EXCEPT !.out = Append(@, maker)]
    <3>1. q \in Runs /\ q.met = s.met /\ q.fills = s.fills /\ q.fill = s.fill /\ q.left = s.left
          /\ q.out = Append(r.out, maker) /\ q.status = s.status
      BY <1>5, <2>5, <2>6 DEF Runs
    <3>2. maker \in ToSet(q.out)
      BY <1>1, <1>4, <2>5, <3>1, OutGrows
    <3>3. Looped(M, fills, taker, q)
      BY <1>4, <1>5, <1>7, <3>1, <3>2, TurnWithout DEF Gone
    <3> QED
      BY <1>2, <1>5, <3>1, <3>3 DEF q, Turned, Stepped
  <2>7. CASE \E t \in Statuses \ {"Success"} : q = [s EXCEPT !.status = t]
    <3>0. PICK t \in Statuses \ {"Success"} : q = [s EXCEPT !.status = t]
      BY <2>7
    <3>1. q \in Runs /\ q.met = s.met /\ q.fills = s.fills /\ q.fill = s.fill /\ q.left = s.left
          /\ q.out = s.out /\ q.status = t /\ t # "Success"
      BY <1>5, <3>0 DEF Runs
    <3>3. Looped(M, fills, taker, q)
      BY <1>4, <1>5, <1>7, <3>1, TurnWithout
    <3> QED
      BY <1>2, <1>5, <3>1, <3>3 DEF q, Turned, Stepped
  <2>8. CASE q = [s EXCEPT !.out = Append(@, maker), !.status = "Undercollateralized"]
    <3>1. q \in Runs /\ q.met = s.met /\ q.fills = s.fills /\ q.fill = s.fill /\ q.left = s.left
          /\ q.out = Append(r.out, maker) /\ q.status = "Undercollateralized"
      BY <1>5, <2>5, <2>8 DEF Runs
    <3>3. Looped(M, fills, taker, q)
      BY <1>4, <1>5, <1>7, <3>1, TurnWithout
    <3> QED
      BY <1>2, <1>5, <3>1, <3>3 DEF q, Turned, Stepped
  <2>9. MetWith(s, taker, maker, f, q)
    BY <1>1, <1>4, <1>5, <2>1, <2>2, MeetIs
  <2> QED
    BY <2>3, <2>6, <2>7, <2>8, <2>9, Zenon DEF MetWith
<1> QED
  BY <1>6, <1>7

\* What the loop comes to: it stopped, or met all orders that cross.
Finished(M, taker, r) == Over(r) \/ r.met = Crossing(M, taker)

\* The turns that led to a state of the loop.
History(M, fills, taker, f, n) ==
  /\ n \in Nat /\ f[0] = Unmatched(taker, fills)
  /\ \A k \in 0 .. n : Looped(M, fills, taker, f[k])
  /\ \A k \in 1 .. n : Stepped(M, taker, f[k - 1], f[k])

\* The loop ends with the taker done or all crossing orders met.
LEMMA LoopDone ==
  ASSUME NEW M, NEW fills, NEW taker, NEW fate,
         Ready(M, fills, taker), fate \in Fatings(M, taker)
  PROVE  /\ Looped(M, fills, taker, PerformTakerOrderMatching(M, fills, taker, fate))
         /\ Finished(M, taker, PerformTakerOrderMatching(M, fills, taker, fate))
         /\ \E f, n : /\ PerformTakerOrderMatching(M, fills, taker, fate) = f[n]
                      /\ History(M, fills, taker, f, n)
<1> DEFINE C == Crossing(M, taker)
           n == Cardinality(C)
<1>1. n \in Nat /\ IsFiniteSet(C) /\ M \in Mems /\ taker \in Hashes \cup Liquidations
  <2>1. M \in Mems /\ taker \in Hashes \cup Liquidations
    BY DEF Ready
  <2> QED
    BY <2>1, CrossingIs
<1>2. PICK f : /\ PerformTakerOrderMatching(M, fills, taker, fate) = f[n]
               /\ Turning(f, M, fills, taker, fate, n)
  BY <1>1, MatchingRuns
<1> HIDE DEF C, n
<1> DEFINE Inv(k) == /\ Looped(M, fills, taker, f[k])
                     /\ Over(f[k]) \/ Cardinality(f[k].met) = k
                     /\ k > 0 => Stepped(M, taker, f[k - 1], f[k])
           Good == {k \in 0 .. n : Inv(k)}
<1>3. \A S \in SUBSET C : IsFiniteSet(S) /\ Cardinality(S) \in Nat /\ Cardinality(S) =< n
                          /\ (Cardinality(S) = n => S = C)
  BY <1>1, FS_Subset, FS_CardinalityType DEF n
<1>4. 0 \in Good
  <2>1. f[0] = Unmatched(taker, fills)
    BY <1>2 DEF Turning
  <2>2. Inv(0)
    BY <2>1, LoopStarts, FS_EmptySet
  <2> QED
    BY <1>1, <2>2
<1>5. ASSUME NEW k \in 1 .. n, k - 1 \in Good PROVE k \in Good
  <2> SUFFICES Inv(k)
    OBVIOUS
  <2>1. PICK r : r = f[k - 1]
    OBVIOUS
  <2>2. f[k] = Turn(M, r, taker, fate) /\ Looped(M, fills, taker, r)
        /\ (Over(r) \/ Cardinality(r.met) = k - 1)
    BY <1>2, <1>5, <2>1 DEF Turning
  <2>3. CASE Over(r)
    BY <2>1, <2>2, <2>3 DEF Turn, Over, Stepped
  <2>4. CASE ~Over(r)
    <3>1. r.met \in SUBSET C /\ Cardinality(r.met) = k - 1
      BY <2>2, <2>4 DEF Looped, LoopMet, C
    <3>2. IsFiniteSet(r.met) /\ C \ r.met # {}
      <4>1. k - 1 # n
        BY <1>1
      <4>2. r.met # C
        BY <3>1, <4>1 DEF n
      <4>3. IsFiniteSet(r.met)
        BY <1>3, <3>1
      <4>4. C \ r.met # {}
        BY <3>1, <4>2
      <4> QED
        BY <4>3, <4>4
    <3>3. /\ Looped(M, fills, taker, f[k]) /\ Stepped(M, taker, f[k - 1], f[k])
          /\ \E maker \in C \ r.met : f[k].met = r.met \cup {maker}
      <4>1. Crossing(M, taker) \ r.met # {}
        BY <3>2 DEF C
      <4>2. CanTurn(M, fills, taker, fate, r)
        BY <2>2, <2>4, <4>1 DEF CanTurn
      <4>3. Turned(M, fills, taker, r, f[k])
        BY <2>2, <4>2, TurnKeeps
      <4> QED
        BY <2>1, <4>3, Zenon DEF C, Turned
    <3>4. Cardinality(f[k].met) = k
      <4>1. PICK maker \in C \ r.met : f[k].met = r.met \cup {maker}
        BY <3>3
      <4>2. Cardinality(r.met \cup {maker}) = Cardinality(r.met) + 1
        BY <3>2, <4>1, FS_AddElement
      <4> QED
        BY <3>1, <4>1, <4>2
    <3> QED
      BY <3>3, <3>4
  <2> QED
    BY <2>3, <2>4
<1>5a. \A k \in 0 .. n : Inv(k)
  <2>1. \A k \in 0 .. n : k \in Good
    <3> HIDE DEF Good
    <3> QED
      BY <1>1, <1>4, <1>5, Induct
  <2> HIDE DEF Inv
  <2> QED
    BY <2>1
<1>6. Inv(n)
  <2>2. n \in 0 .. n
    BY <1>1
  <2> HIDE DEF Inv
  <2> QED
    BY <1>5a, <2>2
<1>7. Finished(M, taker, f[n])
  <2>1. f[n].met \in SUBSET C
    BY <1>6 DEF Looped, LoopMet, C
  <2> QED
    BY <1>3, <1>6, <2>1 DEF Finished, C
<1>8. History(M, fills, taker, f, n)
  <2>1. \A k \in 1 .. n : k \in 0 .. n /\ k > 0
    BY <1>1
  <2> QED
    BY <1>1, <1>2, <1>5a, <2>1 DEF History, Turning
<1> QED
  BY <1>2, <1>6, <1>7, <1>8

-----------------------------------------------------------------------------
(* What a match changes in the memclob.                                    *)

\* makerOrdersToRemove leave the book, and the state if they are stateful.  A
\* replaced order is short-term here, so none lacks a removal reason.
LEMMA RemoveMakersDoes ==
  ASSUME NEW M \in Mems, NEW taker, NEW out \in Seq(Hashes)
  PROVE  /\ RemoveMakers(M, taker, out) \in Mems
         /\ ToSet(RemoveMakers(M, taker, out).book)
              = ToSet(M.book) \ (ToSet(out) \cup RestingWith(M, Id(taker)))
         /\ RemoveMakers(M, taker, out).queue = M.queue \o Removing(M, out)
         /\ RemoveMakers(M, taker, out).queued = M.queued
         /\ RemoveMakers(M, taker, out).removals
              = M.removals \cup {Id(h) : h \in ToRemove(M, out)}
         /\ RemoveMakers(M, taker, out).matched = M.matched
         /\ RemoveMakers(M, taker, out).cancels = M.cancels
         /\ RemoveMakers(M, taker, out).bytes
              = M.bytes \ {h \in ToSet(out) \cup RestingWith(M, Id(taker)) :
                             ~IsStateful(h) /\ h \notin M.queued}
         /\ /\ ~M.panicked
            /\ ToSet(out) \subseteq ToSet(M.book)
            /\ \A h \in ToSet(M.book) : ~IsStateful(h) => h \in M.bytes
            /\ \A h \in RestingWith(M, Id(taker)) : ~IsStateful(h)
            => ~RemoveMakers(M, taker, out).panicked
  <1> DEFINE R == RestingWith(M, Id(taker))
             A == RemoveAll(M, ToSet(out) \cup R)
             B == RemoveFromState(A, out)
             P == B.panicked \/ \E h \in R : IsStateful(h) /\ Id(h) \notin B.removals
             C == RemoveMakers(M, taker, out)
  <1>1. /\ A \in Mems
        /\ ToSet(A.book) = ToSet(M.book) \ (ToSet(out) \cup R)
        /\ A.queue = M.queue
        /\ A.queued = M.queued
        /\ A.removals = M.removals
        /\ A.matched = M.matched
        /\ A.cancels = M.cancels
        /\ A.bytes = M.bytes \ {h \in ToSet(out) \cup R : ~IsStateful(h) /\ h \notin M.queued}
        /\ ~M.panicked /\ ToSet(out) \cup R \subseteq ToSet(M.book)
             /\ (\A h \in ToSet(out) \cup R : ~IsStateful(h) /\ h \notin M.queued => h \in M.bytes)
             => ~A.panicked
    <2> HIDE DEF R
    <2> QED
      BY RemoveAllDoes
  <1>1a. R \subseteq ToSet(M.book)
    BY DEF RestingWith
  <1>2. C = [B EXCEPT !.panicked = P]
    BY DEF RemoveMakers
  <1> HIDE DEF A, R
  <1>3. ToRemove(A, out) = ToRemove(M, out) /\ Removing(A, out) = Removing(M, out)
    BY <1>1 DEF ToRemove, Removing
  <1>4. /\ B \in Mems
        /\ B.book = A.book
        /\ B.queue = A.queue \o Removing(A, out)
        /\ B.queued = A.queued
        /\ B.removals = A.removals \cup {Id(h) : h \in ToRemove(A, out)}
        /\ B.matched = A.matched
        /\ B.cancels = A.cancels
        /\ B.bytes = A.bytes
        /\ B.panicked = A.panicked
    BY <1>1, RemoveFromStateDoes
  <1>5. P \in BOOLEAN
    BY <1>4 DEF Mems
  <1> HIDE DEF B, P, C
  <1>6. C \in Mems /\ C.book = B.book /\ C.queue = B.queue /\ C.queued = B.queued
        /\ C.removals = B.removals /\ C.matched = B.matched /\ C.cancels = B.cancels
        /\ C.bytes = B.bytes /\ C.panicked = P
    BY <1>2, <1>4, <1>5 DEF Mems
  <1>7. /\ C \in Mems
        /\ ToSet(C.book) = ToSet(M.book) \ (ToSet(out) \cup R)
        /\ C.queue = M.queue \o Removing(M, out)
        /\ C.queued = M.queued
        /\ C.removals = M.removals \cup {Id(h) : h \in ToRemove(M, out)}
        /\ C.matched = M.matched
        /\ C.cancels = M.cancels
        /\ C.bytes = M.bytes \ {h \in ToSet(out) \cup R : ~IsStateful(h) /\ h \notin M.queued}
    BY <1>1, <1>3, <1>4, <1>6, Zenon
  <1>8. ASSUME ~M.panicked, ToSet(out) \subseteq ToSet(M.book),
               \A h \in ToSet(M.book) : ~IsStateful(h) => h \in M.bytes,
               \A h \in R : ~IsStateful(h)
        PROVE  ~C.panicked
    <2>1. ~A.panicked
      BY <1>1, <1>1a, <1>8
    <2> QED
      BY <1>4, <1>6, <1>8, <2>1 DEF P
  <1> QED
    BY <1>7, <1>8 DEF C, R

\* MatchedOrderIdToOrder takes the orders of S: no panic if each is the one it
\* held or replaces it.
LEMMA MatchedDoes ==
  ASSUME NEW M \in Mems, NEW S \in SUBSET Hashes, DistinctIds(S)
  PROVE  /\ Matched(M, S) \in Mems
         /\ Matched(M, S).book = M.book
         /\ Matched(M, S).queue = M.queue
         /\ Matched(M, S).queued = M.queued
         /\ Matched(M, S).removals = M.removals
         /\ Matched(M, S).cancels = M.cancels
         /\ Matched(M, S).bytes = M.bytes
         /\ \A h \in S : Matched(M, S).matched[Id(h)] = h
         /\ \A id \in Ids : (\A h \in S : Id(h) # id) => Matched(M, S).matched[id] = M.matched[id]
         /\ /\ ~M.panicked
            /\ \A h \in S : M.matched[Id(h)] = None \/ ~IsReplacedBy(h, M.matched[Id(h)])
            => ~Matched(M, S).panicked
  <1> DEFINE F == [id \in Ids |-> IF \E h \in S : Id(h) = id
                                    THEN CHOOSE h \in S : Id(h) = id ELSE M.matched[id]]
             P == M.panicked \/ \E h \in S : /\ M.matched[Id(h)] # None
                                             /\ IsReplacedBy(h, M.matched[Id(h)])
             C == Matched(M, S)
  <1>1. C = [M EXCEPT !.matched = F, !.panicked = P]
    BY DEF Matched
  <1>2. /\ \A h \in S : Id(h) \in Ids /\ F[Id(h)] = h
        /\ \A id \in Ids : (\A h \in S : Id(h) # id) => F[id] = M.matched[id]
    <2>1. ASSUME NEW h \in S PROVE Id(h) \in Ids /\ F[Id(h)] = h
      <3>1. Id(h) \in Ids
        BY OrderTypes
      <3>2. (CHOOSE g \in S : Id(g) = Id(h)) \in S /\ Id(CHOOSE g \in S : Id(g) = Id(h)) = Id(h)
        BY Zenon
      <3> QED
        BY <3>1, <3>2 DEF DistinctIds
    <2> QED
      BY <2>1
  <1>3. F \in [Ids -> Hashes \cup {None}]
    <2> SUFFICES ASSUME NEW id \in Ids PROVE F[id] \in Hashes \cup {None}
      OBVIOUS
    <2>1. CASE \E h \in S : Id(h) = id
      BY <1>2, <2>1
    <2>2. CASE ~\E h \in S : Id(h) = id
      BY <1>2, <2>2 DEF Mems
    <2> QED
      BY <2>1, <2>2
  <1>4. P \in BOOLEAN
    BY DEF Mems
  <1> HIDE DEF F, P, C
  <1>5. C \in Mems /\ C.book = M.book /\ C.queue = M.queue /\ C.queued = M.queued
        /\ C.removals = M.removals /\ C.matched = F /\ C.cancels = M.cancels
        /\ C.bytes = M.bytes /\ C.panicked = P
    BY <1>1, <1>3, <1>4 DEF Mems
  <1> QED
    BY <1>2, <1>5, Zenon DEF C, P

TakerOp(taker) == IF taker \in Hashes THEN <<Placement(taker)>> ELSE <<>>
ShortOf(taker) == {h \in {taker} \cap Hashes : ~IsStateful(h)}

\* What joins the queue for the taker is an operation, or nothing.
LEMMA TakerOpType ==
  ASSUME NEW taker
  PROVE  TakerOp(taker) \in Seq(Operations)
         /\ ToSet(TakerOp(taker)) = {Placement(h) : h \in {taker} \cap Hashes}
  <1>1. CASE taker \in Hashes
    <2>1. Placement(taker) \in Operations /\ TakerOp(taker) = <<Placement(taker)>>
      BY <1>1, PlacementType DEF TakerOp
    <2> QED
      BY <1>1, <2>1, SingletonSet
  <1>2. CASE taker \notin Hashes
    BY <1>2 DEF TakerOp, ToSet
  <1> QED
    BY <1>1, <1>2

\* The taker joins the queue with its bytes.
LEMMA QueueTakerDoes ==
  ASSUME NEW M \in Mems, NEW taker \in Hashes \cup Liquidations
  PROVE  /\ QueueTaker(M, taker) \in Mems
         /\ QueueTaker(M, taker).book = M.book
         /\ QueueTaker(M, taker).queue = M.queue \o TakerOp(taker)
         /\ QueueTaker(M, taker).queued = M.queued \cup ({taker} \cap Hashes)
         /\ QueueTaker(M, taker).removals = M.removals
         /\ QueueTaker(M, taker).matched = M.matched
         /\ QueueTaker(M, taker).cancels = M.cancels
         /\ QueueTaker(M, taker).bytes = M.bytes \cup ShortOf(taker)
         /\ ~M.panicked /\ taker \notin M.queued /\ taker \notin M.bytes
              => ~QueueTaker(M, taker).panicked
  <1>1. CASE taker \in Liquidations
    <2>1. taker \notin Hashes /\ QueueTaker(M, taker) = M /\ TakerOp(taker) = <<>>
      BY <1>1, LiquidationTypes DEF QueueTaker, TakerOp
    <2>2. M.queue \o <<>> = M.queue
      BY DEF Mems
    <2> QED
      BY <2>1, <2>2 DEF ShortOf
  <1>2. CASE taker \in Hashes
    <2> DEFINE A == IF IsStateful(taker) THEN M ELSE AddTxBytes(M, taker)
               B == AddPlacements(A, <<taker>>)
    <2>1. QueueTaker(M, taker) = B
      BY <1>2, OrderTypes DEF QueueTaker
    <2>2. A \in Mems /\ A.book = M.book /\ A.queue = M.queue /\ A.queued = M.queued
          /\ A.removals = M.removals /\ A.matched = M.matched /\ A.cancels = M.cancels
          /\ A.bytes = M.bytes \cup ShortOf(taker)
          /\ (~M.panicked /\ taker \notin M.bytes => ~A.panicked)
      <3>1. CASE IsStateful(taker)
        BY <3>1 DEF ShortOf
      <3>2. CASE ~IsStateful(taker)
        <4>1. A = AddTxBytes(M, taker) /\ ShortOf(taker) = {taker}
          BY <1>2, <3>2 DEF ShortOf
        <4> QED
          BY <1>2, <4>1, AddTxBytesDoes
      <3> QED
        BY <3>1, <3>2
    <2>3. <<taker>> \in Seq(Hashes) /\ ToSet(<<taker>>) = {taker}
      BY <1>2, SingletonSet
    <2>4. Placements(<<taker>>) = TakerOp(taker)
      BY <1>2 DEF Placements, TakerOp
    <2>5. PICK hs : hs = <<taker>>
      OBVIOUS
    <2>6. (~IsStateful(taker) => taker \in A.bytes) /\ {taker} \cap Hashes = {taker}
      BY <1>2, <2>2 DEF ShortOf
    <2> HIDE DEF A
    <2>7. /\ B \in Mems
          /\ B.book = A.book
          /\ B.queue = A.queue \o Placements(hs)
          /\ B.queued = A.queued \cup ToSet(hs)
          /\ B.removals = A.removals
          /\ B.matched = A.matched
          /\ B.cancels = A.cancels
          /\ B.bytes = A.bytes
          /\ ~A.panicked /\ (\A h \in ToSet(hs) : h \notin A.queued /\ (~IsStateful(h) => h \in A.bytes))
              => ~B.panicked
      BY <2>2, <2>3, <2>5, AddPlacementsDoes
    <2> HIDE DEF B
    <2> QED
      BY <2>1, <2>2, <2>3, <2>4, <2>5, <2>6, <2>7
  <1> QED
    BY <1>1, <1>2

\* The elements of a sequence are of its type.
LEMMA SeqElems ==
  ASSUME NEW T, NEW s \in Seq(T)
  PROVE  Len(s) \in Nat /\ DOMAIN s = 1 .. Len(s) /\ \A i \in DOMAIN s : s[i] \in T
  OBVIOUS

\* The empty sequence has no elements.
LEMMA EmptySet ==
  ASSUME NEW T, NEW s \in Seq(T), ToSet(s) = {}
  PROVE  s = <<>>
  <1>1. Len(s) \in Nat /\ DOMAIN s = 1 .. Len(s)
    OBVIOUS
  <1>2. DOMAIN s = {}
    BY DEF ToSet
  <1>3. Len(s) = 0
    BY <1>1, <1>2
  <1> QED
    BY <1>3

\* A function on 1 .. n is a sequence.
LEMMA SeqMade ==
  ASSUME NEW T, NEW n \in Nat, NEW F, F = [i \in 1 .. n |-> F[i]], \A i \in 1 .. n : F[i] \in T
  PROVE  F \in Seq(T) /\ Len(F) = n /\ DOMAIN F = 1 .. n
  <1>1. F \in [1 .. n -> T]
    OBVIOUS
  <1> QED
    BY <1>1

MakerSeq(r) == [i \in DOMAIN r.fills |-> r.fills[i].maker]
NewMakers(M, r) == Keep(MakerSeq(r), Makers(r) \ M.queued)
FilledMakers(r) == {h \in Makers(r) : r.fill[Id(h)] = Order(h).size}
Sides(taker, r) == Makers(r) \cup ({taker} \cap Hashes)

\* The makers of a run, and those of them the queue does not hold yet.
LEMMA MakersAre ==
  ASSUME NEW M, NEW r \in Runs
  PROVE  /\ MakerSeq(r) \in Seq(Hashes) /\ ToSet(MakerSeq(r)) = Makers(r)
         /\ Makers(r) \subseteq Hashes
         /\ NewMakers(M, r) \in Seq(Hashes) /\ ToSet(NewMakers(M, r)) = Makers(r) \ M.queued
         /\ Len(MakerSeq(r)) = Len(r.fills) /\ DOMAIN MakerSeq(r) = DOMAIN r.fills
         /\ \A i \in DOMAIN r.fills : r.fills[i].maker \in Hashes /\ r.fills[i].amount \in Nat \ {0}
         /\ \A i \in DOMAIN r.fills : MakerSeq(r)[i] = r.fills[i].maker
         /\ r.fills \in Seq([maker : Hashes, amount : Nat \ {0}])
  <1>1. r.fills \in Seq([maker : Hashes, amount : Nat \ {0}])
    BY DEF Runs
  <1>1a. Len(r.fills) \in Nat /\ DOMAIN r.fills = 1 .. Len(r.fills)
         /\ \A i \in DOMAIN r.fills : r.fills[i] \in [maker : Hashes, amount : Nat \ {0}]
    BY <1>1, SeqElems
  <1>2. \A i \in DOMAIN r.fills : r.fills[i].maker \in Hashes /\ r.fills[i].amount \in Nat \ {0}
    BY <1>1a
  <1>3. MakerSeq(r) \in Seq(Hashes) /\ Len(MakerSeq(r)) = Len(r.fills)
        /\ DOMAIN MakerSeq(r) = DOMAIN r.fills
        /\ \A i \in DOMAIN r.fills : MakerSeq(r)[i] = r.fills[i].maker
    <2> DEFINE n == Len(r.fills)
               F == MakerSeq(r)
    <2>1. F = [i \in 1 .. n |-> r.fills[i].maker] /\ n \in Nat
      BY <1>1a, Zenon DEF MakerSeq
    <2> HIDE DEF F, n
    <2>2. F = [i \in 1 .. n |-> F[i]] /\ \A i \in 1 .. n : F[i] = r.fills[i].maker
      BY <2>1
    <2>3. \A i \in 1 .. n : F[i] \in Hashes
      BY <1>1a, <1>2, <2>2 DEF n
    <2>4. F \in Seq(Hashes) /\ Len(F) = n /\ DOMAIN F = 1 .. n
      BY <2>1, <2>2, <2>3, SeqMade
    <2> QED
      BY <1>1a, <2>2, <2>4 DEF F, n
  <1>4. ToSet(MakerSeq(r)) = Makers(r)
    BY <1>3, Zenon DEF ToSet, Makers
  <1>5. Makers(r) \subseteq Hashes
    BY <1>2 DEF Makers
  <1>6. NewMakers(M, r) \in Seq(Hashes) /\ ToSet(NewMakers(M, r)) = Makers(r) \cap (Makers(r) \ M.queued)
    BY <1>3, <1>4, KeepIs DEF NewMakers
  <1> QED
    BY <1>1, <1>2, <1>3, <1>4, <1>5, <1>6

\* The match of a run is an operation.
LEMMA MatchOpType ==
  ASSUME NEW r \in Runs, NEW taker \in Hashes \cup Liquidations
  PROVE  /\ MatchOp(taker, r.fills) \in Operations
         /\ MatchOp(taker, r.fills).op = "match" /\ MatchOp(taker, r.fills).taker = Id(taker)
         /\ DOMAIN MatchOp(taker, r.fills).fills = DOMAIN r.fills
         /\ Len(MatchOp(taker, r.fills).fills) = Len(r.fills)
         /\ \A i \in DOMAIN r.fills :
              /\ MatchOp(taker, r.fills).fills[i].id = Id(r.fills[i].maker)
              /\ MatchOp(taker, r.fills).fills[i].amount = r.fills[i].amount
  <1>1. r.fills \in Seq([maker : Hashes, amount : Nat \ {0}])
    BY DEF Runs
  <1>1a. Len(r.fills) \in Nat /\ DOMAIN r.fills = 1 .. Len(r.fills)
         /\ \A i \in DOMAIN r.fills : r.fills[i] \in [maker : Hashes, amount : Nat \ {0}]
    BY <1>1, SeqElems
  <1>2. \A i \in DOMAIN r.fills :
          [id |-> Id(r.fills[i].maker), amount |-> r.fills[i].amount]
            \in [id : Ids, amount : Nat \ {0}]
    BY <1>1a, OrderTypes
  <1>3. Id(taker) \in Names
    BY OrderTypes DEF Names
  <1> DEFINE F == [i \in DOMAIN r.fills |->
                     [id |-> Id(r.fills[i].maker), amount |-> r.fills[i].amount]]
  <1>4. F \in Seq([id : Ids, amount : Nat \ {0}]) /\ Len(F) = Len(r.fills)
        /\ DOMAIN F = DOMAIN r.fills
        /\ \A i \in DOMAIN r.fills : F[i].id = Id(r.fills[i].maker) /\ F[i].amount = r.fills[i].amount
    <2> DEFINE n == Len(r.fills)
               R == [id : Ids, amount : Nat \ {0}]
    <2>1. n \in Nat /\ DOMAIN r.fills = 1 .. n
      BY <1>1a
    <2>2. \A i \in DOMAIN r.fills :
            /\ F[i] = [id |-> Id(r.fills[i].maker), amount |-> r.fills[i].amount]
            /\ F[i] \in R
      <3> SUFFICES ASSUME NEW i \in DOMAIN r.fills
                   PROVE  /\ F[i] = [id |-> Id(r.fills[i].maker), amount |-> r.fills[i].amount]
                          /\ F[i] \in R
        OBVIOUS
      <3>1. F[i] = [id |-> Id(r.fills[i].maker), amount |-> r.fills[i].amount]
        OBVIOUS
      <3> HIDE DEF F
      <3> QED
        BY <1>2, <3>1
    <2>5. \A i \in DOMAIN r.fills : F[i].id = Id(r.fills[i].maker) /\ F[i].amount = r.fills[i].amount
      OBVIOUS
    <2>3. F = [i \in 1 .. n |-> F[i]]
      BY <2>1
    <2> HIDE DEF F, n, R
    <2>4. F \in Seq(R) /\ Len(F) = n /\ DOMAIN F = 1 .. n
      BY <2>1, <2>2, <2>3, SeqMade
    <2> QED
      BY <2>1, <2>4, <2>5 DEF n, R
  <1>5. MatchOp(taker, r.fills) = [op |-> "match", taker |-> Id(taker), fills |-> F]
    BY DEF MatchOp
  <1> HIDE DEF F
  <1> QED
    BY <1>3, <1>4, <1>5 DEF Operations

\* The memclob after mustUpdateMemclobStateWithMatches.
Updated(M, taker, r, U) ==
  /\ U \in Mems
  /\ ToSet(U.book) = ToSet(M.book) \ FilledMakers(r)
  /\ U.queue = ((M.queue \o Placements(NewMakers(M, r))) \o TakerOp(taker))
                 \o <<MatchOp(taker, r.fills)>>
  /\ U.queued = M.queued \cup Sides(taker, r)
  /\ U.removals = M.removals
  /\ U.cancels = M.cancels
  /\ U.bytes = M.bytes \cup ShortOf(taker)
  /\ \A h \in Sides(taker, r) : U.matched[Id(h)] = h
  /\ \A id \in Ids : (\A h \in Sides(taker, r) : Id(h) # id) => U.matched[id] = M.matched[id]

\* mustUpdateMemclobStateWithMatches, field by field.
LEMMA UpdateDoes ==
  ASSUME NEW M \in Mems, NEW r \in Runs, NEW taker \in Hashes \cup Liquidations,
         DistinctIds(Sides(taker, r)), taker \notin Makers(r),
         NEW U, U = UpdateWithMatches(M, taker, r)
  PROVE  /\ Updated(M, taker, r, U)
         /\ /\ ~M.panicked /\ Makers(r) \subseteq ToSet(M.book)
            /\ \A h \in ToSet(M.book) : ~IsStateful(h) => h \in M.bytes
            /\ \A h \in Sides(taker, r) :
                 M.matched[Id(h)] = None \/ ~IsReplacedBy(h, M.matched[Id(h)])
            /\ taker \notin M.queued /\ taker \notin M.bytes
            /\ \A h \in Makers(r) : r.fill[Id(h)] =< Order(h).size
            => ~U.panicked
  <1> DEFINE K == Matched(M, Sides(taker, r))
             Q == AddPlacements(K, NewMakers(M, r))
             F == RemoveAll(Q, FilledMakers(r))
             T == QueueTaker(F, taker)
             mop == MatchOp(taker, r.fills)
             P == T.panicked \/ \E h \in Makers(r) : r.fill[Id(h)] > Order(h).size
  <1>1. U = [T EXCEPT !.queue = Append(@, mop), !.panicked = P]
    BY MakersAre, Zenon DEF UpdateWithMatches, Sides, NewMakers, MakerSeq, FilledMakers
  <1>2. Sides(taker, r) \in SUBSET Hashes /\ Makers(r) \subseteq Sides(taker, r)
    BY MakersAre DEF Sides
  <1>3. /\ K \in Mems
        /\ K.book = M.book
        /\ K.queue = M.queue
        /\ K.queued = M.queued
        /\ K.removals = M.removals
        /\ K.cancels = M.cancels
        /\ K.bytes = M.bytes
        /\ \A h \in Sides(taker, r) : K.matched[Id(h)] = h
        /\ \A id \in Ids : (\A h \in Sides(taker, r) : Id(h) # id) => K.matched[id] = M.matched[id]
        /\ /\ ~M.panicked
           /\ \A h \in Sides(taker, r) : M.matched[Id(h)] = None \/ ~IsReplacedBy(h, M.matched[Id(h)])
           => ~K.panicked
    BY <1>2, MatchedDoes
  <1> HIDE DEF K
  <1>4. NewMakers(M, r) \in Seq(Hashes) /\ ToSet(NewMakers(M, r)) = Makers(r) \ M.queued
    BY MakersAre
  <1>5. /\ Q \in Mems
        /\ Q.book = K.book
        /\ Q.queue = K.queue \o Placements(NewMakers(M, r))
        /\ Q.queued = K.queued \cup ToSet(NewMakers(M, r))
        /\ Q.removals = K.removals
        /\ Q.matched = K.matched
        /\ Q.cancels = K.cancels
        /\ Q.bytes = K.bytes
        /\ ~K.panicked /\ (\A h \in ToSet(NewMakers(M, r)) :
                             h \notin K.queued /\ (~IsStateful(h) => h \in K.bytes))
             => ~Q.panicked
    BY <1>3, <1>4, AddPlacementsDoes
  <1> HIDE DEF Q
  <1>6. Q.queued = M.queued \cup Makers(r)
    BY <1>3, <1>4, <1>5
  <1>7. FilledMakers(r) \subseteq Makers(r) /\ FilledMakers(r) \subseteq Q.queued
    BY <1>6 DEF FilledMakers
  <1>8. /\ F \in Mems
        /\ ToSet(F.book) = ToSet(Q.book) \ FilledMakers(r)
        /\ F.queue = Q.queue
        /\ F.queued = Q.queued
        /\ F.removals = Q.removals
        /\ F.matched = Q.matched
        /\ F.cancels = Q.cancels
        /\ F.bytes = Q.bytes \ {h \in FilledMakers(r) : ~IsStateful(h) /\ h \notin Q.queued}
        /\ ~Q.panicked /\ FilledMakers(r) \subseteq ToSet(Q.book)
             /\ (\A h \in FilledMakers(r) : ~IsStateful(h) /\ h \notin Q.queued => h \in Q.bytes)
             => ~F.panicked
    BY <1>5, RemoveAllDoes
  <1>9. F.bytes = Q.bytes
    BY <1>7, <1>8
  <1> HIDE DEF F
  <1>10. /\ T \in Mems
         /\ T.book = F.book
         /\ T.queue = F.queue \o TakerOp(taker)
         /\ T.queued = F.queued \cup ({taker} \cap Hashes)
         /\ T.removals = F.removals
         /\ T.matched = F.matched
         /\ T.cancels = F.cancels
         /\ T.bytes = F.bytes \cup ShortOf(taker)
         /\ ~F.panicked /\ taker \notin F.queued /\ taker \notin F.bytes => ~T.panicked
    BY <1>8, QueueTakerDoes
  <1> HIDE DEF T
  <1>11. mop \in Operations /\ P \in BOOLEAN
    BY <1>10, MatchOpType DEF Mems
  <1>12. Append(T.queue, mop) \in Seq(Operations) /\ Append(T.queue, mop) = T.queue \o <<mop>>
    <2>1. T.queue \in Seq(Operations)
      BY <1>10 DEF Mems
    <2> HIDE DEF mop
    <2> QED
      BY <1>11, <2>1
  <1> HIDE DEF P, mop
  <1>13. /\ U \in Mems /\ U.book = T.book /\ U.queue = Append(T.queue, mop) /\ U.queued = T.queued
         /\ U.removals = T.removals /\ U.matched = T.matched /\ U.cancels = T.cancels
         /\ U.bytes = T.bytes /\ U.panicked = P
    BY <1>1, <1>10, <1>11, <1>12 DEF Mems
  <1>14. U.queue = ((M.queue \o Placements(NewMakers(M, r))) \o TakerOp(taker)) \o <<mop>>
    BY <1>3, <1>5, <1>8, <1>10, <1>12, <1>13
  <1>15. U.queued = M.queued \cup Sides(taker, r)
    BY <1>6, <1>8, <1>10, <1>13 DEF Sides
  <1>16. ASSUME ~M.panicked, Makers(r) \subseteq ToSet(M.book),
                \A h \in ToSet(M.book) : ~IsStateful(h) => h \in M.bytes,
                \A h \in Sides(taker, r) :
                  M.matched[Id(h)] = None \/ ~IsReplacedBy(h, M.matched[Id(h)]),
                taker \notin M.queued, taker \notin M.bytes,
                \A h \in Makers(r) : r.fill[Id(h)] =< Order(h).size
         PROVE  ~U.panicked
    <2>1. ~K.panicked
      BY <1>3, <1>16
    <2>2. ~Q.panicked
      BY <1>3, <1>4, <1>5, <1>16, <2>1
    <2>3. ~F.panicked
      BY <1>3, <1>5, <1>7, <1>8, <1>16, <2>2
    <2>4. ~T.panicked
      BY <1>3, <1>5, <1>6, <1>8, <1>9, <1>10, <1>16, <2>3
    <2>5. ~\E h \in Makers(r) : r.fill[Id(h)] > Order(h).size
      <3>1. \A h \in Makers(r) : r.fill[Id(h)] \in Nat /\ Order(h).size \in Nat
        BY MakersAre, OrderTypes DEF Runs, Fillings
      <3> QED
        BY <1>16, <3>1
    <2> QED
      BY <1>13, <2>4, <2>5 DEF P
  <1> QED
    BY <1>3, <1>5, <1>8, <1>9, <1>10, <1>13, <1>14, <1>15, <1>16 DEF mop, Updated

\* The memclob after the failed makers have left.
RemovedBy(M, taker, out, A) ==
  /\ A \in Mems
  /\ ToSet(A.book) = ToSet(M.book) \ (ToSet(out) \cup RestingWith(M, Id(taker)))
  /\ A.queue = M.queue \o Removing(M, out)
  /\ A.queued = M.queued
  /\ A.removals = M.removals \cup {Id(h) : h \in ToRemove(M, out)}
  /\ A.matched = M.matched
  /\ A.cancels = M.cancels

\* RemoveMakersDoes, packaged.
LEMMA RemovedMakers ==
  ASSUME NEW M \in Mems, NEW taker, NEW out \in Seq(Hashes)
  PROVE  RemovedBy(M, taker, out, RemoveMakers(M, taker, out))
  BY RemoveMakersDoes DEF RemovedBy

\* mustAddOrderToOrderbook: no panic if the order is not filled and no order of
\* its id rests.
LEMMA AddToBookDoes ==
  ASSUME NEW M \in Mems, NEW h \in Hashes, NEW fills, NEW A, A = AddToBook(M, h, fills)
  PROVE  /\ A \in Mems
         /\ ToSet(A.book) = ToSet(M.book) \cup {h}
         /\ A.queue = M.queue /\ A.queued = M.queued /\ A.removals = M.removals
         /\ A.matched = M.matched /\ A.cancels = M.cancels /\ A.bytes = M.bytes
         /\ ~M.panicked /\ Remaining(h, fills) # 0 /\ RestingWith(M, Id(h)) = {} => ~A.panicked
  <1> DEFINE P == \/ M.panicked
                  \/ Remaining(h, fills) = 0
                  \/ RestingWith(M, Id(h)) # {}
             B == Append(M.book, h)
  <1>1. M.book \in Seq(Hashes)
    BY DEF Mems
  <1>2. B \in Seq(Hashes) /\ ToSet(B) = ToSet(M.book) \cup {h}
    BY <1>1, OutGrows
  <1>3. P \in BOOLEAN
    BY DEF Mems
  <1>4. A = [M EXCEPT !.book = B, !.panicked = P]
    BY DEF AddToBook
  <1> HIDE DEF P, B
  <1>5. A \in Mems /\ A.book = B /\ A.queue = M.queue /\ A.queued = M.queued
        /\ A.removals = M.removals /\ A.matched = M.matched /\ A.cancels = M.cancels
        /\ A.bytes = M.bytes /\ A.panicked = P
    BY <1>2, <1>3, <1>4 DEF Mems
  <1> QED
    BY <1>2, <1>5 DEF P

\* The order rests, or the state is to forget it.
Rests(h, left, status) ==
  status = "Success" /\ left # 0 /\ ~RequiresImmediateExecution(h)
Fails(h, left, status) ==
  status # "Success" \/ (left # 0 /\ RequiresImmediateExecution(h))

RestingOf(h, left, status) == {g \in {h} : Rests(h, left, status)}
FailingOf(h, left, status) == IF Fails(h, left, status) THEN <<h>> ELSE <<>>

\* The memclob after Rest.
RestedAs(M, fills, h, R, new, off) ==
  /\ R \in Mems /\ off \in Seq(Hashes)
  /\ ToSet(R.book) = ToSet(M.book) \cup new
  /\ R.queue = M.queue \o Removing(M, off)
  /\ Removing(M, off) \in Seq(Operations)
  /\ R.queued = M.queued
  /\ R.removals = M.removals \cup {Id(g) : g \in ToRemove(M, off)}
  /\ R.matched = M.matched /\ R.cancels = M.cancels
  /\ R.bytes = M.bytes \cup {g \in new : ~IsStateful(g) /\ g \notin M.queued}
  /\ /\ ~M.panicked
     /\ h \in new => /\ Remaining(h, fills) # 0 /\ RestingWith(M, Id(h)) = {}
                     /\ ~IsStateful(h) /\ h \notin M.queued => h \notin M.bytes
     => ~R.panicked

\* What becomes of the order after matching: it rests, is removed, or neither.
LEMMA RestDoes ==
  ASSUME NEW M \in Mems, NEW h \in Hashes, NEW fills, NEW left, NEW status,
         NEW R, R = Rest(M, fills, h, left, status)
  PROVE  RestedAs(M, fills, h, R, RestingOf(h, left, status), FailingOf(h, left, status))
  <1>a. PICK new : new = RestingOf(h, left, status)
    OBVIOUS
  <1>b. PICK off : off = FailingOf(h, left, status)
    OBVIOUS
  <1> SUFFICES RestedAs(M, fills, h, R, new, off)
    BY <1>a, <1>b
  <1> USE <1>a, <1>b
  <1>0. off \in Seq(Hashes)
    BY DEF FailingOf
  <1>1. CASE Fails(h, left, status)
    <2>1. R = RemoveFromState(M, off) /\ new = {}
      BY <1>1 DEF Rest, Fails, Rests, RestingOf, FailingOf
    <2>2. /\ RemoveFromState(M, off) \in Mems
          /\ RemoveFromState(M, off).book = M.book
          /\ RemoveFromState(M, off).queue = M.queue \o Removing(M, off)
          /\ Removing(M, off) \in Seq(Operations)
          /\ RemoveFromState(M, off).queued = M.queued
          /\ RemoveFromState(M, off).removals = M.removals \cup {Id(g) : g \in ToRemove(M, off)}
          /\ RemoveFromState(M, off).matched = M.matched
          /\ RemoveFromState(M, off).cancels = M.cancels
          /\ RemoveFromState(M, off).bytes = M.bytes
          /\ RemoveFromState(M, off).panicked = M.panicked
      BY <1>0, RemoveFromStateDoes
    <2> QED
      BY <1>0, <2>1, <2>2 DEF RestedAs
  <1>2. CASE ~Fails(h, left, status)
    <2>1. off = <<>> /\ ToRemove(M, off) = {} /\ Removing(M, off) = <<>>
      <3>1. off = <<>>
        BY <1>2 DEF FailingOf
      <3>2. ToRemove(M, <<>>) = {}
        BY DEF ToRemove, ToSet
      <3>3. Removing(M, off) \in Seq(Operations)
            /\ ToSet(Removing(M, off)) = {[op |-> "remove", id |-> Id(g)] : g \in ToRemove(M, off)}
        BY <1>0, RemoveFromStateDoes
      <3>4. Removing(M, <<>>) = <<>>
        BY <3>1, <3>2, <3>3, EmptySet
      <3> QED
        BY <3>1, <3>2, <3>4
    <2>2. M.queue \o <<>> = M.queue /\ <<>> \in Seq(Operations)
      BY DEF Mems
    <2>3. CASE ~Rests(h, left, status)
      <3>1. R = M /\ new = {}
        BY <1>2, <2>3 DEF Rest, Rests, Fails, RestingOf
      <3> QED
        BY <1>0, <2>1, <2>2, <3>1 DEF RestedAs
    <2>4. CASE Rests(h, left, status)
      <3> DEFINE A == IF IsStateful(h) \/ h \in M.queued THEN M ELSE AddTxBytes(M, h)
      <3>1. R = AddToBook(A, h, fills) /\ new = {h}
        BY <2>4 DEF Rest, Rests, RestingOf
      <3>2. /\ A \in Mems /\ A.book = M.book /\ A.queue = M.queue /\ A.queued = M.queued
            /\ A.removals = M.removals /\ A.matched = M.matched /\ A.cancels = M.cancels
            /\ A.bytes = M.bytes \cup {g \in {h} : ~IsStateful(g) /\ g \notin M.queued}
            /\ ~M.panicked /\ (~IsStateful(h) /\ h \notin M.queued => h \notin M.bytes)
                 => ~A.panicked
        <4>1. CASE IsStateful(h) \/ h \in M.queued
          <5>1. A = M /\ {g \in {h} : ~IsStateful(g) /\ g \notin M.queued} = {}
            BY <4>1
          <5> QED
            BY <5>1
        <4>2. CASE ~(IsStateful(h) \/ h \in M.queued)
          <5>1. A = AddTxBytes(M, h) /\ {g \in {h} : ~IsStateful(g) /\ g \notin M.queued} = {h}
            BY <4>2
          <5> QED
            BY <5>1, <4>2, AddTxBytesDoes
        <4> QED
          BY <4>1, <4>2
      <3> HIDE DEF A
      <3>3. /\ R \in Mems
            /\ ToSet(R.book) = ToSet(A.book) \cup {h}
            /\ R.queue = A.queue /\ R.queued = A.queued /\ R.removals = A.removals
            /\ R.matched = A.matched /\ R.cancels = A.cancels /\ R.bytes = A.bytes
            /\ ~A.panicked /\ Remaining(h, fills) # 0 /\ RestingWith(A, Id(h)) = {} => ~R.panicked
        BY <3>1, <3>2, AddToBookDoes
      <3>4. RestingWith(A, Id(h)) = RestingWith(M, Id(h))
        BY <3>2 DEF RestingWith
      <3> QED
        BY <1>0, <2>1, <2>2, <3>1, <3>2, <3>3, <3>4 DEF RestedAs
    <2> QED
      BY <2>3, <2>4
  <1> QED
    BY <1>1, <1>2

-----------------------------------------------------------------------------
(* What always holds of a memclob.                                         *)

\* No order is placed twice by the queue.
OncePlaced(q) == \A i, j \in DOMAIN q : q[i].op = "place" /\ q[i] = q[j] => i = j
PlaceOp(h) == [op |-> "place", order |-> h]

\* The bytes of a short-term order are kept as long as it rests or is queued.
BytesKept(M) ==
  \A h \in Hashes :
    h \in M.bytes <=> ~IsStateful(h) /\ (h \in ToSet(M.book) \/ h \in M.queued)
\* MatchedOrderIdToOrder holds the newest order of an id in the queue.
QueuedKnown(M) ==
  \A h \in M.queued : M.matched[Id(h)] # None /\ ~IsReplacedBy(M.matched[Id(h)], h)
\* What rests is not older than the order of its id that was matched last.
RestingKnown(M) ==
  \A h \in ToSet(M.book) : \/ M.matched[Id(h)] \in {None, h}
                           \/ IsReplacedBy(M.matched[Id(h)], h)
\* What rests is not filled.
Unfilled(M, fills) == \A h \in ToSet(M.book) : fills[Id(h)] < Order(h).size
\* What rests is not cancelled.
Uncancelled(M) ==
  \A h \in ToSet(M.book) : IsStateful(h) \/ M.cancels[Id(h)] < Order(h).goodTil
\* The book is not crossed.
Uncrossed(M) == \A g, h \in ToSet(M.book) : ~Crosses(g, h)
\* The queue places the short-term orders it holds, each once.
PlacedOnce(M) ==
  /\ \A h \in Hashes : PlaceOp(h) \in ToSet(M.queue) <=> h \in M.queued /\ ~IsStateful(h)
  /\ OncePlaced(M.queue)

\* What always holds of a memclob and the fill amounts of CheckTx.
MemOK(M, fills) ==
  /\ M \in Mems /\ fills \in Fillings /\ ~M.panicked
  /\ DistinctIds(ToSet(M.book))
  /\ BytesKept(M) /\ QueuedKnown(M) /\ RestingKnown(M) /\ Unfilled(M, fills)
  /\ Uncancelled(M) /\ Uncrossed(M) /\ PlacedOnce(M)

\* The taker may be matched.
Admitted(M, fills, taker) ==
  \/ taker \in Liquidations
  \/ /\ taker \in Hashes
     /\ fills[Id(taker)] < Order(taker).size
     /\ ~IsStateful(taker) => M.cancels[Id(taker)] < Order(taker).goodTil
     /\ M.matched[Id(taker)] = None \/ IsReplacedBy(M.matched[Id(taker)], taker)
     /\ \A g \in RestingWith(M, Id(taker)) : ~IsStateful(g) /\ IsReplacedBy(g, taker)

\* Two queues in which no placement occurs twice, joined.
LEMMA OnceConcat ==
  ASSUME NEW a \in Seq(Operations), NEW b \in Seq(Operations), OncePlaced(a), OncePlaced(b),
         \A x \in ToSet(a) \cap ToSet(b) : x.op # "place"
  PROVE  OncePlaced(a \o b)
  <1>1. Len(a) \in Nat /\ Len(b) \in Nat /\ DOMAIN (a \o b) = 1 .. Len(a) + Len(b)
        /\ DOMAIN a = 1 .. Len(a) /\ DOMAIN b = 1 .. Len(b)
    OBVIOUS
  <1>2. \A i \in DOMAIN a : (a \o b)[i] = a[i]
    OBVIOUS
  <1>3. \A i \in DOMAIN b : (a \o b)[Len(a) + i] = b[i]
    OBVIOUS
  <1>4. PICK c : c = a \o b
    OBVIOUS
  <1>5. \A i \in DOMAIN c : \/ i \in DOMAIN a /\ c[i] = a[i]
                            \/ i - Len(a) \in DOMAIN b /\ c[i] = b[i - Len(a)]
    <2> SUFFICES ASSUME NEW i \in DOMAIN c, i \notin DOMAIN a
                 PROVE  i - Len(a) \in DOMAIN b /\ c[i] = b[i - Len(a)]
      BY <1>2, <1>4
    <2>1. i - Len(a) \in DOMAIN b /\ i = Len(a) + (i - Len(a))
      BY <1>1, <1>4
    <2> QED
      BY <1>3, <1>4, <2>1
  <1>6. ASSUME NEW i \in DOMAIN c, NEW j \in DOMAIN c, c[i].op = "place", c[i] = c[j]
        PROVE  i = j
    <2>1. CASE i \in DOMAIN a /\ c[i] = a[i] /\ j \in DOMAIN a /\ c[j] = a[j]
      BY <1>6, <2>1 DEF OncePlaced
    <2>2. CASE i \in DOMAIN a /\ c[i] = a[i] /\ j - Len(a) \in DOMAIN b /\ c[j] = b[j - Len(a)]
      BY <1>6, <2>2 DEF ToSet
    <2>3. CASE i - Len(a) \in DOMAIN b /\ c[i] = b[i - Len(a)] /\ j \in DOMAIN a /\ c[j] = a[j]
      BY <1>6, <2>3 DEF ToSet
    <2>4. CASE i - Len(a) \in DOMAIN b /\ c[i] = b[i - Len(a)]
               /\ j - Len(a) \in DOMAIN b /\ c[j] = b[j - Len(a)]
      <3>1. i - Len(a) = j - Len(a)
        BY <1>6, <2>4 DEF OncePlaced
      <3>2. i \in Int /\ j \in Int
        BY <1>1, <1>4
      <3> QED
        BY <1>1, <3>1, <3>2
    <2> QED
      BY <1>5, <2>1, <2>2, <2>3, <2>4
  <1> QED
    BY <1>4, <1>6 DEF OncePlaced

\* Operations that place no order leave the placements alone.
LEMMA NonPlacing ==
  ASSUME NEW a \in Seq(Operations), NEW b \in Seq(Operations), OncePlaced(a),
         \A x \in ToSet(b) : x.op # "place"
  PROVE  /\ a \o b \in Seq(Operations) /\ OncePlaced(a \o b)
         /\ \A h \in Hashes : PlaceOp(h) \in ToSet(a \o b) <=> PlaceOp(h) \in ToSet(a)
  <1>1. OncePlaced(b)
    BY DEF OncePlaced, ToSet
  <1>2. a \o b \in Seq(Operations) /\ ToSet(a \o b) = ToSet(a) \cup ToSet(b)
    BY ConcatSet
  <1>3. \A h : PlaceOp(h) \notin ToSet(b)
    BY DEF PlaceOp
  <1> QED
    BY <1>1, <1>2, <1>3, OnceConcat

\* Removals are operations and place nothing.
LEMMA RemovingType ==
  ASSUME NEW M \in Mems, NEW hs \in Seq(Hashes)
  PROVE  Removing(M, hs) \in Seq(Operations) /\ \A x \in ToSet(Removing(M, hs)) : x.op = "remove"
  <1>1. Removing(M, hs) \in Seq(Operations)
        /\ ToSet(Removing(M, hs)) = {[op |-> "remove", id |-> Id(h)] : h \in ToRemove(M, hs)}
    BY RemoveFromStateDoes
  <1> QED
    BY <1>1

\* Makers that fail and the order that is replaced are gone.
LEMMA OffOK ==
  ASSUME NEW M, NEW fills, NEW taker, NEW out \in Seq(Hashes), MemOK(M, fills),
         Admitted(M, fills, taker), ToSet(out) \subseteq ToSet(M.book),
         NEW A, A = RemoveMakers(M, taker, out)
  PROVE  MemOK(A, fills) /\ Admitted(A, fills, taker) /\ RestingWith(A, Id(taker)) = {}
  <1> DEFINE S == ToSet(out) \cup RestingWith(M, Id(taker))
  <1>0. M \in Mems /\ ToSet(M.book) \subseteq Hashes
    BY BookType DEF MemOK
  <1>1. /\ A \in Mems
        /\ ToSet(A.book) = ToSet(M.book) \ S
        /\ A.queue = M.queue \o Removing(M, out)
        /\ A.queued = M.queued
        /\ A.matched = M.matched
        /\ A.cancels = M.cancels
        /\ A.bytes = M.bytes \ {h \in S : ~IsStateful(h) /\ h \notin M.queued}
    BY <1>0, RemoveMakersDoes
  <1>2. ~A.panicked
    <2>1. ~M.panicked /\ \A h \in ToSet(M.book) : ~IsStateful(h) => h \in M.bytes
      BY <1>0 DEF MemOK, BytesKept
    <2>2. \A h \in RestingWith(M, Id(taker)) : ~IsStateful(h)
      <3>1. CASE taker \in Liquidations
        BY <1>0, <3>1, LiquidationTypes, OrderTypes DEF RestingWith
      <3>2. CASE taker \notin Liquidations
        BY <3>2 DEF Admitted
      <3> QED
        BY <3>1, <3>2
    <2> QED
      BY <1>0, <2>1, <2>2, RemoveMakersDoes
  <1>3. RestingWith(A, Id(taker)) = {}
    BY <1>1 DEF RestingWith
  <1>4. BytesKept(A)
    BY <1>0, <1>1 DEF MemOK, BytesKept
  <1>5. PlacedOnce(A)
    <2>1. M.queue \in Seq(Operations) /\ OncePlaced(M.queue)
      BY <1>0 DEF Mems, MemOK, PlacedOnce
    <2>2. Removing(M, out) \in Seq(Operations) /\ \A x \in ToSet(Removing(M, out)) : x.op # "place"
      BY <1>0, RemovingType
    <2> QED
      BY <1>1, <2>1, <2>2, NonPlacing DEF MemOK, PlacedOnce
  <1> HIDE DEF S
  <1>6. /\ DistinctIds(ToSet(A.book)) /\ QueuedKnown(A) /\ RestingKnown(A) /\ Unfilled(A, fills)
        /\ Uncancelled(A) /\ Uncrossed(A)
    BY <1>1 DEF MemOK, DistinctIds, QueuedKnown, RestingKnown, Unfilled, Uncancelled, Uncrossed
  <1>7. Admitted(A, fills, taker)
    BY <1>1, <1>3 DEF Admitted
  <1> QED
    BY <1>1, <1>2, <1>3, <1>4, <1>5, <1>6, <1>7 DEF MemOK

\* The outcome of the loop, for a memclob without the makers that failed.
Fit(M, fills, taker, r) ==
  /\ r \in Runs /\ Makers(r) \subseteq ToSet(M.book)
  /\ \A h \in Makers(r) : Id(h) # Id(taker) /\ r.fill[Id(h)] =< Order(h).size
  /\ \A i, j \in DOMAIN r.fills : r.fills[i].maker = r.fills[j].maker => i = j
  /\ \A id \in Ids : \/ r.fill[id] = fills[id]
                     \/ id = Id(taker)
                     \/ \E h \in Makers(r) : Id(h) = id

\* The makers that are queued are placed once.
LEMMA NewMakersOnce ==
  ASSUME NEW M \in Mems, NEW r \in Runs,
         \A i, j \in DOMAIN r.fills : r.fills[i].maker = r.fills[j].maker => i = j
  PROVE  /\ Placements(NewMakers(M, r)) \in Seq(Operations)
         /\ OncePlaced(Placements(NewMakers(M, r)))
         /\ \A h \in Hashes : PlaceOp(h) \in ToSet(Placements(NewMakers(M, r)))
                                <=> h \in Makers(r) \ M.queued /\ ~IsStateful(h)
  <1> DEFINE N == NewMakers(M, r)
  <1>1. /\ MakerSeq(r) \in Seq(Hashes) /\ DOMAIN MakerSeq(r) = DOMAIN r.fills
        /\ \A i \in DOMAIN r.fills : MakerSeq(r)[i] = r.fills[i].maker
        /\ N \in Seq(Hashes) /\ ToSet(N) = Makers(r) \ M.queued
    BY MakersAre
  <1>2. IsInjective(MakerSeq(r))
    BY <1>1 DEF IsInjective
  <1>3. IsInjective(N)
    BY <1>1, <1>2, KeepIs DEF NewMakers
  <1> HIDE DEF N
  <1>4. /\ Placements(N) \in Seq(Operations)
        /\ ToSet(Placements(N)) = {Placement(h) : h \in ToSet(N)}
        /\ DOMAIN Placements(N) = DOMAIN N
        /\ \A i \in DOMAIN N : Placements(N)[i] = Placement(N[i])
    BY <1>1, PlacementsAre
  <1>5. \A i \in DOMAIN N : N[i] \in Hashes
    BY <1>1
  <1>6. ASSUME NEW g \in Hashes, NEW h \in Hashes, Placement(g).op = "place",
               Placement(g) = Placement(h)
        PROVE  g = h
    <2>1. ~IsStateful(g) /\ ~IsStateful(h)
      BY <1>6, PlacementType
    <2>2. Placement(g) = [op |-> "place", order |-> g] /\ Placement(h) = [op |-> "place", order |-> h]
      BY <2>1, PlacementType
    <2>3. Placement(g).order = g /\ Placement(h).order = h
      BY <2>2
    <2> QED
      BY <1>6, <2>3
  <1>7. OncePlaced(Placements(N))
    BY <1>3, <1>4, <1>5, <1>6 DEF OncePlaced, IsInjective
  <1>8. ASSUME NEW h \in Hashes
        PROVE  PlaceOp(h) \in ToSet(Placements(N)) <=> h \in ToSet(N) /\ ~IsStateful(h)
    <2>1. ASSUME h \in ToSet(N), ~IsStateful(h) PROVE PlaceOp(h) \in ToSet(Placements(N))
      BY <1>4, <2>1, PlacementType DEF PlaceOp
    <2>2. ASSUME PlaceOp(h) \in ToSet(Placements(N)) PROVE h \in ToSet(N) /\ ~IsStateful(h)
      <3>1. PICK g \in ToSet(N) : PlaceOp(h) = Placement(g)
        BY <1>4, <2>2
      <3>2. g \in Hashes /\ PlaceOp(h).op = "place" /\ PlaceOp(h).order = h
        BY <1>1, MakersAre DEF PlaceOp
      <3>3. ~IsStateful(g)
        BY <3>1, <3>2, PlacementType
      <3>4. Placement(g) = PlaceOp(g) /\ PlaceOp(g).order = g
        BY <3>2, <3>3, PlacementType DEF PlaceOp
      <3> QED
        BY <3>1, <3>2, <3>3, <3>4
    <2> QED
      BY <2>1, <2>2
  <1> QED
    BY <1>1, <1>4, <1>7, <1>8 DEF N

\* The taker is placed once.
LEMMA TakerOnce ==
  ASSUME NEW taker
  PROVE  /\ TakerOp(taker) \in Seq(Operations) /\ OncePlaced(TakerOp(taker))
         /\ \A h \in Hashes : PlaceOp(h) \in ToSet(TakerOp(taker)) <=> h = taker /\ ~IsStateful(h)
  <1>1. TakerOp(taker) \in Seq(Operations)
        /\ ToSet(TakerOp(taker)) = {Placement(h) : h \in {taker} \cap Hashes}
    BY TakerOpType
  <1>2. OncePlaced(TakerOp(taker))
    BY DEF TakerOp, OncePlaced
  <1>3. ASSUME NEW h \in Hashes
        PROVE  PlaceOp(h) \in ToSet(TakerOp(taker)) <=> h = taker /\ ~IsStateful(h)
    <2>1. ASSUME h = taker, ~IsStateful(h) PROVE PlaceOp(h) \in ToSet(TakerOp(taker))
      BY <1>1, <2>1, PlacementType DEF PlaceOp
    <2>2. ASSUME PlaceOp(h) \in ToSet(TakerOp(taker)) PROVE h = taker /\ ~IsStateful(h)
      <3>1. taker \in Hashes /\ PlaceOp(h) = Placement(taker)
        BY <1>1, <2>2
      <3>2. PlaceOp(h).op = "place" /\ PlaceOp(h).order = h
        BY DEF PlaceOp
      <3>3. ~IsStateful(taker)
        BY <3>1, <3>2, PlacementType
      <3>4. Placement(taker) = PlaceOp(taker) /\ PlaceOp(taker).order = taker
        BY <3>1, <3>3, PlacementType DEF PlaceOp
      <3> QED
        BY <3>1, <3>2, <3>3, <3>4
    <2> QED
      BY <2>1, <2>2
  <1> QED
    BY <1>1, <1>2, <1>3

\* A place operation names its order.
LEMMA PlaceNames ==
  \A x \in Operations : x.op = "place" => \E h \in Hashes : x = PlaceOp(h)
  <1> SUFFICES ASSUME NEW x \in Operations, x.op = "place" PROVE \E h \in Hashes : x = PlaceOp(h)
    OBVIOUS
  <1>1. x \in [op : {"place"}, order : Hashes]
    BY DEF Operations
  <1>2. x.order \in Hashes /\ x = [op |-> "place", order |-> x.order]
    BY <1>1
  <1> QED
    BY <1>2 DEF PlaceOp

\* Placements of new orders.
LEMMA Placing ==
  ASSUME NEW a \in Seq(Operations), NEW b \in Seq(Operations), OncePlaced(a), OncePlaced(b),
         NEW A \in SUBSET Hashes, NEW B \in SUBSET Hashes, A \cap B = {},
         \A h \in Hashes : PlaceOp(h) \in ToSet(a) <=> h \in A,
         \A h \in Hashes : PlaceOp(h) \in ToSet(b) <=> h \in B
  PROVE  /\ a \o b \in Seq(Operations) /\ OncePlaced(a \o b)
         /\ \A h \in Hashes : PlaceOp(h) \in ToSet(a \o b) <=> h \in A \cup B
  <1>1. a \o b \in Seq(Operations) /\ ToSet(a \o b) = ToSet(a) \cup ToSet(b)
    BY ConcatSet
  <1>2. \A x \in ToSet(a) \cap ToSet(b) : x.op # "place"
    <2> SUFFICES ASSUME NEW x \in ToSet(a) \cap ToSet(b), x.op = "place" PROVE FALSE
      OBVIOUS
    <2>1. x \in Operations
      BY DEF ToSet
    <2>2. PICK h \in Hashes : x = PlaceOp(h)
      BY <2>1, PlaceNames
    <2> QED
      BY <2>2
  <1> QED
    BY <1>1, <1>2, OnceConcat

\* An admitted taker is new to the memclob.
LEMMA TakerNew ==
  ASSUME NEW M, NEW fills, NEW taker, MemOK(M, fills), Admitted(M, fills, taker)
  PROVE  /\ taker \in Hashes \cup Liquidations
         /\ taker \notin M.queued /\ taker \notin ToSet(M.book)
         /\ taker \notin M.bytes
         /\ taker \in Hashes => M.matched[Id(taker)] # taker
  <1>0. M \in Mems /\ ToSet(M.book) \subseteq Hashes /\ M.queued \subseteq Hashes /\ M.bytes \subseteq Hashes
    BY BookType DEF MemOK, Mems
  <1>1. CASE taker \in Liquidations
    BY <1>0, <1>1, LiquidationTypes
  <1>2. CASE taker \notin Liquidations
    <2>1. taker \in Hashes
      BY <1>2 DEF Admitted
    <2>2. taker \notin M.queued
      BY <1>2 DEF Admitted, MemOK, QueuedKnown
    <2>3. taker \notin ToSet(M.book)
      BY <1>2, <2>1, Replacing DEF Admitted, RestingWith
    <2>4. M.matched[Id(taker)] # taker
      BY <1>2, <2>1, Replacing, OrderTypes DEF Admitted
    <2> QED
      BY <2>1, <2>2, <2>3, <2>4 DEF MemOK, BytesKept
  <1> QED
    BY <1>1, <1>2

\* The fills of a match join the memclob.
LEMMA UpdateOK ==
  ASSUME NEW M, NEW fills, NEW taker, NEW r, MemOK(M, fills), Admitted(M, fills, taker),
         RestingWith(M, Id(taker)) = {}, Fit(M, fills, taker, r),
         NEW U, U = UpdateWithMatches(M, taker, r)
  PROVE  /\ MemOK(U, r.fill) /\ RestingWith(U, Id(taker)) = {}
         /\ taker \in Hashes => taker \in U.queued /\ U.matched[Id(taker)] = taker
         /\ ToSet(U.book) \subseteq ToSet(M.book)
         /\ U.cancels = M.cancels
  <1>0. M \in Mems /\ ToSet(M.book) \subseteq Hashes /\ M.queued \subseteq Hashes /\ M.bytes \subseteq Hashes
        /\ r \in Runs /\ Makers(r) \subseteq ToSet(M.book)
    BY BookType DEF MemOK, Mems, Fit
  <1>1. /\ taker \in Hashes \cup Liquidations
        /\ taker \notin M.queued /\ taker \notin ToSet(M.book)
        /\ taker \notin M.bytes
    BY TakerNew
  <1>2. DistinctIds(Sides(taker, r)) /\ taker \notin Makers(r)
    BY DEF Fit, MemOK, DistinctIds, Sides
  <1>3. /\ U \in Mems
        /\ ToSet(U.book) = ToSet(M.book) \ FilledMakers(r)
        /\ U.queue = ((M.queue \o Placements(NewMakers(M, r))) \o TakerOp(taker))
                       \o <<MatchOp(taker, r.fills)>>
        /\ U.queued = M.queued \cup Sides(taker, r)
        /\ U.cancels = M.cancels
        /\ U.bytes = M.bytes \cup ShortOf(taker)
        /\ \A h \in Sides(taker, r) : U.matched[Id(h)] = h
        /\ \A id \in Ids : (\A h \in Sides(taker, r) : Id(h) # id) => U.matched[id] = M.matched[id]
    <2>1. Updated(M, taker, r, U)
      BY <1>0, <1>1, <1>2, UpdateDoes
    <2> QED
      BY <2>1 DEF Updated
  <1>4. \A h \in Sides(taker, r) :
          /\ h \in Hashes /\ h \notin Liquidations
          /\ M.matched[Id(h)] \in {None, h} \/ IsReplacedBy(M.matched[Id(h)], h)
    BY <1>0, OrderTypes DEF Sides, Admitted, MemOK, RestingKnown
  <1>5. ~U.panicked
    <2>1. \A h \in ToSet(M.book) : ~IsStateful(h) => h \in M.bytes
      BY <1>0 DEF MemOK, BytesKept
    <2>2. \A h \in Sides(taker, r) : M.matched[Id(h)] = None \/ ~IsReplacedBy(h, M.matched[Id(h)])
      <3> SUFFICES ASSUME NEW h \in Sides(taker, r), M.matched[Id(h)] # None
                   PROVE  ~IsReplacedBy(h, M.matched[Id(h)])
        OBVIOUS
      <3>1. M.matched[Id(h)] \in Hashes
        BY <1>0, <1>4, OrderTypes DEF Mems
      <3> QED
        BY <1>4, <3>1, Replacing
    <2>3. \A h \in Makers(r) : r.fill[Id(h)] =< Order(h).size
      BY DEF Fit
    <2>4. ~M.panicked
      BY DEF MemOK
    <2> QED
      BY <1>0, <1>1, <1>2, <2>1, <2>2, <2>3, <2>4, UpdateDoes
  <1>6. BytesKept(U)
    <2> SUFFICES ASSUME NEW h \in Hashes
                 PROVE  h \in U.bytes <=> ~IsStateful(h) /\ (h \in ToSet(U.book) \/ h \in U.queued)
      BY DEF BytesKept
    <2>1. h \in M.bytes <=> ~IsStateful(h) /\ (h \in ToSet(M.book) \/ h \in M.queued)
      BY DEF MemOK, BytesKept
    <2>2. h \in U.bytes <=> h \in M.bytes \/ (h = taker /\ ~IsStateful(h))
      BY <1>3 DEF ShortOf
    <2>3. h \in U.queued <=> h \in M.queued \/ h = taker \/ h \in Makers(r)
      BY <1>3 DEF Sides
    <2>4. h \in ToSet(U.book) \/ h \in Makers(r) <=> h \in ToSet(M.book)
      BY <1>0, <1>3 DEF FilledMakers
    <2> QED
      BY <2>1, <2>2, <2>3, <2>4
  <1>7. QueuedKnown(U)
    <2> SUFFICES ASSUME NEW h \in U.queued
                 PROVE  U.matched[Id(h)] # None /\ ~IsReplacedBy(U.matched[Id(h)], h)
      BY DEF QueuedKnown
    <2>0. h \in Hashes /\ Id(h) \in Ids /\ h # None
      BY <1>3, OrderTypes DEF Mems
    <2>1. CASE h \in Sides(taker, r)
      BY <1>3, <1>4, <2>0, <2>1, Replacing
    <2>2. CASE h \in M.queued /\ h \notin Sides(taker, r)
      <3>1. M.matched[Id(h)] \in Hashes /\ ~IsReplacedBy(M.matched[Id(h)], h)
        BY <1>0, <2>0, <2>2 DEF MemOK, QueuedKnown, Mems
      <3>2. CASE \E g \in Sides(taker, r) : Id(g) = Id(h)
        <4>1. PICK g \in Sides(taker, r) : Id(g) = Id(h)
          BY <3>2
        <4>2. U.matched[Id(h)] = g /\ g \in Hashes
          BY <1>3, <1>4, <4>1
        <4>3. M.matched[Id(h)] = g \/ IsReplacedBy(M.matched[Id(h)], g)
          BY <1>4, <3>1, <4>1, OrderTypes
        <4>4. ~IsReplacedBy(g, h)
          BY <2>0, <3>1, <4>2, <4>3, Replacing
        <4> QED
          BY <4>2, <4>4, OrderTypes
      <3>3. CASE ~\E g \in Sides(taker, r) : Id(g) = Id(h)
        BY <1>3, <2>0, <3>1, <3>3, OrderTypes
      <3> QED
        BY <3>2, <3>3
    <2> QED
      BY <1>3, <2>1, <2>2
  <1>8. \A h \in ToSet(M.book) : Id(h) # Id(taker) /\ (h \in Makers(r) \/ \A g \in Sides(taker, r) : Id(g) # Id(h))
    BY <1>0, <1>4 DEF RestingWith, Sides, MemOK, DistinctIds
  <1>9. RestingKnown(U)
    <2> SUFFICES ASSUME NEW h \in ToSet(M.book)
                 PROVE  U.matched[Id(h)] \in {None, h} \/ IsReplacedBy(U.matched[Id(h)], h)
      BY <1>3 DEF RestingKnown
    <2>1. CASE h \in Makers(r)
      BY <1>3, <2>1 DEF Sides
    <2>2. CASE h \notin Makers(r)
      <3>1. U.matched[Id(h)] = M.matched[Id(h)]
        BY <1>0, <1>3, <1>8, <2>2, OrderTypes
      <3> QED
        BY <3>1 DEF MemOK, RestingKnown
    <2> QED
      BY <2>1, <2>2
  <1>10. Unfilled(U, r.fill)
    <2> SUFFICES ASSUME NEW h \in ToSet(M.book), h \notin FilledMakers(r)
                 PROVE  r.fill[Id(h)] < Order(h).size
      BY <1>3 DEF Unfilled
    <2>1. Id(h) \in Ids /\ Order(h).size \in Nat /\ r.fill[Id(h)] \in Nat
      BY <1>0, OrderTypes DEF Runs, Fillings
    <2>2. CASE h \in Makers(r)
      BY <2>1, <2>2 DEF FilledMakers, Fit
    <2>3. CASE h \notin Makers(r)
      <3>1. r.fill[Id(h)] = fills[Id(h)]
        BY <1>8, <2>1, <2>3 DEF Fit, Sides
      <3> QED
        BY <3>1 DEF MemOK, Unfilled
    <2> QED
      BY <2>2, <2>3
  <1>11. PlacedOnce(U)
    <2> DEFINE a == M.queue
               b == Placements(NewMakers(M, r))
               c == TakerOp(taker)
               d == <<MatchOp(taker, r.fills)>>
    <2>1. /\ a \in Seq(Operations) /\ OncePlaced(a)
          /\ \A h \in Hashes : PlaceOp(h) \in ToSet(a) <=> h \in {g \in M.queued : ~IsStateful(g)}
      BY <1>0 DEF Mems, MemOK, PlacedOnce
    <2>2. /\ b \in Seq(Operations) /\ OncePlaced(b)
          /\ \A h \in Hashes : PlaceOp(h) \in ToSet(b)
                                 <=> h \in {g \in Makers(r) \ M.queued : ~IsStateful(g)}
      <3>1. \A i, j \in DOMAIN r.fills : r.fills[i].maker = r.fills[j].maker => i = j
        BY DEF Fit
      <3> HIDE DEF b
      <3> QED
        BY <1>0, <3>1, NewMakersOnce DEF b
    <2>3. /\ c \in Seq(Operations) /\ OncePlaced(c)
          /\ \A h \in Hashes : PlaceOp(h) \in ToSet(c) <=> h \in ShortOf(taker)
      BY TakerOnce DEF ShortOf
    <2>4. d \in Seq(Operations) /\ \A x \in ToSet(d) : x.op # "place"
      <3>1. MatchOp(taker, r.fills) \in Operations /\ MatchOp(taker, r.fills).op = "match"
        BY <1>0, <1>1, MatchOpType
      <3>2. ToSet(d) = {MatchOp(taker, r.fills)} /\ d \in Seq(Operations)
        BY <3>1, SingletonSet
      <3> QED
        BY <3>1, <3>2
    <2>5. U.queue = ((a \o b) \o c) \o d
      BY <1>3
    <2> HIDE DEF a, b, c, d
    <2>6. /\ a \o b \in Seq(Operations) /\ OncePlaced(a \o b)
          /\ \A h \in Hashes : PlaceOp(h) \in ToSet(a \o b)
                <=> h \in {g \in M.queued : ~IsStateful(g)} \cup {g \in Makers(r) \ M.queued : ~IsStateful(g)}
      <3> DEFINE X == {g \in M.queued : ~IsStateful(g)}
                 Y == {g \in Makers(r) \ M.queued : ~IsStateful(g)}
      <3>1. X \cap Y = {} /\ X \in SUBSET Hashes /\ Y \in SUBSET Hashes
        BY <1>0
      <3>2. /\ \A h \in Hashes : PlaceOp(h) \in ToSet(a) <=> h \in X
            /\ \A h \in Hashes : PlaceOp(h) \in ToSet(b) <=> h \in Y
        BY <2>1, <2>2
      <3> HIDE DEF X, Y
      <3>3. /\ a \o b \in Seq(Operations) /\ OncePlaced(a \o b)
            /\ \A h \in Hashes : PlaceOp(h) \in ToSet(a \o b) <=> h \in X \cup Y
        BY <2>1, <2>2, <3>1, <3>2, Placing
      <3> QED
        BY <3>3 DEF X, Y
    <2> DEFINE AB == {g \in M.queued \cup Makers(r) : ~IsStateful(g)}
               ab == a \o b
    <2>7. AB \in SUBSET Hashes /\ ShortOf(taker) \in SUBSET Hashes /\ AB \cap ShortOf(taker) = {}
      BY <1>0, <1>1, <1>2 DEF ShortOf
    <2>8. /\ ab \in Seq(Operations) /\ OncePlaced(ab)
          /\ \A h \in Hashes : PlaceOp(h) \in ToSet(ab) <=> h \in AB
      BY <2>6
    <2> HIDE DEF AB, ab
    <2>9. /\ ab \o c \in Seq(Operations) /\ OncePlaced(ab \o c)
          /\ \A h \in Hashes : PlaceOp(h) \in ToSet(ab \o c) <=> h \in AB \cup ShortOf(taker)
      BY <2>3, <2>7, <2>8, Placing
    <2> DEFINE abc == ab \o c
    <2>9a. /\ abc \in Seq(Operations) /\ OncePlaced(abc)
           /\ \A h \in Hashes : PlaceOp(h) \in ToSet(abc) <=> h \in AB \cup ShortOf(taker)
      BY <2>9
    <2> HIDE DEF abc
    <2>10. /\ OncePlaced(abc \o d)
           /\ \A h \in Hashes : PlaceOp(h) \in ToSet(abc \o d) <=> PlaceOp(h) \in ToSet(abc)
      BY <2>4, <2>9a, NonPlacing
    <2>11. \A h \in Hashes : h \in AB \cup ShortOf(taker) <=> h \in U.queued /\ ~IsStateful(h)
      BY <1>3 DEF AB, ShortOf, Sides
    <2> QED
      BY <2>5, <2>9a, <2>10, <2>11 DEF PlacedOnce, ab, abc
  <1>12. DistinctIds(ToSet(U.book)) /\ Uncancelled(U) /\ Uncrossed(U) /\ r.fill \in Fillings
    BY <1>0, <1>3 DEF MemOK, DistinctIds, Uncancelled, Uncrossed, Runs
  <1>13. RestingWith(U, Id(taker)) = {}
    BY <1>3 DEF RestingWith
  <1> QED
    BY <1>3, <1>5, <1>6, <1>7, <1>9, <1>10, <1>11, <1>12, <1>13 DEF MemOK, Sides

\* The fills of the run are kept.
Valid(r) == r.fills # <<>> /\ ~Erroneous(r.status)

\* What matching leaves behind.
Kept(M, fills, taker, r, K) ==
  /\ MemOK(K.mem, K.fill) /\ RestingWith(K.mem, Id(taker)) = {}
  /\ K.mem.cancels = M.cancels
  /\ ToSet(K.mem.book) \subseteq ToSet(M.book)
  /\ K.left = r.left /\ K.status = r.status
  /\ taker \in Hashes =>
       /\ K.mem.matched[Id(taker)] \in {None, taker} \/ IsReplacedBy(K.mem.matched[Id(taker)], taker)
       /\ r.status = "Success" /\ r.left # 0 =>
            /\ K.fill[Id(taker)] < Order(taker).size
            /\ \A g \in ToSet(K.mem.book) : ~Crosses(taker, g)
  /\ Valid(r) => \A g \in ToSet(M.book) : Gone(r, taker, g) => g \notin ToSet(K.mem.book)

\* matchOrder keeps the memclob sound, whether the fills are kept or not.
LEMMA KeepOK ==
  ASSUME NEW M, NEW fills, NEW taker, NEW r, MemOK(M, fills), Admitted(M, fills, taker),
         Looped(M, fills, taker, r), Finished(M, taker, r),
         NEW K, K = KeepMatches(M, fills, taker, r)
  PROVE  Kept(M, fills, taker, r, K)
  <1> DEFINE A == RemoveMakers(M, taker, r.out)
             U == UpdateWithMatches(A, taker, r)
  <1>0. /\ M \in Mems /\ r \in Runs /\ r.out \in Seq(Hashes) /\ ToSet(M.book) \subseteq Hashes
        /\ ToSet(r.out) \subseteq ToSet(M.book) /\ Makers(r) \subseteq ToSet(M.book)
        /\ taker \in Hashes \cup Liquidations
        /\ r.fill \in Fillings /\ fills \in Fillings /\ r.left \in Nat
    <2>1. M \in Mems /\ taker \in Hashes \cup Liquidations /\ fills \in Fillings
      BY TakerNew DEF MemOK
    <2>2. r \in Runs /\ r.out \in Seq(Hashes) /\ r.fill \in Fillings /\ r.left \in Nat
      BY DEF Looped, Runs
    <2>3. ToSet(r.out) \subseteq ToSet(M.book) /\ Makers(r) \subseteq ToSet(M.book)
      BY <2>1, CrossingIs DEF Looped, LoopMet
    <2> QED
      BY <2>1, <2>2, <2>3, BookType
  <1>1. K = [mem |-> IF Valid(r) THEN U ELSE A,
             fill |-> IF Valid(r) THEN r.fill ELSE fills,
             left |-> r.left, status |-> r.status]
    BY DEF KeepMatches, Valid
  <1>2. MemOK(A, fills) /\ Admitted(A, fills, taker) /\ RestingWith(A, Id(taker)) = {}
    BY <1>0, OffOK
  <1>3. /\ ToSet(A.book) = ToSet(M.book) \ (ToSet(r.out) \cup RestingWith(M, Id(taker)))
        /\ A.matched = M.matched /\ A.cancels = M.cancels
    BY <1>0, RemoveMakersDoes
  <1> HIDE DEF A
  <1>4. Fit(A, fills, taker, r)
    BY <1>0, <1>3 DEF Fit, Looped, LoopMet, LoopFills, RestingWith, Makers
  <1>5. /\ MemOK(U, r.fill) /\ RestingWith(U, Id(taker)) = {}
        /\ taker \in Hashes => taker \in U.queued /\ U.matched[Id(taker)] = taker
        /\ ToSet(U.book) \subseteq ToSet(A.book)
        /\ U.cancels = A.cancels
    BY <1>2, <1>4, UpdateOK
  <1>6. ToSet(U.book) = ToSet(A.book) \ FilledMakers(r)
    <2>1. DistinctIds(Sides(taker, r)) /\ taker \notin Makers(r)
      BY <1>2, <1>4 DEF Fit, MemOK, DistinctIds, Sides
    <2>2. Updated(A, taker, r, U)
      BY <1>0, <1>2, <2>1, UpdateDoes DEF MemOK
    <2> QED
      BY <2>2 DEF Updated
  <1> HIDE DEF U
  <1>7. ASSUME NEW g \in ToSet(M.book), Gone(r, taker, g) PROVE g \notin ToSet(U.book)
    BY <1>3, <1>6, <1>7 DEF Gone, FilledMakers, RestingWith
  <1>8. ASSUME r.status = "Success", r.left # 0, NEW g \in ToSet(M.book), Crosses(taker, g)
        PROVE  Gone(r, taker, g)
    <2>1. ~Over(r) /\ g \in Crossing(M, taker)
      BY <1>8 DEF Over, Crossing
    <2> QED
      BY <2>1 DEF Finished, Looped, LoopGone
  <1>9. taker \in Hashes => r.fill[Id(taker)] + r.left = Order(taker).size /\ Id(taker) \in Ids
    BY OrderTypes DEF Looped, LoopFills
  <1>10. taker \in Hashes /\ r.left # 0 => r.fill[Id(taker)] < Order(taker).size
    BY <1>0, <1>9 DEF Fillings
  <1>11. CASE Valid(r)
    <2>1. K.mem = U /\ K.fill = r.fill /\ K.left = r.left /\ K.status = r.status
      BY <1>1, <1>11
    <2>2. r.status = "Success" /\ r.left # 0 => \A g \in ToSet(U.book) : ~Crosses(taker, g)
      BY <1>3, <1>5, <1>7, <1>8
    <2> QED
      BY <1>3, <1>5, <1>7, <1>10, <2>1, <2>2 DEF Kept
  <1>12. CASE ~Valid(r)
    <2>1. K.mem = A /\ K.fill = fills /\ K.left = r.left /\ K.status = r.status
      BY <1>1, <1>12
    <2>2. ASSUME r.status = "Success", r.left # 0, taker \in Hashes
          PROVE  /\ fills[Id(taker)] < Order(taker).size
                 /\ \A g \in ToSet(A.book) : ~Crosses(taker, g)
      <3>1. r.fills = <<>>
        BY <1>12, <2>2 DEF Valid, Erroneous
      <3>2. Makers(r) = {} /\ r.fill = fills
        BY <3>1 DEF Makers, Looped, LoopFills
      <3>3. \A g \in ToSet(M.book) : Crosses(taker, g) => g \in ToSet(r.out) \/ Id(g) = Id(taker)
        BY <1>8, <2>2, <3>2 DEF Gone
      <3> QED
        BY <1>3, <1>10, <2>2, <3>2, <3>3 DEF RestingWith
    <2>3. taker \in Hashes =>
            A.matched[Id(taker)] \in {None, taker} \/ IsReplacedBy(A.matched[Id(taker)], taker)
      <3>1. taker \in Hashes => taker \notin Liquidations
        BY OrderTypes
      <3> QED
        BY <1>2, <3>1 DEF Admitted
    <2> QED
      BY <1>2, <1>3, <1>12, <2>1, <2>2, <2>3 DEF Kept
  <1> QED
    BY <1>11, <1>12

\* Rest may be called.
CanRest(M, fills, h, left, status) ==
  /\ h \in Hashes /\ MemOK(M, fills) /\ RestingWith(M, Id(h)) = {}
  /\ M.matched[Id(h)] \in {None, h} \/ IsReplacedBy(M.matched[Id(h)], h)
  /\ status = "Success" /\ left # 0 =>
       fills[Id(h)] < Order(h).size /\ \A g \in ToSet(M.book) : ~Crosses(h, g)
  /\ ~IsStateful(h) => M.cancels[Id(h)] < Order(h).goodTil

\* The order rests, or is dropped.
LEMMA RestOK ==
  ASSUME NEW M, NEW fills, NEW h, NEW left, NEW status, CanRest(M, fills, h, left, status),
         NEW R, R = Rest(M, fills, h, left, status)
  PROVE  MemOK(R, fills) /\ ToSet(R.book) \subseteq ToSet(M.book) \cup {h} /\ R.cancels = M.cancels
  <1>a. /\ h \in Hashes /\ MemOK(M, fills) /\ RestingWith(M, Id(h)) = {}
        /\ M.matched[Id(h)] \in {None, h} \/ IsReplacedBy(M.matched[Id(h)], h)
        /\ status = "Success" /\ left # 0 =>
             fills[Id(h)] < Order(h).size /\ \A g \in ToSet(M.book) : ~Crosses(h, g)
        /\ ~IsStateful(h) => M.cancels[Id(h)] < Order(h).goodTil
    BY DEF CanRest
  <1> USE <1>a
  <1> DEFINE new == RestingOf(h, left, status)
             off == FailingOf(h, left, status)
  <1>0. M \in Mems /\ fills \in Fillings /\ ToSet(M.book) \subseteq Hashes
    BY BookType DEF MemOK
  <1>1. /\ R \in Mems /\ off \in Seq(Hashes)
        /\ ToSet(R.book) = ToSet(M.book) \cup new
        /\ R.queue = M.queue \o Removing(M, off)
        /\ R.queued = M.queued
        /\ R.matched = M.matched /\ R.cancels = M.cancels
        /\ R.bytes = M.bytes \cup {g \in new : ~IsStateful(g) /\ g \notin M.queued}
        /\ /\ ~M.panicked
           /\ h \in new => /\ Remaining(h, fills) # 0 /\ RestingWith(M, Id(h)) = {}
                           /\ ~IsStateful(h) /\ h \notin M.queued => h \notin M.bytes
           => ~R.panicked
    <2>1. RestedAs(M, fills, h, R, new, off)
      BY <1>0, RestDoes
    <2> HIDE DEF new, off
    <2> QED
      BY <2>1 DEF RestedAs
  <1>2. new \subseteq {h} /\ (h \in new => status = "Success" /\ left # 0)
    BY DEF RestingOf, Rests
  <1> HIDE DEF new, off
  <1>3. h \notin ToSet(M.book)
    BY DEF RestingWith
  <1>4. ~R.panicked
    <2>1. h \in new => Remaining(h, fills) # 0
      <3> SUFFICES ASSUME h \in new PROVE Remaining(h, fills) # 0
        OBVIOUS
      <3>1. fills[Id(h)] < Order(h).size /\ fills[Id(h)] \in Nat /\ Order(h).size \in Nat
        BY <1>0, <1>2, RemainingType, OrderTypes
      <3> QED
        BY <1>0, <3>1, RemainingType
    <2>2. ~IsStateful(h) /\ h \notin M.queued => h \notin M.bytes
      BY <1>3 DEF MemOK, BytesKept
    <2> QED
      BY <1>1, <2>1, <2>2 DEF MemOK
  <1>5. DistinctIds(ToSet(R.book))
    BY <1>1, <1>2 DEF MemOK, DistinctIds, RestingWith
  <1>6. BytesKept(R)
    BY <1>1, <1>2 DEF MemOK, BytesKept
  <1>7. QueuedKnown(R) /\ RestingKnown(R)
    BY <1>1, <1>2 DEF MemOK, QueuedKnown, RestingKnown
  <1>8. Unfilled(R, fills) /\ Uncancelled(R)
    BY <1>1, <1>2 DEF MemOK, Unfilled, Uncancelled
  <1>9. Uncrossed(R)
    <2>1. ~Crosses(h, h)
      BY OrderTypes DEF Crosses
    <2>2. \A g \in ToSet(M.book) : Crosses(g, h) = Crosses(h, g)
      BY <1>0, CrossesBoth
    <2> QED
      BY <1>1, <1>2, <2>1, <2>2 DEF MemOK, Uncrossed
  <1>10. PlacedOnce(R)
    <2>1. M.queue \in Seq(Operations) /\ OncePlaced(M.queue)
      BY <1>0 DEF Mems, MemOK, PlacedOnce
    <2>2. Removing(M, off) \in Seq(Operations) /\ \A x \in ToSet(Removing(M, off)) : x.op # "place"
      BY <1>0, <1>1, RemovingType
    <2> QED
      BY <1>1, <2>1, <2>2, NonPlacing DEF MemOK, PlacedOnce
  <1> QED
    BY <1>0, <1>1, <1>2, <1>4, <1>5, <1>6, <1>7, <1>8, <1>9, <1>10 DEF MemOK

-----------------------------------------------------------------------------
(* What joins the operations queue.                                        *)

\* The queue grows, by operations of B.
Grows(a, c, B) ==
  /\ a \in Seq(Operations) /\ c \in Seq(Operations) /\ DOMAIN a \subseteq DOMAIN c
  /\ \A i \in DOMAIN a : c[i] = a[i]
  /\ \A i \in DOMAIN c \ DOMAIN a : c[i] \in B

\* A queue that is left alone has not grown.
LEMMA GrowsNot ==
  ASSUME NEW a \in Seq(Operations), NEW B
  PROVE  Grows(a, a, B)
  BY DEF Grows

\* Growth in two steps.
LEMMA GrowsMore ==
  ASSUME NEW a, NEW c, NEW B, Grows(a, c, B), NEW b \in Seq(Operations), ToSet(b) \subseteq B
  PROVE  Grows(a, c \o b, B)
  <1>1. a \in Seq(Operations) /\ c \in Seq(Operations)
    BY DEF Grows
  <1>2. c \o b \in Seq(Operations) /\ DOMAIN (c \o b) = 1 .. Len(c) + Len(b)
        /\ DOMAIN c = 1 .. Len(c) /\ DOMAIN b = 1 .. Len(b) /\ Len(c) \in Nat /\ Len(b) \in Nat
    BY <1>1
  <1>3. \A i \in DOMAIN c : (c \o b)[i] = c[i]
    BY <1>1
  <1>4. \A i \in DOMAIN b : (c \o b)[Len(c) + i] = b[i]
    BY <1>1
  <1>5. PICK e : e = c \o b
    OBVIOUS
  <1>6. \A i \in DOMAIN e \ DOMAIN c : e[i] \in B
    <2> SUFFICES ASSUME NEW i \in DOMAIN e \ DOMAIN c PROVE e[i] \in B
      OBVIOUS
    <2>1. i - Len(c) \in DOMAIN b /\ i = Len(c) + (i - Len(c))
      BY <1>2, <1>5
    <2>2. e[i] = b[i - Len(c)]
      BY <1>4, <1>5, <2>1
    <2> QED
      BY <2>1, <2>2 DEF ToSet
  <1>7. DOMAIN c \subseteq DOMAIN e
    BY <1>2, <1>5
  <1>8. Grows(a, e, B)
    BY <1>2, <1>3, <1>5, <1>6, <1>7 DEF Grows
  <1> QED
    BY <1>5, <1>8

\* The only match that joins the queue is the taker's.
MatchesOnly(taker, r) ==
  {x \in Operations : x.op = "match" => Valid(r) /\ x = MatchOp(taker, r.fills)}

\* The only match that joins the queue is that of the run.
LEMMA KeepGrows ==
  ASSUME NEW M, NEW fills, NEW taker, NEW r, MemOK(M, fills), Admitted(M, fills, taker),
         Looped(M, fills, taker, r), NEW K, K = KeepMatches(M, fills, taker, r)
  PROVE  K.mem \in Mems /\ Grows(M.queue, K.mem.queue, MatchesOnly(taker, r))
  <1> DEFINE A == RemoveMakers(M, taker, r.out)
             U == UpdateWithMatches(A, taker, r)
             B == MatchesOnly(taker, r)
  <1>0. /\ M \in Mems /\ r \in Runs /\ r.out \in Seq(Hashes) /\ M.queue \in Seq(Operations)
        /\ ToSet(r.out) \subseteq ToSet(M.book) /\ Makers(r) \subseteq ToSet(M.book)
        /\ taker \in Hashes \cup Liquidations
    <2>1. M \in Mems /\ taker \in Hashes \cup Liquidations
      BY TakerNew DEF MemOK
    <2>2. r \in Runs /\ r.out \in Seq(Hashes) /\ M.queue \in Seq(Operations)
      BY <2>1 DEF Looped, Runs, Mems
    <2>3. ToSet(r.out) \subseteq ToSet(M.book) /\ Makers(r) \subseteq ToSet(M.book)
      BY <2>1, CrossingIs DEF Looped, LoopMet
    <2> QED
      BY <2>1, <2>2, <2>3
  <1>1. K.mem = IF Valid(r) THEN U ELSE A
    BY DEF KeepMatches, Valid
  <1>2. A \in Mems /\ A.queue = M.queue \o Removing(M, r.out)
    <2>1. RemovedBy(M, taker, r.out, A)
      BY <1>0, RemovedMakers
    <2> QED
      BY <2>1 DEF RemovedBy
  <1>3. Removing(M, r.out) \in Seq(Operations) /\ ToSet(Removing(M, r.out)) \subseteq B
    <2>1. Removing(M, r.out) \in Seq(Operations) /\ \A x \in ToSet(Removing(M, r.out)) : x.op = "remove"
      BY <1>0, RemovingType
    <2>2. ToSet(Removing(M, r.out)) \subseteq Operations
      BY <2>1 DEF ToSet
    <2> QED
      BY <2>1, <2>2 DEF MatchesOnly
  <1> HIDE DEF B
  <1>4. Grows(M.queue, A.queue, B)
    BY <1>0, <1>2, <1>3, GrowsNot, GrowsMore
  <1> HIDE DEF A
  <1>5. CASE ~Valid(r)
    BY <1>1, <1>2, <1>4, <1>5 DEF B
  <1>6. CASE Valid(r)
    <2>1. DistinctIds(Sides(taker, r)) /\ taker \notin Makers(r)
      BY DEF Looped, LoopMet, MemOK, DistinctIds, Sides, Crossing
    <2>2. Updated(A, taker, r, U)
      BY <1>0, <1>2, <2>1, UpdateDoes
    <2> DEFINE p == Placements(NewMakers(A, r))
               t == TakerOp(taker)
               m == <<MatchOp(taker, r.fills)>>
    <2>3. U \in Mems /\ U.queue = ((A.queue \o p) \o t) \o m
      BY <2>2 DEF Updated
    <2>4. \A h \in Hashes : Placement(h) \in B
      BY PlacementType DEF B, MatchesOnly
    <2>5. p \in Seq(Operations) /\ ToSet(p) \subseteq B
      <3>1. NewMakers(A, r) \in Seq(Hashes)
        BY <1>0, MakersAre
      <3>2. p \in Seq(Operations) /\ ToSet(p) = {Placement(h) : h \in ToSet(NewMakers(A, r))}
        BY <3>1, PlacementsAre
      <3>3. ToSet(NewMakers(A, r)) \subseteq Hashes
        BY <3>1 DEF ToSet
      <3> QED
        BY <2>4, <3>2, <3>3
    <2>6. t \in Seq(Operations) /\ ToSet(t) \subseteq B
      BY <2>4, TakerOpType
    <2>7. m \in Seq(Operations) /\ ToSet(m) \subseteq B
      <3>1. MatchOp(taker, r.fills) \in Operations
        BY <1>0, MatchOpType
      <3>2. m \in Seq(Operations) /\ ToSet(m) = {MatchOp(taker, r.fills)}
        BY <3>1, SingletonSet
      <3> QED
        BY <1>6, <3>1, <3>2 DEF B, MatchesOnly
    <2> HIDE DEF p, t, m
    <2>8. Grows(M.queue, A.queue \o p, B)
      BY <1>4, <2>5, GrowsMore
    <2>9. Grows(M.queue, (A.queue \o p) \o t, B)
      BY <2>6, <2>8, GrowsMore
    <2>10. Grows(M.queue, ((A.queue \o p) \o t) \o m, B)
      BY <2>7, <2>9, GrowsMore
    <2> QED
      BY <1>1, <1>6, <2>3, <2>10 DEF B
  <1> QED
    BY <1>5, <1>6

-----------------------------------------------------------------------------
(* Placing an order, and liquidating.                                      *)

\* Orders of the taker's book that are ahead of a maker cross as well.
LEMMA AheadCrosses ==
  ASSUME NEW M \in Mems, NEW taker \in Hashes \cup Liquidations, NEW h \in Crossing(M, taker),
         NEW g \in ToSet(M.book), Order(g).isBuy = Order(h).isBuy, Ahead(M, g, h)
  PROVE  g \in Crossing(M, taker)
  <1>1. g \in Hashes /\ h \in Hashes
    BY BookType DEF Crossing
  <1>2. \A x \in {g, h, taker} : Order(x).isBuy \in BOOLEAN /\ Order(x).subticks \in Nat
    BY <1>1, OrderTypes, LiquidationTypes
  <1> QED
    BY <1>2 DEF Crossing, Crosses, Ahead

\* What follows from the match: every order ahead of a maker is gone.
InTurn(M, N) ==
  \A i \in DOMAIN N.queue \ DOMAIN M.queue :
    N.queue[i].op = "match" =>
      \A j \in DOMAIN N.queue[i].fills :
        \A h \in RestingWith(M, N.queue[i].fills[j].id) :
          \A g \in ToSet(M.book) :
            Order(g).isBuy = Order(h).isBuy /\ Ahead(M, g, h)
              => g \notin ToSet(N.book)

\* Matching leaves nothing on the book that was ahead of a maker it filled.
LEMMA TurnKept ==
  ASSUME NEW M, NEW fills, NEW taker, NEW r, NEW N, MemOK(M, fills), Admitted(M, fills, taker),
         Looped(M, fills, taker, r), Grows(M.queue, N.queue, MatchesOnly(taker, r)),
         Valid(r) => \A g \in ToSet(M.book) : Gone(r, taker, g) => g \notin ToSet(N.book)
  PROVE  InTurn(M, N)
  <1> SUFFICES ASSUME NEW i \in DOMAIN N.queue \ DOMAIN M.queue, N.queue[i].op = "match",
                      NEW j \in DOMAIN N.queue[i].fills,
                      NEW h \in RestingWith(M, N.queue[i].fills[j].id),
                      NEW g \in ToSet(M.book),
                      Order(g).isBuy = Order(h).isBuy, Ahead(M, g, h)
               PROVE  g \notin ToSet(N.book)
    BY DEF InTurn
  <1>0. M \in Mems /\ r \in Runs /\ taker \in Hashes \cup Liquidations
    BY TakerNew DEF MemOK, Looped
  <1>1. Valid(r) /\ N.queue[i] = MatchOp(taker, r.fills)
    BY DEF Grows, MatchesOnly
  <1>2. j \in DOMAIN r.fills /\ N.queue[i].fills[j].id = Id(r.fills[j].maker)
    BY <1>0, <1>1, MatchOpType
  <1>3. r.fills[j].maker \in Makers(r) /\ r.fills[j].maker \in Crossing(M, taker)
    BY <1>2 DEF Makers, Looped, LoopMet
  <1>4. h = r.fills[j].maker
    BY <1>2, <1>3 DEF RestingWith, MemOK, DistinctIds, Crossing
  <1>5. g \in Crossing(M, taker)
    BY <1>0, <1>3, <1>4, AheadCrosses
  <1>6. Gone(r, taker, g)
    BY <1>3, <1>4, <1>5 DEF Looped, LoopGone
  <1> QED
    BY <1>1, <1>6

\* What a step that matches an order may do.
Served(M, fills, taker, N, after) ==
  /\ MemOK(N, after) /\ InTurn(M, N)
  /\ \A id \in Ids : after[id] >= fills[id]
  /\ ToSet(N.book) \subseteq ToSet(M.book) \cup ({taker} \cap Hashes)

\* A taker that is admitted may start the loop.
LEMMA AdmittedReady ==
  ASSUME NEW M, NEW fills, NEW taker, MemOK(M, fills), Admitted(M, fills, taker)
  PROVE  Ready(M, fills, taker)
  <1>1. taker \in Hashes \cup Liquidations
    BY TakerNew
  <1>2. taker \in Hashes => taker \notin Liquidations
    BY OrderTypes
  <1> QED
    BY <1>1, <1>2 DEF Ready, MemOK, Admitted, Unfilled

\* Fill amounts only grow in a run.
LEMMA Filling ==
  ASSUME NEW M, NEW fills, NEW taker, NEW r, MemOK(M, fills), Looped(M, fills, taker, r),
         NEW K, K = KeepMatches(M, fills, taker, r)
  PROVE  \A id \in Ids : K.fill[id] >= fills[id]
  <1>1. K.fill = IF Valid(r) THEN r.fill ELSE fills
    BY DEF KeepMatches, Valid
  <1>2. \A id \in Ids : r.fill[id] >= fills[id] /\ fills[id] \in Nat
    BY DEF MemOK, Looped, LoopFills, Fillings
  <1> QED
    BY <1>1, <1>2

\* A liquidation keeps the memclob sound and serves the book in turn.
LEMMA LiquidateServes ==
  ASSUME NEW M, NEW fills, NEW taker \in Liquidations, NEW fate \in Fatings(M, taker),
         MemOK(M, fills), NEW K, K = MatchOrder(M, fills, taker, fate)
  PROVE  Served(M, fills, taker, K.mem, K.fill)
  <1> DEFINE r == PerformTakerOrderMatching(M, fills, taker, fate)
  <1>1. Admitted(M, fills, taker)
    BY DEF Admitted
  <1>2. Looped(M, fills, taker, r) /\ Finished(M, taker, r)
    BY <1>1, AdmittedReady, LoopDone
  <1>3. K = KeepMatches(M, fills, taker, r)
    BY DEF MatchOrder
  <1> HIDE DEF r
  <1>4. Kept(M, fills, taker, r, K)
    BY <1>1, <1>2, <1>3, KeepOK
  <1>5. Grows(M.queue, K.mem.queue, MatchesOnly(taker, r))
    BY <1>1, <1>2, <1>3, KeepGrows
  <1>6. InTurn(M, K.mem)
    BY <1>1, <1>2, <1>4, <1>5, TurnKept DEF Kept
  <1>7. \A id \in Ids : K.fill[id] >= fills[id]
    BY <1>2, <1>3, Filling
  <1> QED
    BY <1>4, <1>6, <1>7 DEF Served, Kept

\* PlaceOrder keeps the memclob sound and serves the book in turn.
LEMMA PlaceServes ==
  ASSUME NEW M, NEW fills, NEW h \in Hashes, NEW fate \in Fatings(M, h),
         MemOK(M, fills), Admitted(M, fills, h), NEW K, K = MatchOrder(M, fills, h, fate),
         NEW N, N = Rest(K.mem, K.fill, h, K.left, K.status)
  PROVE  Served(M, fills, h, N, K.fill)
  <1> DEFINE r == PerformTakerOrderMatching(M, fills, h, fate)
  <1>1. h \notin Liquidations
    BY OrderTypes
  <1>2. Looped(M, fills, h, r) /\ Finished(M, h, r)
    BY AdmittedReady, LoopDone
  <1>3. K = KeepMatches(M, fills, h, r)
    BY DEF MatchOrder
  <1> HIDE DEF r
  <1>4. Kept(M, fills, h, r, K)
    BY <1>2, <1>3, KeepOK
  <1>5. MemOK(N, K.fill) /\ ToSet(N.book) \subseteq ToSet(K.mem.book) \cup {h}
    <2>1. /\ MemOK(K.mem, K.fill) /\ RestingWith(K.mem, Id(h)) = {}
          /\ K.mem.matched[Id(h)] \in {None, h} \/ IsReplacedBy(K.mem.matched[Id(h)], h)
          /\ K.status = "Success" /\ K.left # 0 =>
               K.fill[Id(h)] < Order(h).size /\ \A g \in ToSet(K.mem.book) : ~Crosses(h, g)
      BY <1>4 DEF Kept
    <2>2. ~IsStateful(h) => K.mem.cancels[Id(h)] < Order(h).goodTil
      BY <1>1, <1>4 DEF Admitted, Kept
    <2>3. CanRest(K.mem, K.fill, h, K.left, K.status)
      BY <2>1, <2>2 DEF CanRest
    <2> QED
      BY <2>3, RestOK
  <1>6. Grows(M.queue, N.queue, MatchesOnly(h, r))
    <2>1. K.mem \in Mems /\ Grows(M.queue, K.mem.queue, MatchesOnly(h, r))
      BY <1>2, <1>3, KeepGrows
    <2> DEFINE off == FailingOf(h, K.left, K.status)
    <2>2. off \in Seq(Hashes) /\ N.queue = K.mem.queue \o Removing(K.mem, off)
      <3>1. RestedAs(K.mem, K.fill, h, N, RestingOf(h, K.left, K.status), off)
        BY <2>1, RestDoes
      <3> QED
        BY <3>1 DEF RestedAs
    <2> HIDE DEF off
    <2>3. Removing(K.mem, off) \in Seq(Operations)
          /\ \A x \in ToSet(Removing(K.mem, off)) : x.op = "remove"
      BY <2>1, <2>2, RemovingType
    <2>4. ToSet(Removing(K.mem, off)) \subseteq MatchesOnly(h, r)
      <3>1. ToSet(Removing(K.mem, off)) \subseteq Operations
        BY <2>3 DEF ToSet
      <3> QED
        BY <2>3, <3>1 DEF MatchesOnly
    <2> QED
      BY <2>1, <2>2, <2>3, <2>4, GrowsMore
  <1>7. Valid(r) => \A g \in ToSet(M.book) : Gone(r, h, g) => g \notin ToSet(N.book)
    <2>1. h \notin ToSet(M.book)
      BY TakerNew
    <2> QED
      BY <1>4, <1>5, <2>1 DEF Kept
  <1>8. InTurn(M, N)
    BY <1>2, <1>6, <1>7, TurnKept
  <1>9. \A id \in Ids : K.fill[id] >= fills[id]
    BY <1>2, <1>3, Filling
  <1> QED
    BY <1>4, <1>5, <1>8, <1>9 DEF Served, Kept

-----------------------------------------------------------------------------
(* Delivering a queue, on the committed state c at height hgt.             *)

\* The operators of the delivery, with the committed state as a parameter.
UndeliveredAt(c) ==
  [ok |-> TRUE, fill |-> c.fill, placed |-> c.placed,
   short |-> [id \in ShortTermIds |-> None],
   liquidated |-> {}, removed |-> {}, filled |-> {}]

DeliverPlacementAt(hgt, d, h) ==
  IF /\ ValidGoodTilBlock(Order(h).goodTil, hgt + 1)
     /\ d.short[Id(h)] # None => IsReplacedBy(d.short[Id(h)], h)
  THEN [d EXCEPT !.short[Id(h)] = h]
  ELSE [d EXCEPT !.ok = FALSE]

DeliverOpAt(hgt, d, op) ==
  CASE op.op = "place" -> DeliverPlacementAt(hgt, d, op.order)
    [] op.op = "match" -> DeliverMatch(d, op)
    [] op.op = "remove" -> DeliverRemoval(d, op.id)
    [] OTHER -> d

DeliverAt(c, hgt, queue) ==
  LET after[i \in 0 .. Len(queue)] ==
        IF i = 0 THEN UndeliveredAt(c) ELSE DeliverOpAt(hgt, after[i - 1], queue[i])
  IN  after[Len(queue)]

\* Deliver is DeliverAt on the committed state.
LEMMA DeliverIs ==
  ASSUME NEW queue
  PROVE  Deliver(queue) = DeliverAt(chain, height, queue) /\ Undelivered = UndeliveredAt(chain)
  <1>1. Undelivered = UndeliveredAt(chain)
    BY DEF Undelivered, UndeliveredAt
  <1>2. Deliver(queue) = DeliverAt(chain, height, queue)
    BY Zenon DEF Deliver, DeliverAt, DeliverOp, DeliverOpAt, DeliverPlacement, DeliverPlacementAt,
                 Undelivered, UndeliveredAt
  <1> QED
    BY <1>1, <1>2

\* f is the run of a delivery.
Delivering(f, c, hgt, queue, n) ==
  /\ f[0] = UndeliveredAt(c)
  /\ \A k \in 1 .. n : f[k] = DeliverOpAt(hgt, f[k - 1], queue[k])

\* A delivery is a run of DeliverOp.
LEMMA DeliverRuns ==
  ASSUME NEW c, NEW hgt, NEW queue, Len(queue) \in Nat
  PROVE  \E f : /\ DeliverAt(c, hgt, queue) = f[Len(queue)]
                /\ Delivering(f, c, hgt, queue, Len(queue))
<1> DEFINE base == UndeliveredAt(c)
           n == Len(queue)
           Step(r, k) == DeliverOpAt(hgt, r, queue[k])
           RunsTo(g, m) == g = [k \in 0 .. m |-> IF k = 0 THEN base ELSE Step(g[k - 1], k)]
           Good == {m \in Nat : \E g : RunsTo(g, m)}
<1>0. n \in Nat
  OBVIOUS
<1>1. 0 \in Good
  <2>1. RunsTo([k \in 0 .. 0 |-> base], 0)
    OBVIOUS
  <2> QED
    BY <2>1
<1>2. ASSUME NEW m \in 1 .. n, m - 1 \in Good PROVE m \in Good
  <2>1. PICK g : RunsTo(g, m - 1)
    BY <1>2
  <2> DEFINE h == [k \in 0 .. m |-> IF k = m THEN Step(g[m - 1], m) ELSE g[k]]
  <2>2. RunsTo(h, m)
    <3> HIDE DEF Step
    <3> SUFFICES ASSUME NEW k \in 0 .. m
                 PROVE  h[k] = IF k = 0 THEN base ELSE Step(h[k - 1], k)
      OBVIOUS
    <3>1. k # 0 => k - 1 \in 0 .. m - 1 /\ k - 1 # m /\ h[k - 1] = g[k - 1]
      BY <1>0
    <3>2. CASE k = m
      BY <1>0, <3>1, <3>2
    <3>3. CASE k # m
      <4>1. k \in 0 .. m - 1 /\ h[k] = g[k]
        BY <1>0, <3>3
      <4>2. g[k] = IF k = 0 THEN base ELSE Step(g[k - 1], k)
        BY <2>1, <4>1
      <4> QED
        BY <3>1, <4>1, <4>2
    <3> QED
      BY <3>2, <3>3
  <2> HIDE DEF h, RunsTo
  <2> QED
    BY <1>0, <2>2
<1>3. \E g : RunsTo(g, n)
  <2>1. \A k \in 0 .. n : k \in Good
    <3> HIDE DEF Good
    <3> QED
      BY <1>0, <1>1, <1>2, Induct
  <2> QED
    BY <1>0, <2>1
<1> DEFINE f == CHOOSE g : RunsTo(g, n)
<1>5. DeliverAt(c, hgt, queue) = f[n]
  BY DEF DeliverAt
<1> HIDE DEF RunsTo
<1>6. RunsTo(f, n)
  BY <1>3, Zenon
<1> HIDE DEF f
<1>7. f = [k \in 0 .. n |-> IF k = 0 THEN base ELSE Step(f[k - 1], k)]
  BY <1>6 DEF RunsTo
<1>8. 0 \in 0 .. n /\ \A k \in 1 .. n : k \in 0 .. n /\ k # 0
  BY <1>0
<1>9. Delivering(f, c, hgt, queue, n)
  <2>1. f[0] = base
    BY <1>7, <1>8
  <2>2. \A k \in 1 .. n : f[k] = Step(f[k - 1], k)
    <3> HIDE DEF Step
    <3> QED
      BY <1>7, <1>8
  <2> QED
    BY <2>1, <2>2 DEF Delivering
<1> QED
  BY <1>5, <1>9

\* The empty queue changes nothing.
LEMMA DeliverNothing ==
  ASSUME NEW c, NEW hgt
  PROVE  DeliverAt(c, hgt, <<>>) = UndeliveredAt(c)
  <1>1. Len(<<>>) = 0
    OBVIOUS
  <1>2. PICK f : DeliverAt(c, hgt, <<>>) = f[Len(<<>>)] /\ Delivering(f, c, hgt, <<>>, Len(<<>>))
    BY <1>1, DeliverRuns
  <1> QED
    BY <1>1, <1>2 DEF Delivering

\* The last operation is delivered last.
LEMMA DeliverLast ==
  ASSUME NEW c, NEW hgt, NEW queue \in Seq(Operations), NEW x \in Operations
  PROVE  DeliverAt(c, hgt, Append(queue, x)) = DeliverOpAt(hgt, DeliverAt(c, hgt, queue), x)
  <1> DEFINE n == Len(queue)
             longer == Append(queue, x)
  <1>1. n \in Nat /\ Len(longer) = n + 1 /\ longer[n + 1] = x
        /\ \A k \in 1 .. n : longer[k] = queue[k]
    OBVIOUS
  <1> HIDE DEF longer, n
  <1>2. PICK f : DeliverAt(c, hgt, queue) = f[n] /\ Delivering(f, c, hgt, queue, n)
    BY <1>1, DeliverRuns DEF n
  <1>3. PICK g : DeliverAt(c, hgt, longer) = g[n + 1] /\ Delivering(g, c, hgt, longer, n + 1)
    <2>1. Len(longer) \in Nat
      BY <1>1
    <2> QED
      BY <1>1, <2>1, DeliverRuns
  <1> DEFINE Good == {k \in 0 .. n : f[k] = g[k]}
  <1>4. 0 \in Good
    BY <1>1, <1>2, <1>3 DEF Delivering
  <1>5. ASSUME NEW k \in 1 .. n, k - 1 \in Good PROVE k \in Good
    <2>1. f[k] = DeliverOpAt(hgt, f[k - 1], queue[k])
      BY <1>2 DEF Delivering
    <2>2. k \in 1 .. n + 1 /\ k \in 0 .. n /\ longer[k] = queue[k]
      BY <1>1
    <2>3. g[k] = DeliverOpAt(hgt, g[k - 1], queue[k])
      BY <1>3, <2>2 DEF Delivering
    <2> QED
      BY <1>5, <2>1, <2>2, <2>3
  <1>6. f[n] = g[n]
    <2>1. \A k \in 0 .. n : k \in Good
      <3> HIDE DEF Good
      <3> QED
        BY <1>1, <1>4, <1>5, Induct
    <2> QED
      BY <1>1, <2>1
  <1>7. g[n + 1] = DeliverOpAt(hgt, g[(n + 1) - 1], longer[n + 1])
    <2>1. n + 1 \in 1 .. n + 1
      BY <1>1
    <2> QED
      BY <1>3, <2>1 DEF Delivering
  <1>8. (n + 1) - 1 = n
    BY <1>1
  <1> QED
    BY <1>1, <1>2, <1>3, <1>6, <1>7, <1>8 DEF longer

-----------------------------------------------------------------------------
(* Delivering the fills of a match.                                        *)

\* f is the run of the fills of a match.
Feeding(f, d, taker, fills, n) ==
  /\ f[0] = d
  /\ \A k \in 1 .. n : f[k] = DeliverFill(f[k - 1], taker, fills[k])

\* The fills of a match are delivered one after the other.
LEMMA FillsRun ==
  ASSUME NEW d, NEW taker, NEW fills, Len(fills) \in Nat
  PROVE  \E f : /\ DeliverFills(d, taker, fills) = f[Len(fills)]
                /\ Feeding(f, d, taker, fills, Len(fills))
<1> DEFINE n == Len(fills)
           Step(r, k) == DeliverFill(r, taker, fills[k])
           RunsTo(g, m) == g = [k \in 0 .. m |-> IF k = 0 THEN d ELSE Step(g[k - 1], k)]
           Good == {m \in Nat : \E g : RunsTo(g, m)}
<1>0. n \in Nat
  OBVIOUS
<1>1. 0 \in Good
  <2>1. RunsTo([k \in 0 .. 0 |-> d], 0)
    OBVIOUS
  <2> QED
    BY <2>1
<1>2. ASSUME NEW m \in 1 .. n, m - 1 \in Good PROVE m \in Good
  <2>1. PICK g : RunsTo(g, m - 1)
    BY <1>2
  <2> DEFINE h == [k \in 0 .. m |-> IF k = m THEN Step(g[m - 1], m) ELSE g[k]]
  <2>2. RunsTo(h, m)
    <3> HIDE DEF Step
    <3> SUFFICES ASSUME NEW k \in 0 .. m
                 PROVE  h[k] = IF k = 0 THEN d ELSE Step(h[k - 1], k)
      OBVIOUS
    <3>1. k # 0 => k - 1 \in 0 .. m - 1 /\ k - 1 # m /\ h[k - 1] = g[k - 1]
      BY <1>0
    <3>2. CASE k = m
      BY <1>0, <3>1, <3>2
    <3>3. CASE k # m
      <4>1. k \in 0 .. m - 1 /\ h[k] = g[k]
        BY <1>0, <3>3
      <4>2. g[k] = IF k = 0 THEN d ELSE Step(g[k - 1], k)
        BY <2>1, <4>1
      <4> QED
        BY <3>1, <4>1, <4>2
    <3> QED
      BY <3>2, <3>3
  <2> HIDE DEF h, RunsTo
  <2> QED
    BY <1>0, <2>2
<1>3. \E g : RunsTo(g, n)
  <2>1. \A k \in 0 .. n : k \in Good
    <3> HIDE DEF Good
    <3> QED
      BY <1>0, <1>1, <1>2, Induct
  <2> QED
    BY <1>0, <2>1
<1> DEFINE f == CHOOSE g : RunsTo(g, n)
<1>5. DeliverFills(d, taker, fills) = f[n]
  BY DEF DeliverFills
<1> HIDE DEF RunsTo
<1>6. RunsTo(f, n)
  BY <1>3, Zenon
<1> HIDE DEF f
<1>7. f = [k \in 0 .. n |-> IF k = 0 THEN d ELSE Step(f[k - 1], k)]
  BY <1>6 DEF RunsTo
<1>8. 0 \in 0 .. n /\ \A k \in 1 .. n : k \in 0 .. n /\ k # 0
  BY <1>0
<1>9. Feeding(f, d, taker, fills, n)
  <2>1. f[0] = d
    BY <1>7, <1>8
  <2>2. \A k \in 1 .. n : f[k] = Step(f[k - 1], k)
    <3> HIDE DEF Step
    <3> QED
      BY <1>7, <1>8
  <2> QED
    BY <2>1, <2>2 DEF Feeding
<1> QED
  BY <1>5, <1>9

-----------------------------------------------------------------------------
(* What a delivery may do to the committed state.                          *)

Chains == [fill : Fillings, placed : Seq(Hashes)]

\* States of a delivery.
Deliveries ==
  [ok : BOOLEAN, fill : Fillings, placed : Seq(Hashes),
   short : [ShortTermIds -> Hashes \cup {None}], liquidated : SUBSET Liquidations,
   removed : SUBSET Ids, filled : SUBSET Ids]

\* Only a stateful order in state has a fill amount.
Rooted(d) ==
  \A h \in Hashes : IsStateful(h) /\ d.fill[Id(h)] # 0 => WithId(d.placed, Id(h)) # {}

\* What always holds of the committed state.
ChainOK(c) ==
  /\ c \in Chains /\ Rooted(c)
  /\ DistinctIds(ToSet(c.placed)) /\ IsInjective(c.placed)
  /\ \A h \in ToSet(c.placed) : IsStateful(h)

\* The delivery d on top of c: orders leave with their fill amounts, or fill
\* amounts grow, and d says of which orders.
Settling(c, d) ==
  /\ c.fill \in Fillings
  /\ d \in Deliveries /\ Rooted(d) /\ IsInjective(d.placed)
  /\ ToSet(d.placed) \subseteq ToSet(c.placed)
  /\ \A h \in ToSet(c.placed) : h \in ToSet(d.placed) <=> Id(h) \notin d.removed
  /\ \A id \in Ids : id \in d.filled \cup d.removed \/ d.fill[id] = c.fill[id]
  /\ \A id \in Ids : id \in d.removed \/ d.fill[id] >= c.fill[id]
  /\ \A id \in ShortTermIds : d.short[id] = None \/ Id(d.short[id]) = id

\* The committed state settles itself.
LEMMA SettlesNothing ==
  ASSUME NEW c, ChainOK(c)
  PROVE  Settling(c, UndeliveredAt(c))
  <1> DEFINE d == UndeliveredAt(c)
  <1>1. /\ d.fill = c.fill /\ d.placed = c.placed /\ d.removed = {} /\ d.filled = {}
        /\ d.short = [id \in ShortTermIds |-> None] /\ d.ok = TRUE /\ d.liquidated = {}
    BY DEF UndeliveredAt
  <1>2. c.fill \in Fillings /\ c.placed \in Seq(Hashes)
    BY DEF ChainOK, Chains
  <1>3. d \in Deliveries
    BY <1>2 DEF UndeliveredAt, Deliveries
  <1> HIDE DEF d
  <1>4. \A id \in Ids : c.fill[id] \in Nat
    BY <1>2 DEF Fillings
  <1>5. Settling(c, d)
    BY <1>1, <1>2, <1>3, <1>4 DEF Settling, ChainOK, Rooted, WithId
  <1> QED
    BY <1>5 DEF d

\* A refused operation changes nothing but ok.
LEMMA SettlesRefusal ==
  ASSUME NEW c, NEW d, Settling(c, d)
  PROVE  /\ Settling(c, [d EXCEPT !.ok = FALSE])
         /\ [d EXCEPT !.ok = FALSE].filled = d.filled /\ [d EXCEPT !.ok = FALSE].placed = d.placed
  <1> DEFINE e == [d EXCEPT !.ok = FALSE]
  <1>1. d \in Deliveries
    BY DEF Settling
  <1>2. /\ e \in Deliveries /\ e.fill = d.fill /\ e.placed = d.placed /\ e.removed = d.removed
        /\ e.filled = d.filled /\ e.short = d.short
    BY <1>1 DEF Deliveries
  <1> HIDE DEF e
  <1>3. Settling(c, e)
    BY <1>2 DEF Settling, Rooted
  <1> QED
    BY <1>2, <1>3 DEF e

\* Delivering a placement.
LEMMA SettlesPlacement ==
  ASSUME NEW c, NEW hgt, NEW d, NEW h \in Hashes, Settling(c, d)
  PROVE  Settling(c, DeliverPlacementAt(hgt, d, h))
  <1> DEFINE e == [d EXCEPT !.short[Id(h)] = h]
  <1>1. d \in Deliveries /\ d.short \in [ShortTermIds -> Hashes \cup {None}]
    BY DEF Settling, Deliveries
  <1>2. /\ e \in Deliveries /\ e.fill = d.fill /\ e.placed = d.placed /\ e.removed = d.removed
        /\ e.filled = d.filled /\ e.short = [d.short EXCEPT ![Id(h)] = h]
    BY <1>1 DEF Deliveries
  <1> HIDE DEF e
  <1>3. \A id \in ShortTermIds : e.short[id] = IF id = Id(h) THEN h ELSE d.short[id]
    BY <1>1, <1>2
  <1>4. Settling(c, e)
    BY <1>2, <1>3 DEF Settling, Rooted
  <1>5. DeliverPlacementAt(hgt, d, h) = e \/ DeliverPlacementAt(hgt, d, h) = [d EXCEPT !.ok = FALSE]
    BY DEF DeliverPlacementAt, e
  <1> QED
    BY <1>4, <1>5, SettlesRefusal

\* What is left when the ids of S are gone.
LEMMA WithoutIs ==
  ASSUME NEW placed \in Seq(Hashes), NEW S
  PROVE  /\ Without(placed, S) \in Seq(Hashes)
         /\ ToSet(Without(placed, S)) = {h \in ToSet(placed) : Id(h) \notin S}
         /\ IsInjective(placed) => IsInjective(Without(placed, S))
  <1> DEFINE T == {h \in ToSet(placed) : Id(h) \notin S}
  <1>1. Without(placed, S) = Keep(placed, T)
    BY DEF Without
  <1>2. ToSet(placed) \cap T = T
    OBVIOUS
  <1> HIDE DEF T
  <1>3. /\ Keep(placed, T) \in Seq(Hashes) /\ ToSet(Keep(placed, T)) = ToSet(placed) \cap T
        /\ IsInjective(placed) => IsInjective(Keep(placed, T))
    BY KeepIs
  <1> QED
    BY <1>1, <1>2, <1>3 DEF T

\* Orders leave: their fill amounts go as well.
LeftOut(d, S, e) ==
  /\ S \in SUBSET Ids /\ e \in Deliveries
  /\ e.placed = Without(d.placed, S) /\ e.removed = d.removed \cup S
  /\ e.filled = d.filled /\ e.short = d.short
  /\ \A id \in Ids : e.fill[id] = IF id \in S THEN 0 ELSE d.fill[id]

\* Orders leave a settling state.
LEMMA SettlesWithout ==
  ASSUME NEW c, NEW d, NEW S, NEW e, Settling(c, d), LeftOut(d, S, e)
  PROVE  Settling(c, e)
  <1> USE DEF LeftOut
  <1>1. d.placed \in Seq(Hashes) /\ IsInjective(d.placed) /\ d.fill \in Fillings
    BY DEF Settling, Deliveries
  <1>2. ToSet(e.placed) = {h \in ToSet(d.placed) : Id(h) \notin S} /\ IsInjective(e.placed)
    BY <1>1, WithoutIs
  <1>3. Rooted(e)
    <2> SUFFICES ASSUME NEW h \in Hashes, IsStateful(h), e.fill[Id(h)] # 0
                 PROVE  WithId(e.placed, Id(h)) # {}
      BY DEF Rooted
    <2>1. Id(h) \in Ids /\ Id(h) \notin S /\ d.fill[Id(h)] # 0
      BY OrderTypes
    <2>2. WithId(d.placed, Id(h)) # {}
      BY <2>1 DEF Settling, Rooted
    <2> QED
      BY <1>2, <2>1, <2>2 DEF WithId
  <1> QED
    BY <1>2, <1>3 DEF Settling

\* PersistOrderRemovalToState.
LEMMA SettlesRemoval ==
  ASSUME NEW c, NEW d, NEW id \in Ids, Settling(c, d)
  PROVE  Settling(c, DeliverRemoval(d, id))
  <1> DEFINE e == [d EXCEPT !.placed = Without(@, {id}), !.fill[id] = 0, !.removed = @ \cup {id}]
             p == Without(d.placed, {id})
  <1>1. d \in Deliveries /\ d.placed \in Seq(Hashes) /\ d.fill \in Fillings
    BY DEF Settling, Deliveries
  <1>2. p \in Seq(Hashes)
    BY <1>1, WithoutIs
  <1>3. e = [d EXCEPT !.placed = p, !.fill[id] = 0, !.removed = @ \cup {id}]
    OBVIOUS
  <1> HIDE DEF p
  <1>4. [d.fill EXCEPT ![id] = 0] \in Fillings
        /\ \A i \in Ids : [d.fill EXCEPT ![id] = 0][i] = IF i \in {id} THEN 0 ELSE d.fill[i]
    BY <1>1 DEF Fillings
  <1>5. /\ e \in Deliveries /\ e.fill = [d.fill EXCEPT ![id] = 0] /\ e.placed = p
        /\ e.removed = d.removed \cup {id} /\ e.filled = d.filled /\ e.short = d.short
    BY <1>1, <1>2, <1>3, <1>4 DEF Deliveries
  <1> HIDE DEF e
  <1>6. {id} \in SUBSET Ids
    OBVIOUS
  <1>7. PICK S : S = {id}
    OBVIOUS
  <1>8. Settling(c, e)
    <2>1. S \in SUBSET Ids /\ e.placed = Without(d.placed, S) /\ e.removed = d.removed \cup S
      BY <1>5, <1>6, <1>7 DEF p
    <2>2. \A i \in Ids : e.fill[i] = IF i \in S THEN 0 ELSE d.fill[i]
      BY <1>4, <1>5, <1>7
    <2>3. LeftOut(d, S, e)
      BY <1>5, <2>1, <2>2 DEF LeftOut
    <2> QED
      BY <2>3, SettlesWithout
  <1>9. DeliverRemoval(d, id) = e \/ DeliverRemoval(d, id) = [d EXCEPT !.ok = FALSE]
    BY DEF DeliverRemoval, e
  <1> QED
    BY <1>8, <1>9, SettlesRefusal

\* What it means that the orders of S leave.
Left(c, d, S, e) ==
  /\ Settling(c, e) /\ e.filled = d.filled /\ e.removed = d.removed \cup S
  /\ \A id \in Ids : e.fill[id] = IF id \in S THEN 0 ELSE d.fill[id]

\* Leave takes orders and their fill amounts out of a settling state.
LEMMA SettlesLeave ==
  ASSUME NEW c, NEW d, NEW S \in SUBSET Ids, Settling(c, d)
  PROVE  Left(c, d, S, Leave(d, S))
  <1> DEFINE e == Leave(d, S)
             p == Without(d.placed, S)
             f == [id \in Ids |-> IF id \in S THEN 0 ELSE d.fill[id]]
  <1>1. d \in Deliveries /\ d.placed \in Seq(Hashes) /\ d.fill \in Fillings /\ d.removed \in SUBSET Ids
    BY DEF Settling, Deliveries
  <1>2. p \in Seq(Hashes)
    BY <1>1, WithoutIs
  <1>3. e = [d EXCEPT !.placed = p, !.fill = f, !.removed = @ \cup S]
    BY DEF Leave
  <1>4. f \in Fillings /\ \A i \in Ids : f[i] = IF i \in S THEN 0 ELSE d.fill[i]
    BY <1>1 DEF Fillings
  <1> HIDE DEF p, f, e
  <1>5. /\ e \in Deliveries /\ e.fill = f /\ e.placed = p /\ e.ok = d.ok
        /\ e.removed = d.removed \cup S /\ e.filled = d.filled /\ e.short = d.short
    BY <1>1, <1>2, <1>3, <1>4 DEF Deliveries
  <1>8. Settling(c, e)
    <2>1. LeftOut(d, S, e)
      BY <1>4, <1>5 DEF p, LeftOut
    <2> QED
      BY <2>1, SettlesWithout
  <1>9. Left(c, d, S, e)
    BY <1>4, <1>5, <1>8 DEF Left
  <1> QED
    BY <1>9 DEF e

\* FetchOrderFromOrderId finds an order of that id, in state if it is stateful.
LEMMA FetchIs ==
  ASSUME NEW c, NEW d, Settling(c, d), NEW id
  PROVE  /\ Fetch(d, id) \subseteq Hashes
         /\ \A h \in Fetch(d, id) :
              Id(h) = id /\ (id \notin ShortTermIds => WithId(d.placed, id) # {})
  <1>1. d \in Deliveries /\ ToSet(d.placed) \subseteq Hashes
    BY DEF Settling, Deliveries, ToSet
  <1>2. CASE id \in ShortTermIds
    <2>1. d.short[id] \in Hashes \cup {None} /\ (d.short[id] = None \/ Id(d.short[id]) = id)
      BY <1>1, <1>2 DEF Deliveries, Settling
    <2> QED
      BY <1>2, <2>1 DEF Fetch
  <1>3. CASE id \notin ShortTermIds
    BY <1>1, <1>3 DEF Fetch, WithId
  <1> QED
    BY <1>2, <1>3

\* Both sides of a match are filled; a liquidation order has no fill amount.
FilledBy(fills, taker, id, n, q) ==
  /\ q \in Fillings
  /\ \A i \in Ids : q[i] >= fills[i]
  /\ \A i \in Ids : (i # id /\ i # Id(taker)) => q[i] = fills[i]
  /\ id # Id(taker) => /\ q[id] = fills[id] + n
                       /\ taker \in Hashes => q[Id(taker)] = fills[Id(taker)] + n

\* Both sides of a fill are filled by its amount.
LEMMA FilledOnce ==
  ASSUME NEW fills \in Fillings, NEW taker \in Hashes \cup Liquidations, NEW id \in Ids, NEW n \in Nat
  PROVE  FilledBy(fills, taker, id, n, Fill([fills EXCEPT ![id] = @ + n], taker, n))
  <1> DEFINE g == [fills EXCEPT ![id] = @ + n]
  <1>1. g \in Fillings /\ \A i \in Ids : g[i] = IF i = id THEN fills[i] + n ELSE fills[i]
    BY DEF Fillings
  <1>2. \A i \in Ids : fills[i] \in Nat /\ g[i] \in Nat
    BY <1>1 DEF Fillings
  <1> HIDE DEF g
  <1>3. CASE taker \in Hashes
    <2>1. ~IsLiquidation(taker) /\ Id(taker) \in Ids
      BY <1>3, OrderTypes
    <2>2. Fill(g, taker, n) = [g EXCEPT ![Id(taker)] = @ + n]
      BY <2>1 DEF Fill
    <2> DEFINE q == Fill(g, taker, n)
    <2>3. q \in Fillings /\ \A i \in Ids : q[i] = IF i = Id(taker) THEN g[i] + n ELSE g[i]
      BY <1>1, <2>1, <2>2 DEF Fillings
    <2> HIDE DEF q
    <2>4. FilledBy(fills, taker, id, n, q)
      BY <1>1, <1>2, <2>1, <2>3 DEF FilledBy
    <2> QED
      BY <2>4 DEF g, q
  <1>4. CASE taker \in Liquidations
    <2>1. IsLiquidation(taker) /\ taker \notin Hashes
      BY <1>4, LiquidationTypes
    <2>2. Fill(g, taker, n) = g
      BY <2>1 DEF Fill
    <2>3. FilledBy(fills, taker, id, n, g)
      BY <1>1, <1>2, <2>1 DEF FilledBy
    <2> QED
      BY <2>2, <2>3 DEF g
  <1> QED
    BY <1>3, <1>4

\* The taker of a match that is delivered.
Taking(d, taker) ==
  /\ taker \in Hashes \cup Liquidations
  /\ taker \in Hashes => /\ Id(taker) \in d.filled
                         /\ IsStateful(taker) => WithId(d.placed, Id(taker)) # {}

\* Delivering a fill.
LEMMA SettlesFill ==
  ASSUME NEW c, NEW d, Settling(c, d), NEW taker, Taking(d, taker),
         NEW f \in [id : Ids, amount : Nat \ {0}]
  PROVE  Settling(c, DeliverFill(d, taker, f)) /\ Taking(DeliverFill(d, taker, f), taker)
  <1> DEFINE V == {h \in Fetch(d, f.id) : ValidMatch(d.fill, taker, h, f.amount)}
             q == Fill([d.fill EXCEPT ![f.id] = @ + f.amount], taker, f.amount)
             e == [d EXCEPT !.fill = q, !.filled = @ \cup {f.id}]
  <1>1. DeliverFill(d, taker, f) = IF V = {} THEN [d EXCEPT !.ok = FALSE] ELSE e
    BY DEF DeliverFill
  <1>2. /\ d \in Deliveries /\ d.fill \in Fillings /\ f.id \in Ids /\ f.amount \in Nat
        /\ taker \in Hashes \cup Liquidations
    <2>1. f.id \in Ids /\ f.amount \in Nat
      OBVIOUS
    <2> QED
      BY <2>1 DEF Settling, Deliveries, Taking
  <1>3. /\ q \in Fillings
        /\ \A i \in Ids : q[i] >= d.fill[i]
        /\ \A i \in Ids : (i # f.id /\ i # Id(taker)) => q[i] = d.fill[i]
    <2>1. FilledBy(d.fill, taker, f.id, f.amount, q)
      BY <1>2, FilledOnce
    <2> HIDE DEF q
    <2> QED
      BY <2>1 DEF FilledBy
  <1> HIDE DEF q
  <1>4. /\ e \in Deliveries /\ e.fill = q /\ e.placed = d.placed /\ e.removed = d.removed
        /\ e.filled = d.filled \cup {f.id} /\ e.short = d.short
    BY <1>2, <1>3 DEF Deliveries
  <1>5. CASE V = {}
    <2>1. DeliverFill(d, taker, f) = [d EXCEPT !.ok = FALSE]
      BY <1>1, <1>5
    <2> QED
      BY <2>1, SettlesRefusal DEF Taking
  <1>6. CASE V # {}
    <2>1. f.id \notin ShortTermIds => WithId(d.placed, f.id) # {}
      BY <1>6, FetchIs
    <2> HIDE DEF e, V
    <2>2. Rooted(e)
      <3> SUFFICES ASSUME NEW h \in Hashes, IsStateful(h), e.fill[Id(h)] # 0
                   PROVE  WithId(d.placed, Id(h)) # {}
        BY <1>4 DEF Rooted
      <3>1. Id(h) \in Ids /\ Id(h) \notin ShortTermIds
        BY OrderTypes
      <3>2. CASE Id(h) = f.id
        BY <2>1, <3>1, <3>2
      <3>3. CASE Id(h) = Id(taker)
        <4>1. taker \in Hashes
          BY <1>2, <3>1, <3>3, LiquidationTypes
        <4>2. IsStateful(taker)
          BY <3>3, <4>1, SameId
        <4> QED
          BY <3>3, <4>1, <4>2 DEF Taking
      <3>4. CASE Id(h) # f.id /\ Id(h) # Id(taker)
        BY <1>3, <1>4, <3>1, <3>4 DEF Settling, Rooted
      <3> QED
        BY <3>2, <3>3, <3>4
    <2>3. \A id \in Ids : id \in e.filled \cup e.removed \/ e.fill[id] = c.fill[id]
      <3> SUFFICES ASSUME NEW id \in Ids, id \notin e.filled \cup e.removed
                   PROVE  e.fill[id] = c.fill[id]
        OBVIOUS
      <3>1. id # Id(taker)
        <4> SUFFICES ASSUME id = Id(taker) PROVE FALSE
          OBVIOUS
        <4>1. taker \in Hashes
          BY <1>2, LiquidationTypes
        <4> QED
          BY <1>4, <4>1 DEF Taking
      <3>2. e.fill[id] = d.fill[id]
        BY <1>3, <1>4, <3>1
      <3> QED
        BY <1>4, <3>2 DEF Settling
    <2>4. \A id \in Ids : id \in e.removed \/ e.fill[id] >= c.fill[id]
      <3> SUFFICES ASSUME NEW id \in Ids, id \notin e.removed PROVE e.fill[id] >= c.fill[id]
        OBVIOUS
      <3>1. q[id] >= d.fill[id] /\ q[id] \in Nat /\ d.fill[id] \in Nat
        BY <1>2, <1>3 DEF Fillings
      <3>2. d.fill[id] >= c.fill[id] /\ c.fill[id] \in Nat
        BY <1>4 DEF Settling, Fillings
      <3> QED
        BY <1>4, <3>1, <3>2
    <2>5. Settling(c, e)
      BY <1>4, <2>2, <2>3, <2>4 DEF Settling
    <2>6. Taking(e, taker)
      BY <1>4 DEF Taking
    <2> QED
      BY <1>1, <1>6, <2>5, <2>6 DEF e
  <1> QED
    BY <1>5, <1>6

FillRecords == [id : Ids, amount : Nat \ {0}]

\* The fills of a match, one after the other.
LEMMA SettlesFills ==
  ASSUME NEW c, NEW d, Settling(c, d), NEW taker, Taking(d, taker), NEW fills \in Seq(FillRecords)
  PROVE  Settling(c, DeliverFills(d, taker, fills))
  <1> DEFINE n == Len(fills)
  <1>1. n \in Nat /\ \A k \in 1 .. n : fills[k] \in FillRecords
    OBVIOUS
  <1>2. PICK f : DeliverFills(d, taker, fills) = f[n] /\ Feeding(f, d, taker, fills, n)
    BY <1>1, FillsRun
  <1> HIDE DEF n
  <1> DEFINE Good == {k \in 0 .. n : Settling(c, f[k]) /\ Taking(f[k], taker)}
  <1>3. 0 \in Good
    BY <1>1, <1>2 DEF Feeding
  <1>4. ASSUME NEW k \in 1 .. n, k - 1 \in Good PROVE k \in Good
    <2>1. f[k] = DeliverFill(f[k - 1], taker, fills[k])
      BY <1>2 DEF Feeding
    <2>2. Settling(c, f[k - 1]) /\ Taking(f[k - 1], taker) /\ fills[k] \in [id : Ids, amount : Nat \ {0}]
      BY <1>1, <1>4 DEF FillRecords
    <2>3. Settling(c, f[k]) /\ Taking(f[k], taker)
      BY <2>1, <2>2, SettlesFill
    <2>4. k \in 0 .. n
      BY <1>1
    <2> QED
      BY <2>3, <2>4
  <1>5. \A k \in 0 .. n : k \in Good
    <2> HIDE DEF Good
    <2> QED
      BY <1>1, <1>3, <1>4, Induct
  <1> QED
    BY <1>1, <1>2, <1>5

\* The orders that may be the taker of a match.
TakersOf(d, id) ==
  {h \in Fetch(d, id) :
     /\ ~IsPostOnly(h)
     /\ RequiresImmediateExecution(h) => d.fill[Id(h)] = 0}
    \cup {l \in LiquidationsOf(id) : l \notin d.liquidated}

DistinctFills(fills) ==
  \A i, j \in DOMAIN fills : fills[i].id = fills[j].id => i = j

Engaged(d, op) ==
  [d EXCEPT !.liquidated = @ \cup LiquidationsOf(op.taker),
            !.filled = @ \cup ({op.taker} \cap Ids)]

\* Delivering a match, by whether it is valid.
LEMMA DeliverMatchIs ==
  ASSUME NEW d, NEW op
  PROVE  DeliverMatch(d, op) =
           IF TakersOf(d, op.taker) = {} \/ op.fills = <<>> \/ ~DistinctFills(op.fills)
             THEN [d EXCEPT !.ok = FALSE]
             ELSE DeliverFills(Engaged(d, op), CHOOSE h \in TakersOf(d, op.taker) : TRUE, op.fills)
  BY DEF DeliverMatch, TakersOf, DistinctFills, Engaged

\* What engaging the taker changes.
LEMMA EngagedIs ==
  ASSUME NEW d \in Deliveries, NEW op
  PROVE  /\ Engaged(d, op) \in Deliveries /\ Engaged(d, op).ok = d.ok
         /\ Engaged(d, op).fill = d.fill /\ Engaged(d, op).placed = d.placed
         /\ Engaged(d, op).short = d.short /\ Engaged(d, op).removed = d.removed
         /\ Engaged(d, op).liquidated = d.liquidated \cup LiquidationsOf(op.taker)
         /\ Engaged(d, op).filled = d.filled \cup ({op.taker} \cap Ids)
  <1> DEFINE L == LiquidationsOf(op.taker)
             F == {op.taker} \cap Ids
  <1>1. L \subseteq Liquidations
    BY DEF LiquidationsOf, Liquidations
  <1>2. F \subseteq Ids
    OBVIOUS
  <1>3. Engaged(d, op) = [d EXCEPT !.liquidated = @ \cup L, !.filled = @ \cup F]
    BY DEF Engaged
  <1> HIDE DEF L, F
  <1>4. /\ Engaged(d, op) \in Deliveries /\ Engaged(d, op).ok = d.ok
        /\ Engaged(d, op).fill = d.fill /\ Engaged(d, op).placed = d.placed
        /\ Engaged(d, op).short = d.short /\ Engaged(d, op).removed = d.removed
        /\ Engaged(d, op).liquidated = d.liquidated \cup L
        /\ Engaged(d, op).filled = d.filled \cup F
    BY <1>1, <1>2, <1>3 DEF Deliveries
  <1> QED
    BY <1>4 DEF L, F

\* Delivering a match.
LEMMA SettlesMatch ==
  ASSUME NEW c, NEW d, Settling(c, d), NEW op, op.fills \in Seq(FillRecords)
  PROVE  Settling(c, DeliverMatch(d, op))
  <1> DEFINE T == TakersOf(d, op.taker)
             taker == CHOOSE h \in T : TRUE
             e == Engaged(d, op)
  <1>1. d \in Deliveries
    BY DEF Settling
  <1>2. CASE T = {} \/ op.fills = <<>> \/ ~DistinctFills(op.fills)
    <2>1. DeliverMatch(d, op) = [d EXCEPT !.ok = FALSE]
      BY <1>2, DeliverMatchIs
    <2> QED
      BY <2>1, SettlesRefusal
  <1>3. CASE ~(T = {} \/ op.fills = <<>> \/ ~DistinctFills(op.fills))
    <2>1. DeliverMatch(d, op) = DeliverFills(e, taker, op.fills)
      BY <1>3, DeliverMatchIs
    <2>2. taker \in T
      BY <1>3
    <2>3. taker \in Fetch(d, op.taker) \/ taker \in LiquidationsOf(op.taker)
      <3> HIDE DEF taker
      <3> QED
        BY <2>2 DEF TakersOf
    <2> HIDE DEF taker, T
    <2>4. /\ e \in Deliveries /\ e.fill = d.fill /\ e.placed = d.placed /\ e.short = d.short
          /\ e.removed = d.removed /\ e.filled = d.filled \cup ({op.taker} \cap Ids)
      BY <1>1, EngagedIs
    <2> HIDE DEF e
    <2>5. Settling(c, e)
      BY <2>4 DEF Settling, Rooted
    <2>6. Taking(e, taker)
      <3>1. CASE taker \in Fetch(d, op.taker)
        <4>1. taker \in Hashes /\ Id(taker) = op.taker
              /\ (op.taker \notin ShortTermIds => WithId(d.placed, op.taker) # {})
          BY <3>1, FetchIs
        <4>2. Id(taker) \in Ids /\ (IsStateful(taker) => Id(taker) \notin ShortTermIds)
          BY <4>1, OrderTypes
        <4> QED
          BY <2>4, <4>1, <4>2 DEF Taking
      <3>2. CASE taker \in LiquidationsOf(op.taker)
        <4>1. taker \in Liquidations
          BY <3>2 DEF LiquidationsOf, Liquidations
        <4>2. taker \notin Hashes
          BY <4>1, LiquidationTypes
        <4> QED
          BY <4>1, <4>2 DEF Taking
      <3> QED
        BY <2>3, <3>1, <3>2
    <2>7. Settling(c, DeliverFills(e, taker, op.fills))
      BY <2>5, <2>6, SettlesFills
    <2> QED
      BY <2>1, <2>7
  <1> QED
    BY <1>2, <1>3

\* The kinds of operations and their fields.
LEMMA OperationKinds ==
  ASSUME NEW op \in Operations
  PROVE  \/ op.op = "place" /\ op.order \in Hashes
         \/ op.op \in {"preexisting", "remove"} /\ op.id \in Ids
         \/ op.op = "match" /\ op.taker \in Names /\ op.fills \in Seq(FillRecords)
  BY DEF Operations, FillRecords

\* Delivering one operation.
LEMMA SettlesOp ==
  ASSUME NEW c, NEW hgt, NEW d, Settling(c, d), NEW op \in Operations
  PROVE  Settling(c, DeliverOpAt(hgt, d, op))
  <1>1. CASE op.op = "place" /\ op.order \in Hashes
    <2>1. DeliverOpAt(hgt, d, op) = DeliverPlacementAt(hgt, d, op.order)
      BY <1>1 DEF DeliverOpAt
    <2> QED
      BY <1>1, <2>1, SettlesPlacement
  <1>2. CASE op.op = "match" /\ op.fills \in Seq(FillRecords)
    <2>1. DeliverOpAt(hgt, d, op) = DeliverMatch(d, op)
      BY <1>2 DEF DeliverOpAt
    <2> QED
      BY <1>2, <2>1, SettlesMatch
  <1>3. CASE op.op = "remove" /\ op.id \in Ids
    <2>1. DeliverOpAt(hgt, d, op) = DeliverRemoval(d, op.id)
      BY <1>3 DEF DeliverOpAt
    <2> QED
      BY <1>3, <2>1, SettlesRemoval
  <1>4. CASE op.op = "preexisting"
    BY <1>4 DEF DeliverOpAt
  <1> QED
    BY <1>1, <1>2, <1>3, <1>4, OperationKinds

\* A whole queue.
LEMMA SettlesAll ==
  ASSUME NEW c, ChainOK(c), NEW hgt, NEW queue \in Seq(Operations)
  PROVE  Settling(c, DeliverAt(c, hgt, queue))
  <1> DEFINE n == Len(queue)
  <1>1. n \in Nat /\ \A k \in 1 .. n : queue[k] \in Operations
    OBVIOUS
  <1>2. PICK f : DeliverAt(c, hgt, queue) = f[n] /\ Delivering(f, c, hgt, queue, n)
    BY <1>1, DeliverRuns
  <1> HIDE DEF n
  <1> DEFINE Good == {k \in 0 .. n : Settling(c, f[k])}
  <1>3. 0 \in Good
    BY <1>1, <1>2, SettlesNothing DEF Delivering
  <1>4. ASSUME NEW k \in 1 .. n, k - 1 \in Good PROVE k \in Good
    <2>1. f[k] = DeliverOpAt(hgt, f[k - 1], queue[k])
      BY <1>2 DEF Delivering
    <2>2. Settling(c, f[k - 1]) /\ queue[k] \in Operations
      BY <1>1, <1>4
    <2>3. Settling(c, f[k])
      BY <2>1, <2>2, SettlesOp
    <2>4. k \in 0 .. n
      BY <1>1
    <2> QED
      BY <2>3, <2>4
  <1>5. \A k \in 0 .. n : k \in Good
    <2> HIDE DEF Good
    <2> QED
      BY <1>1, <1>3, <1>4, Induct
  <1> QED
    BY <1>1, <1>2, <1>5

-----------------------------------------------------------------------------
(* The operations of another proposer.                                     *)

OthersAt(c, h, n) ==
  Leave([UndeliveredAt(c) EXCEPT !.fill[Id(h)] = @ + n, !.filled = {Id(h)}],
        IF IsStateful(h) /\ RequiresImmediateExecution(h) THEN {Id(h)} ELSE {})

\* The operations of another proposer settle; an IOC order they fill is removed.
LEMMA OthersSettle ==
  ASSUME NEW c, ChainOK(c), NEW h \in Hashes, NEW n \in Nat,
         IsStateful(h) => h \in ToSet(c.placed)
  PROVE  /\ Settling(c, OthersAt(c, h, n)) /\ OthersAt(c, h, n).filled = {Id(h)}
         /\ IsStateful(h) /\ RequiresImmediateExecution(h) => Id(h) \in OthersAt(c, h, n).removed
  <1> DEFINE d == UndeliveredAt(c)
             q == [d.fill EXCEPT ![Id(h)] = @ + n]
             e == [d EXCEPT !.fill[Id(h)] = @ + n, !.filled = {Id(h)}]
             S == IF IsStateful(h) /\ RequiresImmediateExecution(h) THEN {Id(h)} ELSE {}
  <1>1. OthersAt(c, h, n) = Leave(e, S)
    BY DEF OthersAt
  <1>2. Settling(c, d)
    BY SettlesNothing
  <1>3. d \in Deliveries /\ d.fill \in Fillings /\ Id(h) \in Ids
        /\ d.fill = c.fill /\ d.placed = c.placed
    <2>1. d.fill = c.fill /\ d.placed = c.placed
      BY DEF UndeliveredAt
    <2> HIDE DEF d
    <2> QED
      BY <1>2, <2>1, OrderTypes DEF Settling, Deliveries
  <1> HIDE DEF d
  <1>4. q \in Fillings
        /\ \A i \in Ids : q[i] = (IF i = Id(h) THEN d.fill[i] + n ELSE d.fill[i]) /\ q[i] >= d.fill[i]
    BY <1>3 DEF Fillings
  <1>5. e = [d EXCEPT !.fill = q, !.filled = {Id(h)}]
    BY <1>3 DEF Deliveries
  <1> HIDE DEF q
  <1>6. /\ e \in Deliveries /\ e.fill = q /\ e.placed = d.placed /\ e.removed = d.removed
        /\ e.filled = {Id(h)} /\ e.short = d.short
    BY <1>3, <1>4, <1>5 DEF Deliveries
  <1> HIDE DEF e
  <1>7. Rooted(e)
    <2> SUFFICES ASSUME NEW g \in Hashes, IsStateful(g), e.fill[Id(g)] # 0
                 PROVE  WithId(d.placed, Id(g)) # {}
      BY <1>6 DEF Rooted
    <2>1. Id(g) \in Ids
      BY OrderTypes
    <2>2. CASE Id(g) = Id(h)
      <3>1. h \in ToSet(d.placed)
        BY <1>3, <2>2, SameId
      <3> QED
        BY <2>2, <3>1 DEF WithId
    <2>3. CASE Id(g) # Id(h)
      BY <1>2, <1>4, <1>6, <2>1, <2>3 DEF Settling, Rooted
    <2> QED
      BY <2>2, <2>3
  <1>8. \A id \in Ids : id \in e.filled \cup e.removed \/ e.fill[id] = c.fill[id]
    BY <1>3, <1>4, <1>6
  <1>9. \A id \in Ids : id \in e.removed \/ e.fill[id] >= c.fill[id]
    BY <1>3, <1>4, <1>6
  <1>10. Settling(c, e)
    BY <1>2, <1>6, <1>7, <1>8, <1>9 DEF Settling
  <1>11. S \in SUBSET Ids
    BY <1>3
  <1>12. IsStateful(h) /\ RequiresImmediateExecution(h) => Id(h) \in S
    OBVIOUS
  <1> HIDE DEF S
  <1>13. Left(c, e, S, Leave(e, S))
    BY <1>10, <1>11, SettlesLeave
  <1> QED
    BY <1>1, <1>6, <1>12, <1>13 DEF Left

\* Whatever is delivered in a block.
LEMMA OperationsSettle ==
  ASSUME ChainOK(chain), mem.queue \in Seq(Operations),
         NEW d \in {Deliver(mem.queue)} \cup OthersOperations
  PROVE  Settling(chain, d)
  <1>1. CASE d = Deliver(mem.queue)
    BY <1>1, DeliverIs, SettlesAll
  <1>2. CASE d = Undelivered
    BY <1>2, DeliverIs, SettlesNothing
  <1>3. CASE d # Deliver(mem.queue) /\ d # Undelivered
    <2>1. d \in UNION {{OthersFill(h, n) : n \in 1 .. Remaining(h, chain.fill)} :
                         h \in {g \in Hashes :
                                  /\ IF IsStateful(g) THEN g \in ToSet(chain.placed)
                                     ELSE ValidGoodTilBlock(Order(g).goodTil, height + 1)
                                  /\ RequiresImmediateExecution(g) =>
                                       chain.fill[Id(g)] = 0}}
      BY <1>3 DEF OthersOperations
    <2>2. PICK h \in Hashes : /\ IsStateful(h) => h \in ToSet(chain.placed)
                              /\ d \in {OthersFill(h, n) : n \in 1 .. Remaining(h, chain.fill)}
      BY <2>1
    <2>3. PICK n \in 1 .. Remaining(h, chain.fill) : d = OthersFill(h, n)
      BY <2>2
    <2>4. chain.fill \in Fillings
      BY DEF ChainOK, Chains
    <2>5. Remaining(h, chain.fill) \in Nat
      BY <2>4, RemainingType
    <2>6. n \in Nat
      BY <2>3, <2>5
    <2>7. OthersFill(h, n) = OthersAt(chain, h, n)
      BY DEF OthersFill, OthersAt, Undelivered, UndeliveredAt
    <2>8. Settling(chain, OthersAt(chain, h, n))
      BY <2>2, <2>6, OthersSettle
    <2> QED
      BY <2>3, <2>7, <2>8
  <1> QED
    BY <1>1, <1>2, <1>3

-----------------------------------------------------------------------------
(* What PrepareCheckState is to place.                                     *)

\* Two sequences without repetitions, and with nothing in common, joined.
LEMMA DisjointConcat ==
  ASSUME NEW T, NEW a \in Seq(T), NEW b \in Seq(T), IsInjective(a), IsInjective(b),
         ToSet(a) \cap ToSet(b) = {}
  PROVE  IsInjective(a \o b)
  <1> DEFINE c == a \o b
  <1>1. /\ Len(a) \in Nat /\ Len(b) \in Nat /\ DOMAIN c = 1 .. Len(a) + Len(b)
        /\ DOMAIN a = 1 .. Len(a) /\ DOMAIN b = 1 .. Len(b)
        /\ \A i \in DOMAIN c : i \notin 1 .. Len(a) => i - Len(a) \in 1 .. Len(b)
        /\ \A i \in DOMAIN c : c[i] = IF i \in 1 .. Len(a) THEN a[i] ELSE b[i - Len(a)]
    OBVIOUS
  <1> HIDE DEF c
  <1> SUFFICES ASSUME NEW i \in DOMAIN c, NEW j \in DOMAIN c, c[i] = c[j] PROVE i = j
    BY DEF IsInjective, c
  <1>2. \A k \in DOMAIN c : IF k \in 1 .. Len(a) THEN c[k] = a[k] /\ c[k] \in ToSet(a)
                                                ELSE c[k] = b[k - Len(a)] /\ c[k] \in ToSet(b)
    BY <1>1 DEF ToSet
  <1>3. CASE i \in 1 .. Len(a)
    <2>1. j \in 1 .. Len(a)
      BY <1>2, <1>3
    <2> QED
      BY <1>1, <1>2, <1>3, <2>1 DEF IsInjective
  <1>4. CASE i \notin 1 .. Len(a)
    <2>1. j \notin 1 .. Len(a)
      BY <1>2, <1>4
    <2>2. i - Len(a) = j - Len(a)
      BY <1>1, <1>4, <2>1 DEF IsInjective
    <2> QED
      BY <1>1, <2>2
  <1> QED
    BY <1>3, <1>4

ReplayFor(op, placed) == ToSet(ReplayedFor(op, placed))

\* What is replayed for one operation.
LEMMA ReplayedForIs ==
  ASSUME NEW op \in Operations, NEW placed \in Seq(Hashes), IsInjective(placed)
  PROVE  /\ ReplayedFor(op, placed) \in Seq(Hashes) /\ IsInjective(ReplayedFor(op, placed))
         /\ ReplayFor(op, placed) = IF op.op = "place" THEN {op.order}
                                    ELSE IF op.op \in {"preexisting", "remove"}
                                    THEN WithId(placed, op.id) ELSE {}
  <1>1. CASE op.op = "place" /\ op.order \in Hashes
    <2>1. ReplayedFor(op, placed) = <<op.order>>
      BY <1>1 DEF ReplayedFor
    <2>2. <<op.order>> \in Seq(Hashes) /\ ToSet(<<op.order>>) = {op.order}
      BY <1>1, SingletonSet
    <2>3. IsInjective(<<op.order>>)
      BY DEF IsInjective
    <2> QED
      BY <1>1, <2>1, <2>2, <2>3 DEF ReplayFor
  <1>2. CASE op.op \in {"preexisting", "remove"} /\ op.id \in Ids
    <2> DEFINE S == WithId(placed, op.id)
    <2>1. ReplayedFor(op, placed) = Keep(placed, S)
      BY <1>2 DEF ReplayedFor
    <2>2. ToSet(placed) \cap S = S
      BY DEF WithId
    <2> HIDE DEF S
    <2>3. Keep(placed, S) \in Seq(Hashes) /\ ToSet(Keep(placed, S)) = ToSet(placed) \cap S
          /\ IsInjective(Keep(placed, S))
      BY KeepIs
    <2> QED
      BY <1>2, <2>1, <2>2, <2>3 DEF ReplayFor, S
  <1>3. CASE op.op = "match"
    <2>1. ReplayedFor(op, placed) = <<>>
      BY <1>3 DEF ReplayedFor
    <2>2. <<>> \in Seq(Hashes) /\ ToSet(<<>>) = {} /\ IsInjective(<<>>)
      BY DEF ToSet, IsInjective
    <2> QED
      BY <1>3, <2>1, <2>2 DEF ReplayFor
  <1> QED
    BY <1>1, <1>2, <1>3, OperationKinds

\* The orders that are replayed.
ReplaySet(queue, placed) == UNION {ReplayFor(queue[k], placed) : k \in DOMAIN queue}

Replaying(f, queue, placed, n) ==
  /\ f[0] = <<>>
  /\ \A k \in 1 .. n :
       f[k] = f[k - 1] \o Keep(ReplayedFor(queue[k], placed),
                               ToSet(ReplayedFor(queue[k], placed)) \ ToSet(f[k - 1]))

\* ReplayOperations goes through the queue once.
LEMMA ReplayRuns ==
  ASSUME NEW queue, NEW placed, Len(queue) \in Nat
  PROVE  \E f : /\ Replayed(queue, placed) = f[Len(queue)]
                /\ Replaying(f, queue, placed, Len(queue))
<1> DEFINE n == Len(queue)
           Orders(k) == ReplayedFor(queue[k], placed)
           Step(r, k) == r \o Keep(Orders(k), ToSet(Orders(k)) \ ToSet(r))
           RunsTo(g, m) == g = [k \in 0 .. m |-> IF k = 0 THEN <<>> ELSE Step(g[k - 1], k)]
           Good == {m \in Nat : \E g : RunsTo(g, m)}
<1>0. n \in Nat
  OBVIOUS
<1>1. 0 \in Good
  <2>1. RunsTo([k \in 0 .. 0 |-> <<>>], 0)
    OBVIOUS
  <2> QED
    BY <2>1
<1>2. ASSUME NEW m \in 1 .. n, m - 1 \in Good PROVE m \in Good
  <2>1. PICK g : RunsTo(g, m - 1)
    BY <1>2
  <2> DEFINE h == [k \in 0 .. m |-> IF k = m THEN Step(g[m - 1], m) ELSE g[k]]
  <2>2. RunsTo(h, m)
    <3> HIDE DEF Step
    <3> SUFFICES ASSUME NEW k \in 0 .. m
                 PROVE  h[k] = IF k = 0 THEN <<>> ELSE Step(h[k - 1], k)
      OBVIOUS
    <3>1. k # 0 => k - 1 \in 0 .. m - 1 /\ k - 1 # m /\ h[k - 1] = g[k - 1]
      BY <1>0
    <3>2. CASE k = m
      BY <1>0, <3>1, <3>2
    <3>3. CASE k # m
      <4>1. k \in 0 .. m - 1 /\ h[k] = g[k]
        BY <1>0, <3>3
      <4>2. g[k] = IF k = 0 THEN <<>> ELSE Step(g[k - 1], k)
        BY <2>1, <4>1
      <4> QED
        BY <3>1, <4>1, <4>2
    <3> QED
      BY <3>2, <3>3
  <2> HIDE DEF h, RunsTo
  <2> QED
    BY <1>0, <2>2
<1>3. \E g : RunsTo(g, n)
  <2>1. \A k \in 0 .. n : k \in Good
    <3> HIDE DEF Good
    <3> QED
      BY <1>0, <1>1, <1>2, Induct
  <2> HIDE DEF RunsTo
  <2>2. n \in Good
    <3> HIDE DEF Good
    <3> QED
      BY <1>0, <2>1
  <2> QED
    BY <2>2
<1> DEFINE f == CHOOSE g : RunsTo(g, n)
<1>5. Replayed(queue, placed) = f[n]
  BY DEF Replayed
<1> HIDE DEF RunsTo
<1>6. RunsTo(f, n)
  BY <1>3, Zenon
<1> HIDE DEF f
<1>7. f = [k \in 0 .. n |-> IF k = 0 THEN <<>> ELSE Step(f[k - 1], k)]
  BY <1>6 DEF RunsTo
<1>8. 0 \in 0 .. n /\ \A k \in 1 .. n : k \in 0 .. n /\ k # 0
  BY <1>0
<1>9. Replaying(f, queue, placed, n)
  <2>1. f[0] = <<>>
    BY <1>7, <1>8
  <2>2. \A k \in 1 .. n : f[k] = Step(f[k - 1], k)
    <3> HIDE DEF Step
    <3> QED
      BY <1>7, <1>8
  <2> QED
    BY <2>1, <2>2 DEF Replaying
<1> QED
  BY <1>5, <1>9

\* Every operation is replayed for, and no order twice.
LEMMA ReplayedIs ==
  ASSUME NEW queue \in Seq(Operations), NEW placed \in Seq(Hashes), IsInjective(placed)
  PROVE  /\ Replayed(queue, placed) \in Seq(Hashes) /\ IsInjective(Replayed(queue, placed))
         /\ ToSet(Replayed(queue, placed)) = ReplaySet(queue, placed)
  <1> DEFINE n == Len(queue)
  <1>1. n \in Nat /\ DOMAIN queue = 1 .. n /\ \A k \in 1 .. n : queue[k] \in Operations
    OBVIOUS
  <1>2. PICK f : Replayed(queue, placed) = f[n] /\ Replaying(f, queue, placed, n)
    BY <1>1, ReplayRuns
  <1> HIDE DEF n
  <1> DEFINE Upto(k) == UNION {ReplayFor(queue[i], placed) : i \in 1 .. k}
             Fine(k) == f[k] \in Seq(Hashes) /\ IsInjective(f[k]) /\ ToSet(f[k]) = Upto(k)
             Good == {k \in 0 .. n : Fine(k)}
  <1>3. 0 \in Good
    <2>1. <<>> \in Seq(Hashes) /\ ToSet(<<>>) = {} /\ IsInjective(<<>>)
      BY DEF ToSet, IsInjective
    <2>2. Upto(0) = {}
      OBVIOUS
    <2>3. f[0] = <<>>
      BY <1>2 DEF Replaying
    <2> HIDE DEF Upto
    <2>4. 0 \in 0 .. n
      BY <1>1
    <2>5. Fine(0)
      BY <2>1, <2>2, <2>3
    <2> QED
      BY <2>4, <2>5
  <1>4. ASSUME NEW k \in 1 .. n, k - 1 \in Good PROVE k \in Good
    <2> DEFINE o == ReplayedFor(queue[k], placed)
               S == ToSet(o) \ ToSet(f[k - 1])
               s == Keep(o, S)
    <2>1. f[k] = f[k - 1] \o s
      BY <1>2 DEF Replaying
    <2>2. Fine(k - 1) /\ queue[k] \in Operations
      BY <1>1, <1>4
    <2>3. o \in Seq(Hashes) /\ IsInjective(o) /\ ToSet(o) = ReplayFor(queue[k], placed)
      BY <2>2, ReplayedForIs DEF ReplayFor
    <2>4. s \in Seq(Hashes) /\ ToSet(s) = ToSet(o) \cap S /\ IsInjective(s)
      <3> HIDE DEF o, S
      <3> QED
        BY <2>3, KeepIs
    <2>5. ToSet(s) = ToSet(o) \ ToSet(f[k - 1]) /\ ToSet(f[k - 1]) \cap ToSet(s) = {}
      <3> HIDE DEF o, s
      <3> QED
        BY <2>4
    <2> HIDE DEF o, s, S
    <2>6. f[k] \in Seq(Hashes) /\ ToSet(f[k]) = ToSet(f[k - 1]) \cup ToSet(s)
      BY <2>1, <2>2, <2>4, ConcatSet
    <2>7. IsInjective(f[k])
      BY <2>1, <2>2, <2>4, <2>5, DisjointConcat
    <2>8. Upto(k) = Upto(k - 1) \cup ReplayFor(queue[k], placed)
      <3>1. 1 .. k = (1 .. k - 1) \cup {k}
        BY <1>1
      <3> QED
        BY <3>1
    <2>9. k \in 0 .. n
      BY <1>1
    <2> HIDE DEF Upto
    <2>10. ToSet(f[k]) = Upto(k)
      BY <2>2, <2>3, <2>5, <2>6, <2>8
    <2> QED
      BY <2>6, <2>7, <2>9, <2>10
  <1>5. \A k \in 0 .. n : k \in Good
    <2> HIDE DEF Good
    <2> QED
      BY <1>1, <1>3, <1>4, Induct
  <1>6. Fine(n) /\ Upto(n) = ReplaySet(queue, placed)
    <2>1. n \in Good
      <3> HIDE DEF Good
      <3> QED
        BY <1>1, <1>5
    <2>2. Upto(n) = ReplaySet(queue, placed)
      BY <1>1 DEF ReplaySet
    <2> HIDE DEF Upto
    <2> QED
      BY <2>1, <2>2
  <1> HIDE DEF Upto
  <1> QED
    BY <1>2, <1>6

\* Post-only orders first: the same orders, none twice.
LEMMA ToPlaceIs ==
  ASSUME NEW a \in Seq(Hashes), NEW b \in Seq(Hashes)
  PROVE  /\ ToPlace(a, b) \in Seq(Hashes) /\ ToSet(ToPlace(a, b)) = ToSet(a) \cup ToSet(b)
         /\ IsInjective(a) /\ IsInjective(b) /\ ToSet(a) \cap ToSet(b) = {}
              => IsInjective(ToPlace(a, b))
  <1> DEFINE t == a \o b
             F == {h \in ToSet(t) : IsPostOnly(h)}
             G == ToSet(t) \ F
             x == Keep(t, F)
             y == Keep(t, G)
  <1>1. ToPlace(a, b) = x \o y
    BY DEF ToPlace
  <1>2. t \in Seq(Hashes) /\ ToSet(t) = ToSet(a) \cup ToSet(b)
    BY ConcatSet
  <1>3. ToSet(t) \cap F = F /\ ToSet(t) \cap G = G /\ F \cap G = {} /\ F \cup G = ToSet(t)
    OBVIOUS
  <1>4. IsInjective(a) /\ IsInjective(b) /\ ToSet(a) \cap ToSet(b) = {} => IsInjective(t)
    BY DisjointConcat
  <1> HIDE DEF t, F, G
  <1>5. /\ x \in Seq(Hashes) /\ ToSet(x) = ToSet(t) \cap F /\ (IsInjective(t) => IsInjective(x))
        /\ y \in Seq(Hashes) /\ ToSet(y) = ToSet(t) \cap G /\ (IsInjective(t) => IsInjective(y))
    BY <1>2, KeepIs
  <1> HIDE DEF x, y
  <1>6. x \o y \in Seq(Hashes) /\ ToSet(x \o y) = ToSet(x) \cup ToSet(y)
    BY <1>5, ConcatSet
  <1>7. IsInjective(t) => IsInjective(x \o y)
    BY <1>3, <1>5, DisjointConcat
  <1> QED
    BY <1>1, <1>2, <1>3, <1>4, <1>5, <1>6, <1>7

\* Each position is tried at most once.
LEMMA LiquidatableIs ==
  ASSUME NEW l \in Liquidatable
  PROVE  l \in Seq(Liquidations) /\ IsInjective(l)
  <1>1. PICK k \in 0 .. Cardinality(Liquidations) : l \in Injection(1 .. k, Liquidations)
    BY DEF Liquidatable, Liquidations
  <1>2. k \in Nat
    BY <1>1, MemClobAssumption, FS_CardinalityType DEF Liquidations
  <1>3. l \in [1 .. k -> Liquidations] /\ \A i, j \in 1 .. k : l[i] = l[j] => i = j
    BY <1>1 DEF Injection, IsInjective
  <1> QED
    BY <1>2, <1>3 DEF IsInjective

-----------------------------------------------------------------------------
(* The queue is dropped and the book purged.                               *)

\* The operation is queued.
InQueue(M, op) == \E i \in DOMAIN M.queue : M.queue[i] = op
Preexisting(M) == {h \in ToSet(M.book) : InQueue(M, [op |-> "preexisting", id |-> Id(h)])}
NothingMatched == [id \in Ids |-> None]

\* The queue is gone, with the orders it names.
Dropped(M, N) ==
  /\ N \in Mems /\ ~N.panicked
  /\ ToSet(N.book) = {h \in ToSet(M.book) : h \notin M.queued \/ IsStateful(h)} \ Preexisting(M)
  /\ N.queue = <<>> /\ N.queued = {} /\ N.removals = {} /\ N.matched = NothingMatched
  /\ N.cancels = M.cancels
  /\ \A h \in Hashes : h \in N.bytes <=> ~IsStateful(h) /\ h \in ToSet(N.book)

\* RemoveAndClearOperationsQueue does not panic, and leaves what is not queued.
LEMMA ClearQueueDoes ==
  ASSUME NEW M, NEW fills, MemOK(M, fills)
  PROVE  Dropped(M, ClearQueue(M))
  <1> DEFINE Book == ToSet(M.book)
             Placed == {h \in Hashes : InQueue(M, [op |-> "place", order |-> h])}
             Gone0 == Placed \ Book
             P == \/ M.panicked \/ ~OncePlaced(M.queue) \/ ~(Placed \ Book \subseteq M.bytes)
             C == [M EXCEPT !.queue = <<>>, !.queued = {}, !.removals = {},
                            !.matched = NothingMatched, !.bytes = @ \ Gone0, !.panicked = P]
             S == (Placed \cap Book) \cup Preexisting(M)
             N == RemoveAll(C, S)
  <1>1. ClearQueue(M) = N
    BY DEF ClearQueue, InQueue, OncePlaced, Preexisting, NothingMatched
  <1>2. M \in Mems /\ ~M.panicked /\ Book \subseteq Hashes
    BY BookType DEF MemOK
  <1>3. \A h \in Hashes : h \in Placed <=> h \in M.queued /\ ~IsStateful(h)
    BY DEF MemOK, PlacedOnce, PlaceOp, ToSet, InQueue
  <1>4. \A h \in Hashes : h \in M.bytes <=> ~IsStateful(h) /\ (h \in Book \/ h \in M.queued)
    BY DEF MemOK, BytesKept
  <1>5. OncePlaced(M.queue)
    BY DEF MemOK, PlacedOnce
  <1>6. Placed \subseteq Hashes
    OBVIOUS
  <1> HIDE DEF Placed, Book
  <1>7. ~P /\ P \in BOOLEAN
    BY <1>2, <1>3, <1>4, <1>5, <1>6
  <1>8. <<>> \in Seq(Operations) /\ NothingMatched \in [Ids -> Hashes \cup {None}]
    BY DEF NothingMatched
  <1> HIDE DEF P
  <1>9. /\ C \in Mems /\ C.book = M.book /\ C.queue = <<>> /\ C.queued = {} /\ C.removals = {}
        /\ C.matched = NothingMatched /\ C.cancels = M.cancels /\ C.bytes = M.bytes \ Gone0
        /\ C.panicked = P
    BY <1>2, <1>7, <1>8 DEF Mems
  <1>10. ToSet(C.book) = Book
    BY <1>9 DEF Book
  <1> HIDE DEF C
  <1>11. S \subseteq Book
    BY DEF Preexisting, Book
  <1>12. \A h \in S : ~IsStateful(h) /\ h \notin C.queued => h \in C.bytes
    BY <1>2, <1>4, <1>9, <1>11
  <1> HIDE DEF S
  <1>13. /\ N \in Mems /\ ToSet(N.book) = Book \ S /\ N.queue = <<>> /\ N.queued = {}
         /\ N.removals = {} /\ N.matched = NothingMatched /\ N.cancels = M.cancels
         /\ N.bytes = C.bytes \ {h \in S : ~IsStateful(h) /\ h \notin C.queued} /\ ~N.panicked
    BY <1>7, <1>9, <1>10, <1>11, <1>12, RemoveAllDoes
  <1> HIDE DEF N
  <1>14. ToSet(N.book) = {h \in Book : h \notin M.queued \/ IsStateful(h)} \ Preexisting(M)
    BY <1>2, <1>3, <1>13 DEF S
  <1>15. \A h \in Hashes : h \in N.bytes <=> ~IsStateful(h) /\ h \in ToSet(N.book)
    BY <1>3, <1>4, <1>9, <1>13 DEF S
  <1> QED
    BY <1>1, <1>13, <1>14, <1>15 DEF Dropped, Book

\* The orders that leave the book of M with the block d at height hgt.
Purging(M, d, hgt) ==
  {g \in ToSet(M.book) : \/ Id(g) \in d.filled /\ d.fill[Id(g)] >= Order(g).size
                         \/ Id(g) \in d.removed
                         \/ ~IsStateful(g) /\ Order(g).goodTil = hgt}

\* The memclob after PurgeInvalidMemclobState.
Purged(M, d, hgt, N) ==
  /\ N \in Mems /\ ~N.panicked
  /\ ToSet(N.book) = ToSet(M.book) \ Purging(M, d, hgt)
  /\ N.queue = <<>> /\ N.queued = {} /\ N.removals = {} /\ N.matched = NothingMatched
  /\ \A id \in ShortTermIds : N.cancels[id] = IF M.cancels[id] = hgt THEN 0 ELSE M.cancels[id]
  /\ \A h \in Hashes : h \in N.bytes <=> ~IsStateful(h) /\ h \in ToSet(N.book)

\* PurgeInvalidMemclobState does not panic.
LEMMA PurgeDoes ==
  ASSUME NEW L, NEW M, Dropped(L, M), NEW d, NEW hgt
  PROVE  Purged(M, d, hgt, Purge(M, d, hgt))
  <1> DEFINE Filled == {g \in ToSet(M.book) : Id(g) \in d.filled /\ d.fill[Id(g)] >= Order(g).size}
             Off == {g \in ToSet(M.book) : Id(g) \in d.removed}
             Expired == {g \in ToSet(M.book) : ~IsStateful(g) /\ Order(g).goodTil = hgt}
             S == Filled \cup Off \cup Expired
             R == RemoveAll(M, S)
             c == [id \in ShortTermIds |-> IF M.cancels[id] = hgt THEN 0 ELSE M.cancels[id]]
             N == [R EXCEPT !.cancels = c]
  <1>1. M \in Mems /\ ToSet(M.book) \subseteq Hashes /\ ~M.panicked
    BY BookType DEF Dropped
  <1>2. S = Purging(M, d, hgt) /\ S \subseteq ToSet(M.book)
    BY DEF Purging
  <1>3. \A h \in S : ~IsStateful(h) /\ h \notin M.queued => h \in M.bytes
    BY <1>1, <1>2 DEF Dropped
  <1>4. Purge(M, d, hgt) = [RemoveAll(M, S) EXCEPT
           !.cancels = [id \in ShortTermIds |-> IF @[id] = hgt THEN 0 ELSE @[id]]]
    BY DEF Purge
  <1> HIDE DEF S
  <1>5. /\ R \in Mems /\ ToSet(R.book) = ToSet(M.book) \ S /\ R.queue = M.queue
        /\ R.queued = M.queued /\ R.removals = M.removals /\ R.matched = M.matched
        /\ R.cancels = M.cancels /\ ~R.panicked
        /\ R.bytes = M.bytes \ {h \in S : ~IsStateful(h) /\ h \notin M.queued}
    BY <1>1, <1>2, <1>3, RemoveAllDoes
  <1>6. M.cancels \in [ShortTermIds -> Nat]
    BY <1>1 DEF Mems
  <1>7. c \in [ShortTermIds -> Nat]
    BY <1>6
  <1>8. Purge(M, d, hgt) = N
    BY <1>4, <1>5
  <1> HIDE DEF R
  <1>9. \A id \in ShortTermIds : c[id] = IF M.cancels[id] = hgt THEN 0 ELSE M.cancels[id]
    OBVIOUS
  <1> HIDE DEF c
  <1>10. /\ N \in Mems /\ N.book = R.book /\ N.queue = R.queue /\ N.queued = R.queued
         /\ N.removals = R.removals /\ N.matched = R.matched /\ N.bytes = R.bytes
         /\ N.panicked = R.panicked /\ N.cancels = c
    BY <1>5, <1>7 DEF Mems
  <1> HIDE DEF N
  <1>11. \A h \in Hashes : h \in N.bytes <=> ~IsStateful(h) /\ h \in ToSet(N.book)
    BY <1>2, <1>5, <1>10 DEF Dropped
  <1>12. N.queue = <<>> /\ N.queued = {} /\ N.removals = {} /\ N.matched = NothingMatched
    BY <1>5, <1>10 DEF Dropped
  <1> QED
    BY <1>2, <1>5, <1>8, <1>9, <1>10, <1>11, <1>12 DEF Purged

\* Once the block is settled, what is left on the book is still good.
LEMMA SettledOK ==
  ASSUME NEW M, NEW fills, MemOK(M, fills), NEW c, NEW d, Settling(c, d), NEW hgt \in Nat,
         \A id \in Ids : fills[id] >= c.fill[id],
         NEW N, N = Purge(ClearQueue(M), d, hgt)
  PROVE  /\ MemOK(N, d.fill) /\ N.queue = <<>>
         /\ ToSet(N.book) \subseteq ToSet(M.book) \ Purging(M, d, hgt)
  <1> DEFINE C == ClearQueue(M)
  <1>1. Dropped(M, C)
    BY ClearQueueDoes
  <1> HIDE DEF C
  <1>2. Purged(C, d, hgt, N)
    BY <1>1, PurgeDoes DEF C
  <1>3. M \in Mems /\ ToSet(M.book) \subseteq Hashes
    BY BookType DEF MemOK
  <1>4. ToSet(N.book) \subseteq ToSet(M.book) /\ ToSet(N.book) \cap Purging(M, d, hgt) = {}
    BY <1>1, <1>2 DEF Dropped, Purged, Purging
  <1>5. N \in Mems /\ ~N.panicked /\ N.queue = <<>> /\ N.queued = {} /\ N.matched = NothingMatched
    BY <1>2 DEF Purged
  <1>6. d.fill \in Fillings /\ c.fill \in Fillings /\ fills \in Fillings
    BY DEF Settling, Deliveries, MemOK
  <1>7. Unfilled(N, d.fill)
    <2> SUFFICES ASSUME NEW h \in ToSet(N.book) PROVE d.fill[Id(h)] < Order(h).size
      BY DEF Unfilled
    <2>1. h \in ToSet(M.book) /\ h \in Hashes /\ h \notin Purging(M, d, hgt)
      BY <1>3, <1>4
    <2>2. Id(h) \in Ids /\ Order(h).size \in Nat
      BY <2>1, OrderTypes
    <2>3. Id(h) \notin d.removed /\ (Id(h) \in d.filled => ~(d.fill[Id(h)] >= Order(h).size))
      BY <2>1 DEF Purging
    <2>4. d.fill[Id(h)] \in Nat /\ c.fill[Id(h)] \in Nat /\ fills[Id(h)] \in Nat
      BY <1>6, <2>2 DEF Fillings
    <2>5. fills[Id(h)] >= c.fill[Id(h)] /\ fills[Id(h)] < Order(h).size
      BY <2>1, <2>2 DEF MemOK, Unfilled
    <2>6. Id(h) \in d.filled \/ d.fill[Id(h)] = c.fill[Id(h)]
      BY <2>2, <2>3 DEF Settling
    <2> QED
      BY <2>2, <2>3, <2>4, <2>5, <2>6
  <1>8. Uncancelled(N)
    <2> SUFFICES ASSUME NEW h \in ToSet(N.book), ~IsStateful(h)
                 PROVE  N.cancels[Id(h)] < Order(h).goodTil
      BY DEF Uncancelled
    <2>1. h \in ToSet(M.book) /\ h \in Hashes
      BY <1>3, <1>4
    <2>2. Id(h) \in ShortTermIds /\ Order(h).goodTil \in Nat
      BY <2>1, OrderTypes
    <2>3. M.cancels[Id(h)] < Order(h).goodTil /\ M.cancels[Id(h)] \in Nat
      BY <1>3, <2>1, <2>2 DEF MemOK, Uncancelled, Mems
    <2>4. N.cancels[Id(h)] = 0 \/ N.cancels[Id(h)] = M.cancels[Id(h)]
      BY <1>1, <1>2, <2>2 DEF Purged, Dropped
    <2> QED
      BY <2>2, <2>3, <2>4
  <1>9. \A id \in Ids : N.matched[id] = None
    BY <1>5 DEF NothingMatched
  <1>10. DistinctIds(ToSet(N.book)) /\ Uncrossed(N)
    BY <1>4 DEF MemOK, DistinctIds, Uncrossed
  <1>11. BytesKept(N)
    BY <1>2, <1>5 DEF BytesKept, Purged
  <1>12. QueuedKnown(N) /\ RestingKnown(N)
    <2>1. \A h \in ToSet(N.book) : Id(h) \in Ids
      BY <1>3, <1>4, OrderTypes
    <2> QED
      BY <1>5, <1>9, <2>1 DEF QueuedKnown, RestingKnown
  <1>13. PlacedOnce(N)
    <2>1. ToSet(N.queue) = {} /\ OncePlaced(N.queue)
      BY <1>5 DEF ToSet, OncePlaced
    <2> QED
      BY <1>5, <2>1 DEF PlacedOnce
  <1> QED
    BY <1>4, <1>5, <1>6, <1>7, <1>8, <1>10, <1>11, <1>12, <1>13 DEF MemOK

-----------------------------------------------------------------------------
(* The state between steps.                                                *)

\* The stateful orders of S are in state.
InState(S, c) == \A h \in S : h \in Hashes /\ IsStateful(h) => h \in ToSet(c.placed)

\* The memclob is sound, and the CheckTx state is ahead of the committed state.
StateOK ==
  /\ height \in Nat /\ phase \in {"prepare", "open"}
  /\ ChainOK(chain) /\ MemOK(mem, fill)
  /\ pending \in Seq(Hashes \cup Liquidations)
  /\ \A id \in Ids : fill[id] >= chain.fill[id]
  /\ InState(ToSet(mem.book), chain) /\ InState(ToSet(pending), chain)
  /\ phase = "open" => pending = <<>>

\* validateNewOrder lets only an order pass that may be matched.
LEMMA Admits ==
  ASSUME StateOK, NEW h \in Hashes, ValidNewOrder(mem, fill, h),
         IsStateful(h) => h \in ToSet(chain.placed)
  PROVE  Admitted(mem, fill, h)
  <1>1. mem \in Mems /\ fill \in Fillings /\ Id(h) \in Ids /\ Order(h).size \in Nat
        /\ Order(h).goodTil \in Nat /\ h \in Nat
    BY OrderTypes DEF StateOK, MemOK
  <1>2. fill[Id(h)] < Order(h).size
    <2>1. Remaining(h, fill) # 0 /\ fill[Id(h)] \in Nat
      BY <1>1, RemainingType DEF ValidNewOrder
    <2>2. ~(fill[Id(h)] >= Order(h).size)
      BY <1>1, <2>1, RemainingType
    <2> QED
      BY <1>1, <2>1, <2>2
  <1>3. mem.matched[Id(h)] = None \/ IsReplacedBy(mem.matched[Id(h)], h)
    BY DEF ValidNewOrder, ValidReplacement
  <1>4. ASSUME NEW g \in RestingWith(mem, Id(h)) PROVE ~IsStateful(g) /\ IsReplacedBy(g, h)
    <2>1. IsReplacedBy(g, h)
      BY DEF ValidNewOrder, ValidReplacement
    <2>2. g \in ToSet(mem.book) /\ Id(g) = Id(h) /\ g \in Hashes
      BY <1>1, BookType DEF RestingWith
    <2>3. ASSUME IsStateful(g) PROVE FALSE
      <3>1. g \in ToSet(chain.placed) /\ h \in ToSet(chain.placed)
        BY <2>2, <2>3, SameId DEF StateOK, InState
      <3>2. g = h
        BY <2>2, <3>1 DEF StateOK, ChainOK, DistinctIds
      <3> QED
        BY <1>1, <2>1, <3>2 DEF IsReplacedBy
    <2> QED
      BY <2>1, <2>3
  <1> QED
    BY <1>2, <1>3, <1>4 DEF Admitted, ValidNewOrder

\* What a step that matches an order keeps.
LEMMA ServedOK ==
  ASSUME StateOK, NEW taker, Served(mem, fill, taker, mem', fill'), InState({taker}, chain),
         UNCHANGED <<height, phase, chain>>,
         pending' = pending \/ (pending # <<>> /\ pending' = Tail(pending))
  PROVE  StateOK'
  <1>1. height' = height /\ phase' = phase /\ chain' = chain
    OBVIOUS
  <1>2. MemOK(mem', fill') /\ (\A id \in Ids : fill'[id] >= fill[id])
        /\ ToSet(mem'.book) \subseteq ToSet(mem.book) \cup {taker}
    BY DEF Served
  <1>3. \A id \in Ids : fill'[id] >= chain.fill[id]
    <2>1. fill \in Fillings /\ fill' \in Fillings /\ chain.fill \in Fillings
      BY <1>2 DEF StateOK, MemOK, ChainOK, Chains
    <2> SUFFICES ASSUME NEW id \in Ids PROVE fill'[id] >= chain.fill[id]
      OBVIOUS
    <2>2. fill[id] \in Nat /\ fill'[id] \in Nat /\ chain.fill[id] \in Nat
      BY <2>1 DEF Fillings
    <2>3. fill'[id] >= fill[id] /\ fill[id] >= chain.fill[id]
      BY <1>2 DEF StateOK
    <2> QED
      BY <2>2, <2>3
  <1>4. InState(ToSet(mem'.book), chain)
    BY <1>2 DEF StateOK, InState
  <1>5. pending' \in Seq(Hashes \cup Liquidations) /\ ToSet(pending') \subseteq ToSet(pending)
    <2>1. pending \in Seq(Hashes \cup Liquidations)
      BY DEF StateOK
    <2>2. CASE pending # <<>> /\ pending' = Tail(pending)
      <3>1. pending' \in Seq(Hashes \cup Liquidations) /\ DOMAIN pending' = 1 .. Len(pending) - 1
            /\ DOMAIN pending = 1 .. Len(pending) /\ Len(pending) \in Nat
            /\ \A i \in DOMAIN pending' : pending'[i] = pending[i + 1]
        BY <2>1, <2>2
      <3>2. \A i \in DOMAIN pending' : i + 1 \in DOMAIN pending
        BY <3>1
      <3> QED
        BY <3>1, <3>2 DEF ToSet
    <2> QED
      BY <2>1, <2>2
  <1>6. InState(ToSet(pending'), chain)
    BY <1>5 DEF StateOK, InState
  <1>7. phase' = "open" => pending' = <<>>
    BY <1>1 DEF StateOK
  <1> QED
    BY <1>1, <1>2, <1>3, <1>4, <1>5, <1>6, <1>7 DEF StateOK

\* The next pending order.
LEMMA HeadPending ==
  ASSUME StateOK, pending # <<>>
  PROVE  Head(pending) \in Hashes \cup Liquidations /\ Head(pending) \in ToSet(pending)
  <1>1. pending \in Seq(Hashes \cup Liquidations)
    BY DEF StateOK
  <1>2. Head(pending) \in Hashes \cup Liquidations /\ 1 \in DOMAIN pending /\ Head(pending) = pending[1]
    BY <1>1
  <1> QED
    BY <1>2 DEF ToSet

\* Placing an order that validateNewOrder lets pass.
LEMMA PlaceOK ==
  ASSUME StateOK, NEW h \in Hashes, NEW fate \in Fatings(mem, h), PlaceOrder(h, fate),
         IsStateful(h) => h \in ToSet(chain.placed)
  PROVE  Served(mem, fill, h, mem', fill')
  <1>1. ValidNewOrder(mem, fill, h)
    BY DEF PlaceOrder
  <1>2. PICK K : /\ K = MatchOrder(mem, fill, h, fate)
                 /\ mem' = Rest(K.mem, K.fill, h, K.left, K.status) /\ fill' = K.fill
    BY DEF PlaceOrder
  <1>3. Admitted(mem, fill, h) /\ MemOK(mem, fill)
    BY <1>1, Admits DEF StateOK
  <1> QED
    BY <1>2, <1>3, PlaceServes

\* A short-term order is placed.
LEMMA PlaceShortTermOK ==
  ASSUME StateOK, NEW h \in Hashes, NEW fate \in Fatings(mem, h), PlaceShortTermOrder(h, fate)
  PROVE  StateOK' /\ InTurn(mem, mem')
  <1>1. Served(mem, fill, h, mem', fill')
    BY PlaceOK DEF PlaceShortTermOrder
  <1>2. InState({h}, chain)
    BY DEF InState, PlaceShortTermOrder
  <1> QED
    BY <1>1, <1>2, ServedOK DEF PlaceShortTermOrder, Served

\* No operation is queued.
LEMMA NoneQueued ==
  ASSUME NEW M, NEW N, DOMAIN N.queue \subseteq DOMAIN M.queue
  PROVE  InTurn(M, N)
  BY DEF InTurn

\* A pending order is placed.
LEMMA PlaceNextOK ==
  ASSUME StateOK, pending # <<>>, NEW fate \in Fatings(mem, Head(pending)), NEW hasPosition,
         PlaceNext(fate, hasPosition)
  PROVE  StateOK' /\ InTurn(mem, mem')
  <1> DEFINE h == Head(pending)
  <1>1. h \in Hashes /\ h \in ToSet(pending)
    BY HeadPending DEF PlaceNext, IsLiquidation
  <1>2. pending' = Tail(pending) /\ UNCHANGED <<height, phase, chain>> /\ fate \in Fatings(mem, h)
    BY DEF PlaceNext
  <1>3. PlaceOrder(h, fate) \/ UNCHANGED <<mem, fill>>
    BY DEF PlaceNext
  <1> HIDE DEF h
  <1>4. InState({h}, chain)
    BY <1>1 DEF StateOK, InState
  <1>5. Served(mem, fill, h, mem', fill')
    <2>1. CASE PlaceOrder(h, fate)
      BY <1>1, <1>2, <1>4, <2>1, PlaceOK DEF InState
    <2>2. CASE UNCHANGED <<mem, fill>>
      <3>1. InTurn(mem, mem')
        BY <2>2, NoneQueued
      <3>2. \A id \in Ids : fill[id] \in Nat
        BY DEF StateOK, MemOK, Fillings
      <3> QED
        BY <2>2, <3>1, <3>2 DEF StateOK, Served
    <2> QED
      BY <1>3, <2>1, <2>2
  <1> QED
    BY <1>2, <1>4, <1>5, ServedOK DEF Served

\* A subaccount is liquidated.
LEMMA LiquidateOK ==
  ASSUME StateOK, pending # <<>>, NEW fate \in Fatings(mem, Head(pending)), Liquidate(fate)
  PROVE  StateOK' /\ InTurn(mem, mem')
  <1> DEFINE l == Head(pending)
  <1>1. l \in Liquidations /\ l \notin Hashes
    BY HeadPending DEF Liquidate, IsLiquidation
  <1>2. pending' = Tail(pending) /\ UNCHANGED <<height, phase, chain>> /\ fate \in Fatings(mem, l)
    BY DEF Liquidate
  <1>3. PICK K : K = MatchOrder(mem, fill, l, fate) /\ mem' = K.mem /\ fill' = K.fill
    BY DEF Liquidate
  <1> HIDE DEF l
  <1>4. Served(mem, fill, l, mem', fill')
    BY <1>1, <1>2, <1>3, LiquidateServes DEF StateOK
  <1>5. InState({l}, chain)
    BY <1>1 DEF InState
  <1> QED
    BY <1>2, <1>4, <1>5, ServedOK DEF Served

\* Short-term orders left the book, and nothing else changed.
Pruned(M, N) ==
  /\ N.queue = M.queue /\ N.queued = M.queued /\ N.removals = M.removals /\ N.matched = M.matched
  /\ ToSet(N.book) \subseteq ToSet(M.book)
  /\ \A h \in ToSet(M.book) : IsStateful(h) => h \in ToSet(N.book)

\* A cancel takes the orders it covers off the book.
LEMMA CancelOK ==
  ASSUME StateOK, NEW id \in ShortTermIds, NEW gtb \in Nat, CancelShortTermOrder(id, gtb)
  PROVE  StateOK' /\ InTurn(mem, mem') /\ Pruned(mem, mem')
  <1> DEFINE S == {h \in RestingWith(mem, id) : Order(h).goodTil =< gtb}
             R == RemoveAll(mem, S)
             c == [mem.cancels EXCEPT ![id] = gtb]
             N == [R EXCEPT !.cancels[id] = gtb]
  <1>1. mem' = N /\ UNCHANGED <<height, phase, chain, fill, pending>>
    BY DEF CancelShortTermOrder
  <1>2. mem \in Mems /\ fill \in Fillings /\ ~mem.panicked /\ ToSet(mem.book) \subseteq Hashes
    BY BookType DEF StateOK, MemOK
  <1>3. S \subseteq ToSet(mem.book)
    BY DEF RestingWith
  <1>4. \A h \in S : ~IsStateful(h) /\ h \notin mem.queued => h \in mem.bytes
    BY <1>2, <1>3 DEF StateOK, MemOK, BytesKept
  <1> HIDE DEF S
  <1>5. /\ R \in Mems /\ ToSet(R.book) = ToSet(mem.book) \ S /\ R.queue = mem.queue
        /\ R.queued = mem.queued /\ R.removals = mem.removals /\ R.matched = mem.matched
        /\ R.cancels = mem.cancels /\ ~R.panicked
        /\ R.bytes = mem.bytes \ {h \in S : ~IsStateful(h) /\ h \notin mem.queued}
    BY <1>2, <1>3, <1>4, RemoveAllDoes
  <1> HIDE DEF R
  <1>6. c \in [ShortTermIds -> Nat] /\ \A i \in ShortTermIds : c[i] = IF i = id THEN gtb ELSE mem.cancels[i]
    BY <1>2 DEF Mems
  <1>7. N = [R EXCEPT !.cancels = c]
    BY <1>5 DEF Mems
  <1> HIDE DEF c
  <1>8. /\ N \in Mems /\ N.book = R.book /\ N.queue = R.queue /\ N.queued = R.queued
        /\ N.removals = R.removals /\ N.matched = R.matched /\ N.bytes = R.bytes
        /\ N.panicked = R.panicked /\ N.cancels = c
    BY <1>5, <1>6, <1>7 DEF Mems
  <1> HIDE DEF N
  <1>9. ToSet(N.book) = ToSet(mem.book) \ S
    BY <1>5, <1>8
  <1>10. Uncancelled(N)
    <2> SUFFICES ASSUME NEW h \in ToSet(N.book), ~IsStateful(h)
                 PROVE  N.cancels[Id(h)] < Order(h).goodTil
      BY DEF Uncancelled
    <2>1. h \in ToSet(mem.book) /\ h \in Hashes /\ h \notin S
      BY <1>2, <1>9
    <2>2. Id(h) \in ShortTermIds /\ Order(h).goodTil \in Nat
      BY <2>1, OrderTypes
    <2>3. CASE Id(h) = id
      <3>1. N.cancels[Id(h)] = gtb
        BY <1>6, <1>8, <2>2, <2>3
      <3>2. ~(Order(h).goodTil =< gtb)
        BY <2>1, <2>3 DEF S, RestingWith
      <3> QED
        BY <2>2, <3>1, <3>2
    <2>4. CASE Id(h) # id
      BY <1>6, <1>8, <2>1, <2>2, <2>4 DEF StateOK, MemOK, Uncancelled
    <2> QED
      BY <2>3, <2>4
  <1>11. BytesKept(N)
    BY <1>5, <1>8, <1>9 DEF StateOK, MemOK, BytesKept
  <1>12. QueuedKnown(N) /\ RestingKnown(N) /\ Unfilled(N, fill) /\ Uncrossed(N)
         /\ DistinctIds(ToSet(N.book)) /\ PlacedOnce(N)
    BY <1>5, <1>8, <1>9
       DEF StateOK, MemOK, QueuedKnown, RestingKnown, Unfilled, Uncrossed, DistinctIds, PlacedOnce
  <1>13. MemOK(N, fill)
    BY <1>2, <1>5, <1>8, <1>10, <1>11, <1>12 DEF MemOK
  <1>14. InTurn(mem, N) /\ N.queue = mem.queue
    BY <1>5, <1>8, NoneQueued
  <1>15. InState(ToSet(N.book), chain)
    BY <1>9 DEF StateOK, InState
  <1>16. StateOK'
    BY <1>1, <1>13, <1>15 DEF StateOK
  <1>17. Pruned(mem, N)
    <2>1. \A h \in S : ~IsStateful(h)
      BY <1>2, OrderTypes DEF S, RestingWith
    <2> QED
      BY <1>5, <1>8, <1>9, <2>1 DEF Pruned
  <1> QED
    BY <1>1, <1>14, <1>16, <1>17

\* At most one stateful order is newly placed.
LEMMA NewlyPlacedIs ==
  ASSUME NEW new \in NewlyPlaced
  PROVE  /\ new \in Seq(Hashes) /\ IsInjective(new) /\ \A h \in ToSet(new) : IsStateful(h)
         /\ \A g, h \in ToSet(new) : g = h
  <1>1. CASE new = <<>>
    <2>1. ToSet(<<>>) = {} /\ IsInjective(<<>>) /\ <<>> \in Seq(Hashes)
      BY DEF ToSet, IsInjective
    <2> QED
      BY <1>1, <2>1
  <1>2. CASE new # <<>>
    <2>1. PICK h \in Hashes : IsStateful(h) /\ new = <<h>>
      BY <1>2 DEF NewlyPlaced
    <2>2. <<h>> \in Seq(Hashes) /\ ToSet(<<h>>) = {h}
      BY SingletonSet
    <2>3. IsInjective(<<h>>)
      BY DEF IsInjective
    <2> QED
      BY <2>1, <2>2, <2>3
  <1> QED
    BY <1>1, <1>2

\* The committed state after a block.
LEMMA BlockOK ==
  ASSUME NEW c, ChainOK(c), NEW d, Settling(c, d), NEW new \in NewlyPlaced,
         \A h \in ToSet(new) : MayPlace(d, h),
         NEW after, after = [fill |-> d.fill, placed |-> d.placed \o new]
  PROVE  /\ ChainOK(after) /\ after.fill = d.fill
         /\ ToSet(after.placed) = ToSet(d.placed) \cup ToSet(new)
         /\ \A h \in ToSet(new) : d.fill[Id(h)] = 0
  <1>1. d.fill \in Fillings /\ d.placed \in Seq(Hashes) /\ IsInjective(d.placed)
        /\ ToSet(d.placed) \subseteq ToSet(c.placed) /\ Rooted(d)
    BY DEF Settling, Deliveries
  <1>2. /\ new \in Seq(Hashes) /\ IsInjective(new) /\ (\A h \in ToSet(new) : IsStateful(h))
        /\ \A g, h \in ToSet(new) : g = h
    BY NewlyPlacedIs
  <1>3. d.placed \o new \in Seq(Hashes) /\ ToSet(d.placed \o new) = ToSet(d.placed) \cup ToSet(new)
    BY <1>1, <1>2, ConcatSet
  <1>4. \A h \in ToSet(new), g \in ToSet(d.placed) : Id(g) # Id(h)
    BY DEF MayPlace, WithId
  <1>5. ToSet(d.placed) \cap ToSet(new) = {}
    BY <1>4
  <1>6. IsInjective(d.placed \o new)
    BY <1>1, <1>2, <1>5, DisjointConcat
  <1> DEFINE p == d.placed \o new
  <1> HIDE DEF p
  <1>7. after.fill = d.fill /\ after.placed = p /\ after \in Chains
    BY <1>1, <1>3 DEF p, Chains
  <1>8. ToSet(p) = ToSet(d.placed) \cup ToSet(new) /\ IsInjective(p)
    BY <1>3, <1>6 DEF p
  <1>9. DistinctIds(ToSet(p))
    BY <1>1, <1>2, <1>4, <1>8 DEF DistinctIds, ChainOK
  <1>10. \A h \in ToSet(p) : IsStateful(h)
    BY <1>1, <1>2, <1>8 DEF ChainOK
  <1>11. Rooted(after)
    BY <1>1, <1>7, <1>8 DEF Rooted, WithId
  <1>12. ASSUME NEW h \in ToSet(new) PROVE d.fill[Id(h)] = 0
    <2>1. h \in Hashes /\ IsStateful(h)
      BY <1>2 DEF ToSet
    <2> QED
      BY <1>1, <2>1 DEF MayPlace, Rooted
  <1> QED
    BY <1>7, <1>8, <1>9, <1>10, <1>11, <1>12 DEF ChainOK

Settled(d, leaving) == Leave(Leave(d, FilledOut(d)), leaving)

\* What a block removes and leaves filled.
LEMMA SettledIs ==
  ASSUME NEW c, NEW d, Settling(c, d), NEW leaving \in Leaving(d)
  PROVE  /\ Settling(c, Settled(d, leaving))
         /\ Settled(d, leaving).removed = d.removed \cup FilledOut(d) \cup leaving
         /\ Settled(d, leaving).filled = d.filled
         /\ \A id \in Ids : Settled(d, leaving).fill[id] =
                              IF id \in FilledOut(d) \cup leaving THEN 0 ELSE d.fill[id]
  <1> DEFINE F == FilledOut(d)
             e == Leave(d, F)
             s == Leave(e, leaving)
  <1>1. ToSet(d.placed) \subseteq Hashes
    BY DEF Settling, Deliveries, ToSet
  <1>2. F \in SUBSET Ids
    BY <1>1, OrderTypes DEF FilledOut
  <1>3. leaving \in SUBSET Ids
    BY <1>1, OrderTypes DEF Leaving
  <1> HIDE DEF F
  <1>4. /\ Settling(c, e) /\ e.filled = d.filled /\ e.removed = d.removed \cup F
        /\ \A id \in Ids : e.fill[id] = IF id \in F THEN 0 ELSE d.fill[id]
    <2>1. Left(c, d, F, e)
      BY <1>2, SettlesLeave
    <2> HIDE DEF e
    <2> QED
      BY <2>1 DEF Left
  <1> HIDE DEF e
  <1>5. /\ Settling(c, s) /\ s.filled = e.filled /\ s.removed = e.removed \cup leaving
        /\ \A id \in Ids : s.fill[id] = IF id \in leaving THEN 0 ELSE e.fill[id]
    <2>1. Left(c, e, leaving, s)
      BY <1>3, <1>4, SettlesLeave
    <2> HIDE DEF s
    <2> QED
      BY <2>1 DEF Left
  <1>6. s = Settled(d, leaving)
    BY DEF Settled, e, F
  <1> HIDE DEF s
  <1>7. s.filled = d.filled /\ s.removed = d.removed \cup F \cup leaving
        /\ \A id \in Ids : s.fill[id] = IF id \in F \cup leaving THEN 0 ELSE d.fill[id]
    BY <1>4, <1>5
  <1> QED
    BY <1>5, <1>6, <1>7 DEF F

\* The step is the commit of this block.
Commits(d, leaving, new, l) ==
  /\ d \in {Deliver(mem.queue)} \cup OthersOperations
  /\ leaving \in Leaving(d) /\ new \in NewlyPlaced /\ l \in Liquidatable
  /\ Commit(d, leaving, new, l)

\* What a block leaves behind.
Committed(d, new, l, s) ==
  /\ Settling(chain, d) /\ Settling(chain, s)
  /\ \A h \in ToSet(new) : MayPlace(s, h)
  /\ height' = height + 1 /\ phase = "open" /\ phase' = "prepare"
  /\ ChainOK(chain') /\ chain'.fill = s.fill
  /\ ToSet(chain'.placed) = ToSet(s.placed) \cup ToSet(new)
  /\ \A h \in ToSet(new) : s.fill[Id(h)] = 0
  /\ fill' = s.fill
  /\ mem' = Purge(ClearQueue(mem), s, height + 1)
  /\ pending' = ToPlace(new, Replayed(mem.queue, chain'.placed)) \o l

\* Commit, packaged.
LEMMA CommitDoes ==
  ASSUME StateOK, NEW d, NEW leaving, NEW new, NEW l, Commits(d, leaving, new, l)
  PROVE  Committed(d, new, l, Settled(d, leaving))
  <1> DEFINE s == Settled(d, leaving)
  <1>1. mem.queue \in Seq(Operations) /\ ChainOK(chain)
    BY DEF StateOK, MemOK, Mems
  <1>2. Settling(chain, d)
    BY <1>1, OperationsSettle DEF Commits
  <1>3. Settling(chain, s)
    BY <1>2, SettledIs DEF Commits
  <1>4. /\ \A h \in ToSet(new) : MayPlace(s, h)
        /\ height' = height + 1 /\ phase = "open" /\ phase' = "prepare"
        /\ chain' = [fill |-> s.fill, placed |-> s.placed \o new] /\ fill' = s.fill
        /\ mem' = Purge(ClearQueue(mem), s, height + 1)
        /\ pending' = ToPlace(new, Replayed(mem.queue, chain'.placed)) \o l
    BY DEF Commits, Commit, Settled
  <1> HIDE DEF s
  <1>5. /\ ChainOK(chain') /\ chain'.fill = s.fill
        /\ ToSet(chain'.placed) = ToSet(s.placed) \cup ToSet(new)
        /\ \A h \in ToSet(new) : s.fill[Id(h)] = 0
    BY <1>1, <1>3, <1>4, BlockOK DEF Commits
  <1>6. Committed(d, new, l, s)
    BY <1>2, <1>3, <1>4, <1>5 DEF Committed
  <1> QED
    BY <1>6 DEF s

\* What is pending after a block.
Todo(new, R, l, todo) ==
  /\ todo \in Seq(Hashes \cup Liquidations)
  /\ ToSet(todo) = ToSet(new) \cup R \cup ToSet(l)
  /\ ToSet(new) \cap R = {} => IsInjective(todo)

\* PrepareCheckState is to place the new orders, the replayed ones and the
\* liquidations, and none twice.
LEMMA PendingIs ==
  ASSUME NEW queue \in Seq(Operations), NEW placed \in Seq(Hashes), IsInjective(placed),
         NEW new \in NewlyPlaced, NEW l \in Liquidatable
  PROVE  Todo(new, ReplaySet(queue, placed), l, ToPlace(new, Replayed(queue, placed)) \o l)
  <1> DEFINE r == Replayed(queue, placed)
             t == ToPlace(new, r)
             todo == t \o l
             U == ReplaySet(queue, placed)
  <1>1. r \in Seq(Hashes) /\ IsInjective(r) /\ ToSet(r) = U
    BY ReplayedIs
  <1>2. new \in Seq(Hashes) /\ IsInjective(new)
    BY NewlyPlacedIs
  <1>3. l \in Seq(Liquidations) /\ IsInjective(l)
    BY LiquidatableIs
  <1> HIDE DEF r, U
  <1>4. t \in Seq(Hashes) /\ ToSet(t) = ToSet(new) \cup U
        /\ (ToSet(new) \cap U = {} => IsInjective(t))
    BY <1>1, <1>2, ToPlaceIs
  <1>5. todo = t \o l
    OBVIOUS
  <1>5a. todo = ToPlace(new, Replayed(queue, placed)) \o l
    BY DEF r
  <1> HIDE DEF t, todo
  <1>6. t \in Seq(Hashes \cup Liquidations) /\ l \in Seq(Hashes \cup Liquidations)
    BY <1>3, <1>4
  <1>7. todo \in Seq(Hashes \cup Liquidations) /\ ToSet(todo) = ToSet(t) \cup ToSet(l)
    BY <1>5, <1>6, ConcatSet
  <1>8. ToSet(t) \cap ToSet(l) = {}
    <2>1. ToSet(t) \subseteq Hashes /\ ToSet(l) \subseteq Liquidations
      BY <1>3, <1>4 DEF ToSet
    <2> QED
      BY <2>1, LiquidationTypes
  <1>9. IsInjective(t) => IsInjective(todo)
    BY <1>3, <1>5, <1>6, <1>8, DisjointConcat
  <1>10. Todo(new, U, l, todo)
    BY <1>4, <1>7, <1>9 DEF Todo
  <1> QED
    BY <1>5a, <1>10 DEF U

\* A block keeps the state sound.
LEMMA CommitOK ==
  ASSUME StateOK, NEW d, NEW leaving, NEW new, NEW l, Commits(d, leaving, new, l)
  PROVE  StateOK' /\ mem'.queue = <<>>
  <1> DEFINE s == Settled(d, leaving)
  <1>1. Committed(d, new, l, s)
    BY CommitDoes
  <1>2. new \in NewlyPlaced /\ l \in Liquidatable
    BY DEF Commits
  <1> HIDE DEF s
  <1>3. /\ Settling(chain, s) /\ ChainOK(chain') /\ fill' = s.fill /\ chain'.fill = s.fill
        /\ height' = height + 1 /\ phase' = "prepare"
        /\ ToSet(chain'.placed) = ToSet(s.placed) \cup ToSet(new)
        /\ mem' = Purge(ClearQueue(mem), s, height + 1)
        /\ pending' = ToPlace(new, Replayed(mem.queue, chain'.placed)) \o l
    BY <1>1 DEF Committed
  <1>4. height \in Nat /\ height + 1 \in Nat
    BY DEF StateOK
  <1>5. /\ MemOK(mem', s.fill) /\ mem'.queue = <<>>
        /\ ToSet(mem'.book) \subseteq ToSet(mem.book) \ Purging(mem, s, height + 1)
    BY <1>3, <1>4, SettledOK DEF StateOK
  <1>6. InState(ToSet(mem'.book), chain')
    <2> SUFFICES ASSUME NEW h \in ToSet(mem'.book), h \in Hashes, IsStateful(h)
                 PROVE  h \in ToSet(s.placed)
      BY <1>3 DEF InState
    <2>1. h \in ToSet(mem.book) /\ Id(h) \notin s.removed
      BY <1>5 DEF Purging
    <2>2. h \in ToSet(chain.placed)
      BY <2>1 DEF StateOK, InState
    <2> QED
      BY <1>3, <2>1, <2>2 DEF Settling
  <1>7. mem.queue \in Seq(Operations) /\ chain'.placed \in Seq(Hashes) /\ IsInjective(chain'.placed)
    BY <1>3 DEF StateOK, MemOK, Mems, ChainOK, Chains
  <1> DEFINE U == ReplaySet(mem.queue, chain'.placed)
  <1>8. /\ pending' \in Seq(Hashes \cup Liquidations)
        /\ ToSet(pending') = ToSet(new) \cup U \cup ToSet(l)
    <2>1. Todo(new, U, l, pending')
      BY <1>2, <1>3, <1>7, PendingIs
    <2> QED
      BY <2>1 DEF Todo
  <1>9. InState(U, chain')
    <2> SUFFICES ASSUME NEW k \in DOMAIN mem.queue, NEW h \in ReplayFor(mem.queue[k], chain'.placed),
                        h \in Hashes, IsStateful(h)
                 PROVE  h \in ToSet(chain'.placed)
      BY DEF InState, ReplaySet
    <2>1. mem.queue[k] \in Operations
      BY <1>7
    <2>2. ReplayFor(mem.queue[k], chain'.placed) =
            IF mem.queue[k].op = "place" THEN {mem.queue[k].order}
            ELSE IF mem.queue[k].op \in {"preexisting", "remove"}
            THEN WithId(chain'.placed, mem.queue[k].id) ELSE {}
      BY <1>7, <2>1, ReplayedForIs
    <2>3. mem.queue[k].op # "place"
      <3> SUFFICES ASSUME mem.queue[k].op = "place" PROVE FALSE
        OBVIOUS
      <3>1. mem.queue[k] = PlaceOp(h)
        BY <2>1, <2>2 DEF Operations, PlaceOp
      <3>2. PlaceOp(h) \in ToSet(mem.queue)
        BY <3>1 DEF ToSet
      <3> QED
        BY <3>2 DEF StateOK, MemOK, PlacedOnce
    <2> QED
      BY <2>2, <2>3 DEF WithId
  <1>10. InState(ToSet(new), chain') /\ InState(ToSet(l), chain')
    <2>1. ToSet(l) \subseteq Liquidations
      BY <1>2, LiquidatableIs DEF ToSet
    <2>2. ToSet(l) \cap Hashes = {}
      BY <2>1, LiquidationTypes
    <2> QED
      BY <1>3, <2>2 DEF InState
  <1> HIDE DEF U
  <1>11. InState(ToSet(pending'), chain')
    BY <1>8, <1>9, <1>10 DEF InState
  <1>12. \A id \in Ids : fill'[id] >= chain'.fill[id]
    <2>1. s.fill \in Fillings
      BY <1>5 DEF MemOK
    <2> QED
      BY <1>3, <2>1 DEF Fillings
  <1> QED
    BY <1>3, <1>4, <1>5, <1>6, <1>8, <1>11, <1>12 DEF StateOK

\* The memclob of a node that has just started.
LEMMA EmptyOK ==
  ASSUME NEW fills \in Fillings
  PROVE  MemOK(EmptyMemClob, fills) /\ EmptyMemClob.queue = <<>> /\ ToSet(EmptyMemClob.book) = {}
  <1> DEFINE M == EmptyMemClob
  <1>1. /\ M.book = <<>> /\ M.queue = <<>> /\ M.queued = {} /\ M.removals = {}
        /\ M.matched = [id \in Ids |-> None] /\ M.bytes = {} /\ M.panicked = FALSE
        /\ M \in Mems
    BY DEF EmptyMemClob, Mems
  <1>2. ToSet(<<>>) = {} /\ OncePlaced(<<>>)
    BY DEF ToSet, OncePlaced
  <1> HIDE DEF M
  <1>3. MemOK(M, fills)
    BY <1>1, <1>2 DEF MemOK, DistinctIds, BytesKept, QueuedKnown, RestingKnown, Unfilled,
                      Uncancelled, Uncrossed, PlacedOnce
  <1> QED
    BY <1>1, <1>2, <1>3 DEF M

\* A restart keeps the state sound.
LEMMA RestartOK ==
  ASSUME StateOK, Restart
  PROVE  StateOK' /\ mem'.queue = <<>>
  <1>1. /\ mem' = EmptyMemClob /\ fill' = chain.fill /\ pending' = chain.placed /\ chain' = chain
        /\ height' = height /\ phase' = "prepare"
    BY DEF Restart
  <1>2. chain.fill \in Fillings /\ chain.placed \in Seq(Hashes)
    BY DEF StateOK, ChainOK, Chains
  <1>3. MemOK(mem', fill') /\ mem'.queue = <<>> /\ ToSet(mem'.book) = {}
    BY <1>1, <1>2, EmptyOK
  <1>4. InState(ToSet(mem'.book), chain) /\ InState(ToSet(pending'), chain)
    BY <1>1, <1>3 DEF InState
  <1>5. pending' \in Seq(Hashes \cup Liquidations)
    BY <1>1, <1>2
  <1>6. \A id \in Ids : fill'[id] >= chain.fill[id]
    BY <1>1, <1>2 DEF Fillings
  <1> QED
    BY <1>1, <1>3, <1>4, <1>5, <1>6 DEF StateOK

\* The initial state is sound.
LEMMA InitOK ==
  ASSUME Init
  PROVE  StateOK
  <1>1. /\ height = 1 /\ phase = "open" /\ chain = [fill |-> NoFills, placed |-> <<>>]
        /\ fill = NoFills /\ mem = EmptyMemClob /\ pending = <<>>
    BY DEF Init
  <1>2. NoFills \in Fillings /\ \A id \in Ids : NoFills[id] = 0
    BY DEF NoFills, Fillings
  <1>3. <<>> \in Seq(Hashes) /\ ToSet(<<>>) = {} /\ IsInjective(<<>>)
    BY DEF ToSet, IsInjective
  <1>4. MemOK(mem, fill) /\ ToSet(mem.book) = {}
    BY <1>1, <1>2, EmptyOK
  <1>5. ChainOK(chain)
    <2>1. chain.fill = NoFills /\ chain.placed = <<>> /\ chain \in Chains
      BY <1>1, <1>2 DEF Chains
    <2>2. Rooted(chain)
      BY <1>2, <2>1, OrderTypes DEF Rooted
    <2> QED
      BY <1>3, <2>1, <2>2 DEF ChainOK, DistinctIds
  <1>6. \A id \in Ids : fill[id] >= chain.fill[id]
    BY <1>1, <1>2
  <1> QED
    BY <1>1, <1>3, <1>4, <1>5, <1>6 DEF StateOK, InState

\* Every step keeps the state sound and serves the book in turn.
LEMMA StepOK ==
  ASSUME StateOK, [Next]_vars
  PROVE  StateOK' /\ InTurn(mem, mem')
  <1>1. ASSUME NEW h \in Hashes, NEW fate \in Fatings(mem, h), PlaceShortTermOrder(h, fate)
        PROVE  StateOK' /\ InTurn(mem, mem')
    BY <1>1, PlaceShortTermOK
  <1>2. ASSUME NEW id \in ShortTermIds, NEW gtb \in 1 .. MaxHeight + ShortBlockWindow,
               CancelShortTermOrder(id, gtb)
        PROVE  StateOK' /\ InTurn(mem, mem')
    <2>1. gtb \in Nat
      BY MemClobAssumption
    <2> QED
      BY <1>2, <2>1, CancelOK
  <1>3. ASSUME NEW d \in {Deliver(mem.queue)} \cup OthersOperations, NEW leaving \in Leaving(d),
               NEW new \in NewlyPlaced, NEW l \in Liquidatable, Commit(d, leaving, new, l)
        PROVE  StateOK' /\ InTurn(mem, mem')
    <2>1. Commits(d, leaving, new, l)
      BY <1>3 DEF Commits
    <2>2. StateOK' /\ mem'.queue = <<>>
      BY <2>1, CommitOK
    <2>3. DOMAIN mem'.queue = {}
      BY <2>2
    <2> QED
      BY <2>2, <2>3, NoneQueued
  <1>4. ASSUME pending # <<>>, NEW fate \in Fatings(mem, Head(pending)),
               \/ \E hasPosition \in BOOLEAN : PlaceNext(fate, hasPosition)
               \/ Liquidate(fate)
        PROVE  StateOK' /\ InTurn(mem, mem')
    BY <1>4, PlaceNextOK, LiquidateOK
  <1>5. CASE Open
    <2>1. StateOK'
      BY <1>5 DEF Open, StateOK
    <2> QED
      BY <1>5, <2>1, NoneQueued DEF Open
  <1>6. CASE Restart
    <2>1. StateOK' /\ mem'.queue = <<>>
      BY <1>6, RestartOK
    <2>2. DOMAIN mem'.queue = {}
      BY <2>1
    <2> QED
      BY <2>1, <2>2, NoneQueued
  <1>7. CASE UNCHANGED vars
    <2>1. StateOK'
      BY <1>7 DEF vars, StateOK
    <2> QED
      BY <1>7, <2>1, NoneQueued DEF vars
  <1> QED
    BY <1>1, <1>2, <1>3, <1>4, <1>5, <1>6, <1>7 DEF Next

\* The inductive invariant holds, whatever orders are placed.
THEOREM StateSound == Spec => []StateOK
  <1>1. Init => StateOK
    BY InitOK
  <1>2. StateOK /\ [Next]_vars => StateOK'
    BY StepOK
  <1> QED
    BY <1>1, <1>2, PTL DEF Spec

\* None of the Must functions of the memclob and the operations queue panics.
THEOREM NeverPanics == Spec => []NoPanic
  <1>1. StateOK => NoPanic
    BY DEF StateOK, MemOK, NoPanic
  <1> QED
    BY <1>1, StateSound, PTL

\* The book is never crossed.
THEOREM NeverCrossed == Spec => []NotCrossed
  <1>1. StateOK => NotCrossed
    BY DEF StateOK, MemOK, Uncrossed, NotCrossed
  <1> QED
    BY <1>1, StateSound, PTL

\* A cancelled short-term order does not rest and does not come back.
THEOREM CancelledStayGone == Spec => []CancelledGone
  <1>1. StateOK => CancelledGone
    BY DEF StateOK, MemOK, Uncancelled, CancelledGone
  <1> QED
    BY <1>1, StateSound, PTL

\* Nothing that was ahead of a maker is left when a match joins the queue.
THEOREM ServesInTurn == Spec => PriceTimePriority
  <1>1. StateOK /\ [Next]_vars => [ServedInTurn]_vars
    BY StepOK DEF InTurn, ServedInTurn
  <1> QED
    BY <1>1, StateSound, PTL DEF Spec, PriceTimePriority

-----------------------------------------------------------------------------
(* The queue as a delivery: its operations one after the other.            *)

\* The states in which the operations of b leave the delivery e.
Onward(g, hgt, e, b, n) ==
  /\ g[0] = e
  /\ \A k \in 1 .. n : g[k] = DeliverOpAt(hgt, g[k - 1], b[k])

\* A longer queue is delivered operation by operation on top of a shorter one.
LEMMA DeliverMore ==
  ASSUME NEW c, NEW hgt, NEW a \in Seq(Operations), NEW b \in Seq(Operations)
  PROVE  \E g : /\ DeliverAt(c, hgt, a \o b) = g[Len(b)]
                /\ Onward(g, hgt, DeliverAt(c, hgt, a), b, Len(b))
  <1> DEFINE q == a \o b
             n == Len(a)
             m == Len(b)
  <1>1. /\ n \in Nat /\ m \in Nat /\ Len(q) = n + m
        /\ \A k \in 1 .. n : q[k] = a[k]
        /\ \A k \in 1 .. m : q[n + k] = b[k]
    OBVIOUS
  <1> HIDE DEF q, n, m
  <1>2. PICK f : DeliverAt(c, hgt, a) = f[n] /\ Delivering(f, c, hgt, a, n)
    BY <1>1, DeliverRuns DEF n
  <1>3. PICK h : DeliverAt(c, hgt, q) = h[n + m] /\ Delivering(h, c, hgt, q, n + m)
    <2>1. Len(q) \in Nat
      BY <1>1
    <2> QED
      BY <1>1, <2>1, DeliverRuns
  <1> DEFINE Good == {k \in 0 .. n : f[k] = h[k]}
  <1>4. 0 \in Good
    BY <1>1, <1>2, <1>3 DEF Delivering
  <1>5. ASSUME NEW k \in 1 .. n, k - 1 \in Good PROVE k \in Good
    <2>1. f[k] = DeliverOpAt(hgt, f[k - 1], a[k])
      BY <1>2 DEF Delivering
    <2>2. k \in 1 .. n + m /\ k \in 0 .. n /\ q[k] = a[k]
      BY <1>1
    <2>3. h[k] = DeliverOpAt(hgt, h[k - 1], a[k])
      BY <1>3, <2>2 DEF Delivering
    <2> QED
      BY <1>5, <2>1, <2>2, <2>3
  <1>6. f[n] = h[n]
    <2>1. \A k \in 0 .. n : k \in Good
      <3> HIDE DEF Good
      <3> QED
        BY <1>1, <1>4, <1>5, Induct
    <2> QED
      BY <1>1, <2>1
  <1> DEFINE g == [k \in 0 .. m |-> h[n + k]]
  <1>7. g[0] = DeliverAt(c, hgt, a) /\ g[m] = DeliverAt(c, hgt, q)
    BY <1>1, <1>2, <1>3, <1>6
  <1>8. ASSUME NEW k \in 1 .. m PROVE g[k] = DeliverOpAt(hgt, g[k - 1], b[k])
    <2>1. n + k \in 1 .. n + m /\ k \in 0 .. m /\ k - 1 \in 0 .. m /\ (n + k) - 1 = n + (k - 1)
          /\ q[n + k] = b[k]
      BY <1>1
    <2>2. h[n + k] = DeliverOpAt(hgt, h[(n + k) - 1], q[n + k])
      BY <1>3, <2>1 DEF Delivering
    <2>3. g[k] = h[n + k] /\ g[k - 1] = h[n + (k - 1)]
      BY <2>1
    <2> HIDE DEF g
    <2> QED
      BY <2>1, <2>2, <2>3
  <1> HIDE DEF g
  <1>9. Onward(g, hgt, DeliverAt(c, hgt, a), b, m)
    BY <1>7, <1>8 DEF Onward
  <1> QED
    BY <1>7, <1>9 DEF q, m

\* The last fill is delivered last.
LEMMA FillsLast ==
  ASSUME NEW d, NEW taker, NEW fills \in Seq(FillRecords), NEW x \in FillRecords
  PROVE  DeliverFills(d, taker, Append(fills, x)) =
           DeliverFill(DeliverFills(d, taker, fills), taker, x)
  <1> DEFINE n == Len(fills)
             longer == Append(fills, x)
  <1>1. n \in Nat /\ Len(longer) = n + 1 /\ longer[n + 1] = x
        /\ \A k \in 1 .. n : longer[k] = fills[k]
    OBVIOUS
  <1> HIDE DEF longer, n
  <1>2. PICK f : DeliverFills(d, taker, fills) = f[n] /\ Feeding(f, d, taker, fills, n)
    BY <1>1, FillsRun DEF n
  <1>3. PICK g : DeliverFills(d, taker, longer) = g[n + 1] /\ Feeding(g, d, taker, longer, n + 1)
    <2>1. Len(longer) \in Nat
      BY <1>1
    <2> QED
      BY <1>1, <2>1, FillsRun
  <1> DEFINE Good == {k \in 0 .. n : f[k] = g[k]}
  <1>4. 0 \in Good
    BY <1>1, <1>2, <1>3 DEF Feeding
  <1>5. ASSUME NEW k \in 1 .. n, k - 1 \in Good PROVE k \in Good
    <2>1. f[k] = DeliverFill(f[k - 1], taker, fills[k])
      BY <1>2 DEF Feeding
    <2>2. k \in 1 .. n + 1 /\ k \in 0 .. n /\ longer[k] = fills[k]
      BY <1>1
    <2>3. g[k] = DeliverFill(g[k - 1], taker, fills[k])
      BY <1>3, <2>2 DEF Feeding
    <2> QED
      BY <1>5, <2>1, <2>2, <2>3
  <1>6. f[n] = g[n]
    <2>1. \A k \in 0 .. n : k \in Good
      <3> HIDE DEF Good
      <3> QED
        BY <1>1, <1>4, <1>5, Induct
    <2> QED
      BY <1>1, <2>1
  <1>7. g[n + 1] = DeliverFill(g[(n + 1) - 1], taker, longer[n + 1])
    <2>1. n + 1 \in 1 .. n + 1
      BY <1>1
    <2> QED
      BY <1>3, <2>1 DEF Feeding
  <1>8. (n + 1) - 1 = n
    BY <1>1
  <1> QED
    BY <1>1, <1>2, <1>3, <1>6, <1>7, <1>8 DEF longer

\* A match without fills fills nothing.
LEMMA FillsNothing ==
  ASSUME NEW d, NEW taker
  PROVE  DeliverFills(d, taker, <<>>) = d
  <1>1. Len(<<>>) = 0
    OBVIOUS
  <1>2. PICK f : DeliverFills(d, taker, <<>>) = f[Len(<<>>)] /\ Feeding(f, d, taker, <<>>, Len(<<>>))
    BY <1>1, FillsRun
  <1> QED
    BY <1>1, <1>2 DEF Feeding

\* Sequences are equal if their elements are.
LEMMA SeqSame ==
  ASSUME NEW T, NEW a \in Seq(T), NEW b \in Seq(T), Len(a) = Len(b),
         \A i \in 1 .. Len(a) : a[i] = b[i]
  PROVE  a = b
  OBVIOUS

\* The fills of a match, as the queue names them.
FillsOf(fills) ==
  [i \in DOMAIN fills |-> [id |-> Id(fills[i].maker), amount |-> fills[i].amount]]

MatchFills == [maker : Hashes, amount : Nat \ {0}]

\* The fills of a match as the operation names them.
LEMMA FillsOfIs ==
  ASSUME NEW fills \in Seq(MatchFills)
  PROVE  FillsOf(fills) \in Seq(FillRecords) /\ DOMAIN FillsOf(fills) = DOMAIN fills
         /\ \A i \in DOMAIN fills : FillsOf(fills)[i].id = Id(fills[i].maker)
  <1>0. \A i \in DOMAIN fills : fills[i] \in MatchFills
    OBVIOUS
  <1>1. \A i \in DOMAIN fills : fills[i].maker \in Hashes /\ fills[i].amount \in Nat \ {0}
    BY <1>0 DEF MatchFills
  <1>2. \A i \in DOMAIN fills : Id(fills[i].maker) \in Ids
    BY <1>1, OrderTypes
  <1>3. Len(fills) \in Nat /\ DOMAIN fills = 1 .. Len(fills)
    OBVIOUS
  <1>4. FillsOf(fills) \in [1 .. Len(fills) -> FillRecords]
    BY <1>1, <1>2, <1>3 DEF FillsOf, FillRecords
  <1>5. \A i \in DOMAIN fills : FillsOf(fills)[i].id = Id(fills[i].maker)
    BY DEF FillsOf
  <1>6. FillsOf(fills) \in Seq(FillRecords)
    <2> HIDE DEF FillRecords
    <2> QED
      BY <1>3, <1>4
  <1> QED
    BY <1>3, <1>4, <1>5, <1>6

\* The last of the fills of a match.
LEMMA FillsOfLast ==
  ASSUME NEW fills \in Seq(MatchFills), NEW maker \in Hashes, NEW n \in Nat \ {0}
  PROVE  FillsOf(Append(fills, [maker |-> maker, amount |-> n])) =
           Append(FillsOf(fills), [id |-> Id(maker), amount |-> n])
  <1> DEFINE x == [maker |-> maker, amount |-> n]
             y == [id |-> Id(maker), amount |-> n]
             a == Append(fills, x)
             u == FillsOf(fills)
             m == Len(fills)
  <1>1. x \in MatchFills /\ x.maker = maker /\ x.amount = n
    BY DEF MatchFills
  <1>2. y \in FillRecords
    BY OrderTypes DEF FillRecords
  <1>3. u \in Seq(FillRecords) /\ DOMAIN u = DOMAIN fills
    BY FillsOfIs
  <1>4. m \in Nat /\ DOMAIN fills = 1 .. m
    OBVIOUS
  <1>5. Len(u) = m
    BY <1>3, <1>4
  <1>6. \A i \in 1 .. m : u[i] = [id |-> Id(fills[i].maker), amount |-> fills[i].amount]
    BY <1>4 DEF FillsOf
  <1> HIDE DEF x, u
  <1>7. DOMAIN a = 1 .. m + 1 /\ a[m + 1] = x /\ \A i \in 1 .. m : a[i] = fills[i]
    BY <1>1, <1>4
  <1> HIDE DEF a
  <1>8. FillsOf(a) = [i \in 1 .. m + 1 |-> [id |-> Id(a[i].maker), amount |-> a[i].amount]]
    BY <1>7 DEF FillsOf
  <1>9. \A i \in 1 .. m + 1 : FillsOf(a)[i] = IF i = m + 1 THEN y ELSE u[i]
    BY <1>1, <1>4, <1>6, <1>7, <1>8
  <1> HIDE DEF y
  <1>10. /\ Append(u, y) \in Seq(FillRecords) /\ Len(Append(u, y)) = m + 1
         /\ \A i \in 1 .. m + 1 : Append(u, y)[i] = IF i = m + 1 THEN y ELSE u[i]
    <2> HIDE DEF m
    <2> QED
      BY <1>2, <1>3, <1>4, <1>5
  <1>11. FillsOf(a) \in Seq(FillRecords) /\ Len(FillsOf(a)) = m + 1
    <2>1. a \in Seq(MatchFills)
      BY <1>1 DEF a
    <2>2. FillsOf(a) \in Seq(FillRecords) /\ DOMAIN FillsOf(a) = 1 .. m + 1
      BY <1>7, <2>1, FillsOfIs
    <2> HIDE DEF m
    <2> QED
      BY <1>4, <2>2
  <1>12. FillsOf(a) = Append(u, y)
    <2> DEFINE v == FillsOf(a)
               w == Append(u, y)
    <2> HIDE DEF v, w, m
    <2>1. v \in Seq(FillRecords) /\ w \in Seq(FillRecords) /\ Len(v) = Len(w)
      BY <1>10, <1>11 DEF v, w
    <2>2. \A i \in 1 .. Len(v) : v[i] = w[i]
      BY <1>9, <1>10, <1>11 DEF v, w
    <2>3. v = w
      BY <2>1, <2>2, SeqSame
    <2> QED
      BY <2>3 DEF v, w
  <1> QED
    BY <1>12 DEF a, x, y, u

-----------------------------------------------------------------------------
(* DeliverTx repeats the matches of CheckTx.                               *)

\* The delivery e stands where CheckTx stands when it matches the taker.
Level(e, fills, taker) ==
  /\ e \in Deliveries /\ e.ok
  /\ \A id \in Ids : id \in e.removed \/ e.fill[id] = fills[id]
  /\ taker \in Hashes => Id(taker) \notin e.removed

\* DeliverTx finds the makers.
Found(e, r) ==
  \A h \in Makers(r) : /\ Fetch(e, Id(h)) = {h} /\ Id(h) \notin e.removed
                       /\ ~RequiresImmediateExecution(h)

\* The fills are delivered, and nothing else changes.
Paid(e, r, q) ==
  /\ q \in Deliveries /\ q.ok /\ q.placed = e.placed /\ q.short = e.short
  /\ q.removed = e.removed /\ q.liquidated = e.liquidated
  /\ \A id \in Ids : id \in e.removed \/ q.fill[id] = r.fill[id]

\* The next fill of a run may be delivered.
CanPay(M, e, taker, r, d, p, maker, n) ==
  /\ M \in Mems /\ taker \in Hashes \cup Liquidations /\ r \in Runs
  /\ Paid(e, r, d) /\ Paying(M, taker, r, p, maker, n)
  /\ Fetch(e, Id(maker)) = {maker} /\ Id(maker) \notin e.removed
  /\ ~RequiresImmediateExecution(maker)
  /\ taker \in Hashes => /\ Id(taker) \notin e.removed
                         /\ r.fill[Id(taker)] + r.left = Order(taker).size
  /\ taker \in Liquidations => r.left =< Order(taker).size

\* One fill.
LEMMA PaysFill ==
  ASSUME NEW M, NEW e, NEW taker, NEW r, NEW d, NEW p, NEW maker, NEW n,
         CanPay(M, e, taker, r, d, p, maker, n),
         NEW x, x = [id |-> Id(maker), amount |-> n]
  PROVE  Paid(e, p, DeliverFill(d, taker, x))
  <1> USE DEF CanPay
  <1>0. x.id = Id(maker) /\ x.amount = n
    OBVIOUS
  <1>1. /\ d \in Deliveries /\ d.ok /\ d.placed = e.placed /\ d.short = e.short
        /\ d.removed = e.removed /\ d.liquidated = e.liquidated /\ d.fill \in Fillings
        /\ d.filled \in SUBSET Ids
    BY DEF Paid, Deliveries
  <1>2. maker \in Hashes /\ Id(maker) \in Ids /\ Order(maker).size \in Nat /\ ~IsLiquidation(maker)
        /\ Crosses(taker, maker) /\ Id(maker) # Id(taker) /\ Order(maker).owner # Order(taker).owner
    BY CrossingIs, OrderTypes DEF Paying, Crossing
  <1>3. n \in Nat /\ n > 0 /\ n =< r.left /\ r.fill[Id(maker)] + n =< Order(maker).size
        /\ r.left \in Nat /\ r.fill \in Fillings
    BY DEF Paying, Runs
  <1>4. d.fill[Id(maker)] = r.fill[Id(maker)] /\ d.fill[Id(maker)] \in Nat
    BY <1>1, <1>2 DEF Paid, Fillings
  <1>5. n =< Remaining(maker, d.fill)
    BY <1>2, <1>3, <1>4 DEF Remaining
  <1>6. n =< Remaining(taker, d.fill)
    <2>1. CASE taker \in Hashes
      <3>1. Id(taker) \in Ids /\ ~IsLiquidation(taker) /\ Order(taker).size \in Nat
        BY <2>1, OrderTypes
      <3>2. d.fill[Id(taker)] = r.fill[Id(taker)] /\ d.fill[Id(taker)] \in Nat
        BY <1>1, <2>1, <3>1 DEF Paid, Fillings
      <3>3. r.fill[Id(taker)] + r.left = Order(taker).size
        BY <2>1
      <3> QED
        BY <1>3, <3>1, <3>2, <3>3 DEF Remaining
    <2>2. CASE taker \in Liquidations
      <3>1. IsLiquidation(taker) /\ Order(taker).size \in Nat
        BY <2>2, LiquidationTypes
      <3>2. r.left =< Order(taker).size
        BY <2>2
      <3> QED
        BY <1>3, <3>1, <3>2 DEF Remaining
    <2> QED
      BY <2>1, <2>2
  <1>7. ValidMatch(d.fill, taker, maker, n)
    BY <1>2, <1>3, <1>5, <1>6 DEF ValidMatch
  <1>8. Fetch(d, Id(maker)) = {maker}
    BY <1>1 DEF Fetch
  <1> DEFINE q == Fill([d.fill EXCEPT ![Id(maker)] = @ + n], taker, n)
             u == [d EXCEPT !.fill = q, !.filled = @ \cup {Id(maker)}]
             V == {h \in Fetch(d, x.id) : ValidMatch(d.fill, taker, h, x.amount)}
  <1>9. maker \in V
    BY <1>0, <1>7, <1>8
  <1>10. DeliverFill(d, taker, x) = u
    <2>1. DeliverFill(d, taker, x) = IF V = {} THEN [d EXCEPT !.ok = FALSE] ELSE
            [d EXCEPT !.fill = Fill([d.fill EXCEPT ![x.id] = @ + x.amount], taker, x.amount),
                      !.filled = @ \cup {x.id}]
      BY DEF DeliverFill
    <2> HIDE DEF V
    <2> QED
      BY <1>0, <1>9, <2>1
  <1>11. FilledBy(d.fill, taker, Id(maker), n, q)
    BY <1>1, <1>2, <1>3, FilledOnce
  <1> HIDE DEF q
  <1>12. q \in Fillings
    BY <1>11 DEF FilledBy
  <1>13. /\ u \in Deliveries /\ u.ok = d.ok /\ u.placed = d.placed /\ u.short = d.short
         /\ u.removed = d.removed /\ u.liquidated = d.liquidated /\ u.fill = q
    BY <1>1, <1>2, <1>12 DEF Deliveries
  <1> HIDE DEF u
  <1>14. ASSUME NEW id \in Ids, id \notin e.removed PROVE q[id] = p.fill[id]
    <2>1. d.fill[id] = r.fill[id]
      BY <1>14 DEF Paid
    <2>2. p.fill[id] = IF id = Id(maker) \/ id = Id(taker) THEN r.fill[id] + n ELSE r.fill[id]
      BY DEF Paying
    <2>3. CASE id = Id(maker)
      BY <1>2, <1>11, <2>1, <2>2, <2>3 DEF FilledBy
    <2>4. CASE id = Id(taker)
      <3>1. taker \in Hashes
        BY <2>4, LiquidationTypes
      <3> QED
        BY <1>2, <1>11, <2>1, <2>2, <2>4, <3>1 DEF FilledBy
    <2>5. CASE id # Id(maker) /\ id # Id(taker)
      BY <1>11, <2>1, <2>2, <2>5 DEF FilledBy
    <2> QED
      BY <2>3, <2>4, <2>5
  <1>15. Paid(e, p, u)
    BY <1>1, <1>13, <1>14 DEF Paid
  <1> QED
    BY <1>10, <1>15

\* All fills of the loop.
LEMMA LoopPays ==
  ASSUME NEW M, NEW fills, NEW taker, NEW f, NEW n, NEW e, Ready(M, fills, taker),
         History(M, fills, taker, f, n), Level(e, fills, taker), Found(e, f[n])
  PROVE  Paid(e, f[n], DeliverFills(e, taker, FillsOf(f[n].fills)))
  <1> DEFINE After(r) == DeliverFills(e, taker, FillsOf(r.fills))
             Fits(r) == taker \in Liquidations => r.left =< Order(taker).size
             Fine(k) == Fits(f[k]) /\ (Found(e, f[k]) => Paid(e, f[k], After(f[k])))
             Good == {k \in 0 .. n : Fine(k)}
  <1>1. n \in Nat /\ M \in Mems /\ taker \in Hashes \cup Liquidations /\ fills \in Fillings
    BY DEF History, Ready
  <1>2. 0 \in Good
    <2> DEFINE r == Unmatched(taker, fills)
    <2>1. r.fills = <<>> /\ r.fill = fills /\ r.left = Remaining(taker, fills)
      BY DEF Unmatched
    <2>2. FillsOf(<<>>) = <<>>
      BY DEF FillsOf
    <2>3. f[0] = r
      BY DEF History
    <2> HIDE DEF r
    <2>4. After(f[0]) = e
      BY <2>1, <2>2, <2>3, FillsNothing
    <2>5. Paid(e, f[0], e)
      BY <2>1, <2>3 DEF Paid, Level
    <2>6. Fits(f[0])
      <3> SUFFICES ASSUME taker \in Liquidations PROVE r.left =< Order(taker).size
        BY <2>3
      <3>1. IsLiquidation(taker) /\ Order(taker).size \in Nat
        BY LiquidationTypes
      <3> QED
        BY <2>1, <3>1 DEF Remaining
    <2> HIDE DEF After, Fits
    <2> QED
      BY <1>1, <2>4, <2>5, <2>6
  <1>3. ASSUME NEW k \in 1 .. n, k - 1 \in Good PROVE k \in Good
    <2>1. PICK r : r = f[k - 1]
      OBVIOUS
    <2>2. PICK p : p = f[k]
      OBVIOUS
    <2>3. k - 1 \in 0 .. n /\ k \in 0 .. n
      BY <1>1
    <2>4. Looped(M, fills, taker, r) /\ Looped(M, fills, taker, p) /\ Stepped(M, taker, r, p)
      BY <2>1, <2>2, <2>3 DEF History
    <2>5. Fits(r) /\ (Found(e, r) => Paid(e, r, After(r)))
      BY <1>3, <2>1
    <2> SUFFICES Fits(p) /\ (Found(e, p) => Paid(e, p, After(p)))
      BY <2>2, <2>3
    <2>6. CASE p.fills = r.fills /\ p.fill = r.fill /\ p.left = r.left
      BY <2>5, <2>6 DEF Found, Makers, Paid
    <2>7. CASE \E maker, m : Paying(M, taker, r, p, maker, m)
      <3>1. PICK maker, m : Paying(M, taker, r, p, maker, m)
        BY <2>7
      <3>2. /\ r \in Runs /\ r.fills \in Seq(MatchFills) /\ r.left \in Nat
            /\ p.fills = Append(r.fills, [maker |-> maker, amount |-> m])
            /\ p.left = r.left - m /\ m \in Nat \ {0} /\ m =< r.left
        BY <2>4, <3>1 DEF Looped, Runs, MatchFills, Paying
      <3>3. Fits(p)
        <4> SUFFICES ASSUME taker \in Liquidations PROVE p.left =< Order(taker).size
          OBVIOUS
        <4>1. r.left =< Order(taker).size /\ Order(taker).size \in Nat
          BY <2>5, LiquidationTypes
        <4> QED
          BY <3>2, <4>1
      <3>4. ASSUME Found(e, p) PROVE Paid(e, p, After(p))
        <4>1. maker \in Hashes
          BY <1>1, <3>1, CrossingIs DEF Paying
        <4> DEFINE x == [maker |-> maker, amount |-> m]
                   y == [id |-> Id(maker), amount |-> m]
        <4>2. x \in MatchFills /\ x.maker = maker
          BY <3>2, <4>1 DEF MatchFills
        <4>3. y \in FillRecords
          BY <3>2, <4>1, OrderTypes DEF FillRecords
        <4>4. FillsOf(p.fills) = Append(FillsOf(r.fills), y) /\ FillsOf(r.fills) \in Seq(FillRecords)
          BY <3>2, <4>1, FillsOfLast, FillsOfIs
        <4>5. Makers(p) = Makers(r) \cup {maker}
          <5> DEFINE a == r.fills
                     b == p.fills
                     j == Len(a)
          <5> HIDE DEF x
          <5>1. b = Append(a, x)
            BY <3>2 DEF x
          <5> HIDE DEF a, b
          <5>2. a \in Seq(MatchFills)
            BY <3>2 DEF a
          <5>3. j \in Nat /\ DOMAIN a = 1 .. j /\ DOMAIN b = 1 .. j + 1 /\ b[j + 1] = x
                /\ \A i \in 1 .. j : b[i] = a[i]
            BY <4>2, <5>1, <5>2
          <5> HIDE DEF j
          <5>4. /\ \A i \in DOMAIN a : i \in DOMAIN b /\ b[i] = a[i]
                /\ j + 1 \in DOMAIN b
                /\ \A i \in DOMAIN b : i \in DOMAIN a \/ i = j + 1
            BY <5>3
          <5> QED
            BY <4>2, <5>3, <5>4 DEF Makers, a, b
        <4>6. Found(e, r) /\ Fetch(e, Id(maker)) = {maker} /\ Id(maker) \notin e.removed
              /\ ~RequiresImmediateExecution(maker)
          BY <3>4, <4>5 DEF Found
        <4>7. Paid(e, r, After(r))
          BY <2>5, <4>6
        <4>8. taker \in Hashes => /\ Id(taker) \notin e.removed
                                  /\ r.fill[Id(taker)] + r.left = Order(taker).size
          BY <2>4 DEF Level, Looped, LoopFills
        <4>9. CanPay(M, e, taker, r, After(r), p, maker, m)
          <5> HIDE DEF After
          <5> QED
            BY <1>1, <2>5, <3>1, <3>2, <4>6, <4>7, <4>8 DEF CanPay
        <4>10. Paid(e, p, DeliverFill(After(r), taker, y))
          <5> HIDE DEF After
          <5> QED
            BY <4>9, PaysFill
        <4>11. After(p) = DeliverFill(After(r), taker, y)
          <5> HIDE DEF y
          <5> QED
            BY <4>3, <4>4, FillsLast
        <4> QED
          BY <4>10, <4>11
      <3> QED
        BY <3>3, <3>4
    <2> QED
      BY <2>4, <2>6, <2>7 DEF Stepped
  <1>4. n \in Good
    <2>1. \A k \in 0 .. n : k \in Good
      <3> HIDE DEF Good
      <3> QED
        BY <1>1, <1>2, <1>3, Induct
    <2> HIDE DEF Good
    <2> QED
      BY <1>1, <2>1
  <1> HIDE DEF After
  <1>5. Paid(e, f[n], After(f[n]))
    BY <1>4
  <1> QED
    BY <1>5 DEF After
-----------------------------------------------------------------------------
(* Delivering removals and placements.                                     *)

\* The orders of S have left; otherwise the delivery stands as it did.
Shed(d, S, e) ==
  /\ e \in Deliveries /\ e.ok = d.ok /\ e.short = d.short /\ e.liquidated = d.liquidated
  /\ e.removed = d.removed \cup S
  /\ \A id \in Ids : id \in S \/ e.fill[id] = d.fill[id]

\* The removal of id may be delivered.
Removable(c, d, id) ==
  Settling(c, d) /\ id \in Ids /\ WithId(c.placed, id) # {} /\ id \notin d.removed

\* The removal of an order in state is accepted.
LEMMA RemovalSheds ==
  ASSUME NEW c, NEW d, NEW id, Removable(c, d, id)
  PROVE  Shed(d, {id}, DeliverRemoval(d, id))
  <1> DEFINE e == [d EXCEPT !.placed = Without(@, {id}), !.fill[id] = 0, !.removed = @ \cup {id}]
             p == Without(d.placed, {id})
  <1>0. Settling(c, d) /\ id \in Ids /\ WithId(c.placed, id) # {} /\ id \notin d.removed
    BY DEF Removable
  <1>1. d \in Deliveries /\ d.placed \in Seq(Hashes) /\ d.fill \in Fillings
    BY <1>0 DEF Settling, Deliveries
  <1>2. p \in Seq(Hashes)
    BY <1>1, WithoutIs
  <1>3. e = [d EXCEPT !.placed = p, !.fill[id] = 0, !.removed = @ \cup {id}]
    OBVIOUS
  <1> HIDE DEF p
  <1>4. [d.fill EXCEPT ![id] = 0] \in Fillings
        /\ \A i \in Ids : [d.fill EXCEPT ![id] = 0][i] = IF i \in {id} THEN 0 ELSE d.fill[i]
    BY <1>0, <1>1 DEF Fillings
  <1>5. /\ e \in Deliveries /\ e.fill = [d.fill EXCEPT ![id] = 0] /\ e.ok = d.ok
        /\ e.removed = d.removed \cup {id} /\ e.short = d.short /\ e.liquidated = d.liquidated
    BY <1>0, <1>1, <1>2, <1>3, <1>4 DEF Deliveries
  <1>6. WithId(d.placed, id) # {}
    BY <1>0 DEF Settling, WithId
  <1>7. DeliverRemoval(d, id) = e
    BY <1>6 DEF DeliverRemoval
  <1> HIDE DEF e
  <1>8. Shed(d, {id}, e)
    BY <1>4, <1>5 DEF Shed
  <1> QED
    BY <1>7, <1>8

\* Removals of orders in state, each of another order.
Removals(c, e, b) ==
  /\ b \in Seq(Operations)
  /\ \A i \in DOMAIN b : /\ b[i].op = "remove" /\ b[i].id \in Ids
                         /\ WithId(c.placed, b[i].id) # {} /\ b[i].id \notin e.removed
  /\ \A i, j \in DOMAIN b : b[i].id = b[j].id => i = j

RemovedIds(b) == {b[i].id : i \in DOMAIN b}

\* One removal after the other is accepted.
LEMMA RemovalsShed ==
  ASSUME NEW c, ChainOK(c), NEW hgt, NEW a \in Seq(Operations), NEW b,
         Removals(c, DeliverAt(c, hgt, a), b)
  PROVE  Shed(DeliverAt(c, hgt, a), RemovedIds(b), DeliverAt(c, hgt, a \o b))
  <1> DEFINE m == Len(b)
             e == DeliverAt(c, hgt, a)
             Upto(k) == {b[i].id : i \in 1 .. k}
  <1>1. /\ b \in Seq(Operations) /\ m \in Nat /\ DOMAIN b = 1 .. m
        /\ \A k \in 1 .. m : b[k] \in Operations
    BY DEF Removals
  <1>2. PICK g : DeliverAt(c, hgt, a \o b) = g[m] /\ Onward(g, hgt, e, b, m)
    BY <1>1, DeliverMore
  <1>3. Settling(c, e)
    BY SettlesAll
  <1>4. /\ \A i \in 1 .. m : /\ b[i].op = "remove" /\ b[i].id \in Ids
                             /\ WithId(c.placed, b[i].id) # {} /\ b[i].id \notin e.removed
        /\ \A i, j \in 1 .. m : b[i].id = b[j].id => i = j
    BY <1>1 DEF Removals
  <1> HIDE DEF m, e
  <1> DEFINE Inv(k) == Settling(c, g[k]) /\ Shed(e, Upto(k), g[k])
             Good == {k \in 0 .. m : Inv(k)}
  <1>5. 0 \in Good
    <2>1. g[0] = e /\ Upto(0) = {}
      BY <1>2 DEF Onward
    <2> HIDE DEF Upto
    <2>2. Shed(e, Upto(0), e)
      BY <1>3, <2>1 DEF Shed, Settling
    <2> QED
      BY <1>1, <1>3, <2>1, <2>2
  <1>6. ASSUME NEW k \in 1 .. m, k - 1 \in Good PROVE k \in Good
    <2>1. PICK d : d = g[k - 1]
      OBVIOUS
    <2>2. Settling(c, d) /\ Shed(e, Upto(k - 1), d)
      BY <1>6, <2>1
    <2>3. g[k] = DeliverOpAt(hgt, d, b[k])
      BY <1>2, <2>1 DEF Onward
    <2>4. g[k] = DeliverRemoval(d, b[k].id)
      BY <1>4, <2>3 DEF DeliverOpAt
    <2>5. k \in 0 .. m /\ k - 1 \in Nat /\ k \in Nat /\ Upto(k) = Upto(k - 1) \cup {b[k].id}
      BY <1>1
    <2>6. b[k].id \notin Upto(k - 1)
      BY <1>1, <1>4
    <2> HIDE DEF Upto
    <2>7. Removable(c, d, b[k].id)
      BY <1>4, <2>2, <2>6 DEF Removable, Shed
    <2>8. Shed(d, {b[k].id}, g[k])
      BY <2>4, <2>7, RemovalSheds
    <2>9. Shed(e, Upto(k), g[k])
      BY <2>2, <2>5, <2>8 DEF Shed
    <2>10. Settling(c, g[k])
      BY <1>1, <2>2, <2>3, SettlesOp
    <2> QED
      BY <2>5, <2>9, <2>10
  <1>7. Inv(m)
    <2>1. \A k \in 0 .. m : k \in Good
      <3> HIDE DEF Good
      <3> QED
        BY <1>1, <1>5, <1>6, Induct
    <2>2. m \in Good
      <3> HIDE DEF Good
      <3> QED
        BY <1>1, <2>1
    <2> HIDE DEF Inv
    <2> QED
      BY <2>2
  <1>8. Upto(m) = RemovedIds(b)
    BY <1>1 DEF RemovedIds
  <1>9. Shed(e, Upto(m), g[m])
    BY <1>7
  <1> HIDE DEF Upto
  <1>10. Shed(e, RemovedIds(b), DeliverAt(c, hgt, a \o b))
    BY <1>2, <1>8, <1>9
  <1> QED
    BY <1>10 DEF e

\* The orders of S are placed; otherwise the delivery stands as it did.
Introduced(d, S, e) ==
  /\ e \in Deliveries /\ e.ok = d.ok /\ e.fill = d.fill /\ e.placed = d.placed
  /\ e.removed = d.removed /\ e.liquidated = d.liquidated
  /\ \A h \in S : ~IsStateful(h) => e.short[Id(h)] = h
  /\ \A id \in ShortTermIds : (\A h \in S : Id(h) # id) => e.short[id] = d.short[id]

\* A short-term order that is not expired, and newer than what was placed.
Introducible(hgt, d, h) ==
  /\ h \in Hashes
  /\ ~IsStateful(h) => /\ ValidGoodTilBlock(Order(h).goodTil, hgt + 1)
                       /\ d.short[Id(h)] = None \/ IsReplacedBy(d.short[Id(h)], h)

\* Its placement is accepted.
LEMMA PlacementAdds ==
  ASSUME NEW hgt, NEW d \in Deliveries, NEW h, Introducible(hgt, d, h)
  PROVE  Introduced(d, {h}, DeliverOpAt(hgt, d, Placement(h)))
  <1> DEFINE e == [d EXCEPT !.short[Id(h)] = h]
  <1>1. h \in Hashes
    BY DEF Introducible
  <1>2. CASE IsStateful(h)
    <2>1. Placement(h) = [op |-> "preexisting", id |-> Id(h)]
      BY <1>2 DEF Placement
    <2>2. DeliverOpAt(hgt, d, Placement(h)) = d
      BY <2>1 DEF DeliverOpAt
    <2> QED
      BY <1>2, <2>2 DEF Introduced
  <1>3. CASE ~IsStateful(h)
    <2>1. Placement(h) = [op |-> "place", order |-> h]
      BY <1>3 DEF Placement
    <2>2. DeliverOpAt(hgt, d, Placement(h)) = DeliverPlacementAt(hgt, d, h)
      BY <2>1 DEF DeliverOpAt
    <2>3. /\ ValidGoodTilBlock(Order(h).goodTil, hgt + 1)
          /\ d.short[Id(h)] # None => IsReplacedBy(d.short[Id(h)], h)
      BY <1>3 DEF Introducible
    <2>4. DeliverPlacementAt(hgt, d, h) = e
      BY <2>3, Zenon DEF DeliverPlacementAt
    <2>5. d.short \in [ShortTermIds -> Hashes \cup {None}] /\ Id(h) \in ShortTermIds
      BY <1>1, <1>3, OrderTypes DEF Deliveries
    <2>6. /\ e \in Deliveries /\ e.fill = d.fill /\ e.placed = d.placed /\ e.removed = d.removed
          /\ e.ok = d.ok /\ e.liquidated = d.liquidated /\ e.short = [d.short EXCEPT ![Id(h)] = h]
      BY <1>1, <2>5 DEF Deliveries
    <2> HIDE DEF e
    <2>7. \A id \in ShortTermIds : e.short[id] = IF id = Id(h) THEN h ELSE d.short[id]
      BY <2>5, <2>6
    <2>8. Introduced(d, {h}, e)
      BY <2>5, <2>6, <2>7 DEF Introduced
    <2> QED
      BY <2>2, <2>4, <2>8
  <1> QED
    BY <1>2, <1>3

\* The placements of hs may be delivered.
Introducing(hgt, d, hs) ==
  /\ hs \in Seq(Hashes) /\ IsInjective(hs) /\ DistinctIds(ToSet(hs))
  /\ \A h \in ToSet(hs) : Introducible(hgt, d, h)

\* One placement after the other is accepted.
LEMMA PlacementsAdd ==
  ASSUME NEW c, ChainOK(c), NEW hgt, NEW a \in Seq(Operations), NEW hs,
         Introducing(hgt, DeliverAt(c, hgt, a), hs)
  PROVE  Introduced(DeliverAt(c, hgt, a), ToSet(hs), DeliverAt(c, hgt, a \o Placements(hs)))
  <1> DEFINE m == Len(hs)
             b == Placements(hs)
             e == DeliverAt(c, hgt, a)
             Upto(k) == {hs[i] : i \in 1 .. k}
  <1>1. /\ hs \in Seq(Hashes) /\ m \in Nat /\ DOMAIN hs = 1 .. m /\ ToSet(hs) = Upto(m)
        /\ \A k \in 1 .. m : hs[k] \in Hashes /\ hs[k] \in ToSet(hs)
    BY DEF Introducing, ToSet
  <1>2. /\ b \in Seq(Operations) /\ Len(b) = m
        /\ \A k \in 1 .. m : b[k] = Placement(hs[k])
    BY <1>1, PlacementsAre
  <1> HIDE DEF b
  <1>3. PICK g : DeliverAt(c, hgt, a \o b) = g[m] /\ Onward(g, hgt, e, b, m)
    BY <1>2, DeliverMore
  <1>4. Settling(c, e) /\ e \in Deliveries
    BY SettlesAll DEF Settling
  <1>5. /\ \A i \in 1 .. m : Introducible(hgt, e, hs[i])
        /\ \A i, j \in 1 .. m : Id(hs[i]) = Id(hs[j]) => i = j
    BY <1>1 DEF Introducing, DistinctIds, IsInjective
  <1> HIDE DEF m, e
  <1> DEFINE Inv(k) == Introduced(e, Upto(k), g[k])
             Good == {k \in 0 .. m : Inv(k)}
  <1>6. 0 \in Good
    <2>1. g[0] = e /\ Upto(0) = {} /\ 0 \in 0 .. m
      BY <1>1, <1>3 DEF Onward
    <2> HIDE DEF Upto
    <2>2. Introduced(e, Upto(0), g[0])
      BY <1>4, <2>1 DEF Introduced
    <2> QED
      BY <2>1, <2>2
  <1>7. ASSUME NEW k \in 1 .. m, k - 1 \in Good PROVE k \in Good
    <2>1. PICK d : d = g[k - 1]
      OBVIOUS
    <2>2. PICK h : h = hs[k]
      OBVIOUS
    <2>3. Introduced(e, Upto(k - 1), d)
      BY <1>7, <2>1
    <2>4. g[k] = DeliverOpAt(hgt, d, Placement(h))
      BY <1>2, <1>3, <2>1, <2>2 DEF Onward
    <2>5. k \in 0 .. m /\ k - 1 \in Nat /\ k \in Nat /\ Upto(k) = Upto(k - 1) \cup {h}
      <3>1. k \in 0 .. m /\ k - 1 \in Nat /\ k \in Nat
        BY <1>1
      <3>2. 1 .. k = (1 .. k - 1) \cup {k}
        BY <3>1
      <3>3. Upto(k) = Upto(k - 1) \cup {h}
        BY <2>2, <3>2
      <3> QED
        BY <3>1, <3>3
    <2>6. \A x \in Upto(k - 1) : Id(x) # Id(h)
      BY <1>1, <1>5, <2>2
    <2>7. h \in Hashes /\ Introducible(hgt, e, h)
      BY <1>1, <1>5, <2>2
    <2> HIDE DEF Upto
    <2>8. ~IsStateful(h) => Id(h) \in ShortTermIds
      BY <2>7, OrderTypes
    <2>9. Introducible(hgt, d, h) /\ d \in Deliveries
      BY <2>3, <2>6, <2>7, <2>8 DEF Introducible, Introduced
    <2>10. Introduced(d, {h}, g[k])
      BY <2>4, <2>9, PlacementAdds
    <2>11. \A x \in Upto(k - 1) : x \in Hashes
      BY <1>1, <2>5 DEF Upto
    <2>12. \A x \in Hashes : ~IsStateful(x) => Id(x) \in ShortTermIds
      BY OrderTypes
    <2>13. \A x \in Upto(k) : ~IsStateful(x) => g[k].short[Id(x)] = x
      BY <2>3, <2>5, <2>6, <2>10, <2>11, <2>12 DEF Introduced
    <2>14. \A id \in ShortTermIds : (\A x \in Upto(k) : Id(x) # id) => g[k].short[id] = e.short[id]
      BY <2>3, <2>5, <2>10 DEF Introduced
    <2>15. Introduced(e, Upto(k), g[k])
      BY <2>3, <2>10, <2>13, <2>14 DEF Introduced
    <2> QED
      BY <2>5, <2>15
  <1>8. Inv(m)
    <2>1. \A k \in 0 .. m : k \in Good
      <3> HIDE DEF Good
      <3> QED
        BY <1>1, <1>6, <1>7, Induct
    <2>2. m \in Good
      <3> HIDE DEF Good
      <3> QED
        BY <1>1, <2>1
    <2> HIDE DEF Inv
    <2> QED
      BY <2>2
  <1>9. Introduced(e, Upto(m), g[m])
    BY <1>8
  <1> HIDE DEF Upto
  <1>10. Introduced(e, ToSet(hs), DeliverAt(c, hgt, a \o b))
    BY <1>1, <1>3, <1>9
  <1> QED
    BY <1>10 DEF e, b

-----------------------------------------------------------------------------
(* Delivering the match of a taker.                                        *)

\* The turns of the loop that led to r.
Arrived(M, fills, taker, r) == \E f, n : r = f[n] /\ History(M, fills, taker, f, n)

\* DeliverTx is where CheckTx was, and finds both sides.
CanTrade(c, M, fills, taker, r, e) ==
  /\ Ready(M, fills, taker) /\ Looped(M, fills, taker, r) /\ Arrived(M, fills, taker, r)
  /\ r.fills # <<>> /\ Settling(c, e) /\ Level(e, fills, taker) /\ Found(e, r)
  /\ taker \in Hashes =>
       /\ Fetch(e, Id(taker)) = {taker}
       /\ RequiresImmediateExecution(taker) => fills[Id(taker)] = 0
  /\ taker \in Liquidations => taker \notin e.liquidated

\* The delivery q of the match of the run r arrives at its fill amounts.
Traded(e, taker, r, q) ==
  /\ q \in Deliveries /\ q.ok /\ q.short = e.short /\ q.removed = e.removed
  /\ q.liquidated = e.liquidated \cup LiquidationsOf(Id(taker))
  /\ \A id \in Ids : id \in e.removed \/ q.fill[id] = r.fill[id]

\* The taker is the only candidate.
LEMMA TakerFound ==
  ASSUME NEW c, NEW M, NEW fills, NEW taker, NEW r, NEW e, CanTrade(c, M, fills, taker, r, e)
  PROVE  TakersOf(e, Id(taker)) = {taker}
  <1>1. /\ Settling(c, e) /\ e \in Deliveries
        /\ taker \in Hashes \cup Liquidations /\ ~IsPostOnly(taker)
    BY DEF CanTrade, Settling, Ready, Looped, LoopMet
  <1>2. CASE taker \in Hashes
    <2>1. Fetch(e, Id(taker)) = {taker}
      BY <1>2 DEF CanTrade
    <2>2. RequiresImmediateExecution(taker) => e.fill[Id(taker)] = 0
      BY <1>2, OrderTypes DEF CanTrade, Level
    <2>3. LiquidationsOf(Id(taker)) = {}
      BY <1>2, OrderTypes, LiquidationTypes DEF LiquidationsOf, Liquidations
    <2> QED
      BY <1>1, <2>1, <2>2, <2>3 DEF TakersOf
  <1>3. CASE taker \in Liquidations
    <2>1. \A h \in Fetch(e, Id(taker)) : h \in Hashes /\ Id(h) = Id(taker)
      BY <1>1, FetchIs
    <2>2. Fetch(e, Id(taker)) = {}
      BY <1>3, <2>1, LiquidationTypes, OrderTypes
    <2>3. LiquidationsOf(Id(taker)) = {taker}
      BY <1>3, MemClobAssumption DEF LiquidationsOf, Liquidations
    <2>4. taker \notin e.liquidated
      BY <1>3 DEF CanTrade
    <2> QED
      BY <2>2, <2>3, <2>4 DEF TakersOf
  <1> QED
    BY <1>1, <1>2, <1>3

\* Each maker is filled once.
LEMMA FilledOnceEach ==
  ASSUME NEW M, NEW fills, NEW taker, NEW r, Ready(M, fills, taker), Looped(M, fills, taker, r)
  PROVE  DistinctFills(FillsOf(r.fills)) /\ FillsOf(r.fills) \in Seq(FillRecords)
         /\ (r.fills # <<>> => FillsOf(r.fills) # <<>>)
  <1>1. r \in Runs /\ r.fills \in Seq(MatchFills)
    BY MakersAre DEF Looped, Runs, MatchFills
  <1>2. /\ FillsOf(r.fills) \in Seq(FillRecords) /\ DOMAIN FillsOf(r.fills) = DOMAIN r.fills
        /\ \A i \in DOMAIN r.fills : FillsOf(r.fills)[i].id = Id(r.fills[i].maker)
    BY <1>1, FillsOfIs
  <1>3. /\ Makers(r) \subseteq ToSet(M.book) /\ DistinctIds(ToSet(M.book))
        /\ \A i, j \in DOMAIN r.fills : r.fills[i].maker = r.fills[j].maker => i = j
    BY DEF Looped, LoopMet, Ready, Crossing
  <1>4. \A i \in DOMAIN r.fills : r.fills[i].maker \in ToSet(M.book)
    BY <1>3 DEF Makers
  <1>5. \A i, j \in DOMAIN r.fills : Id(r.fills[i].maker) = Id(r.fills[j].maker) => i = j
    BY <1>3, <1>4 DEF DistinctIds
  <1>6. PICK F : F = FillsOf(r.fills)
    OBVIOUS
  <1>7. DistinctFills(F)
    BY <1>2, <1>5, <1>6 DEF DistinctFills
  <1>8. r.fills # <<>> => F # <<>>
    BY <1>1, <1>2, <1>6
  <1> QED
    BY <1>2, <1>6, <1>7, <1>8

\* The match is accepted and fills what CheckTx filled.
LEMMA MatchTrades ==
  ASSUME NEW c, NEW hgt, NEW M, NEW fills, NEW taker, NEW r, NEW e,
         CanTrade(c, M, fills, taker, r, e)
  PROVE  Traded(e, taker, r, DeliverOpAt(hgt, e, MatchOp(taker, r.fills)))
  <1> DEFINE op == MatchOp(taker, r.fills)
             F == FillsOf(r.fills)
             E == Engaged(e, op)
  <1>1. op.op = "match" /\ op.taker = Id(taker) /\ op.fills = F
    BY DEF MatchOp, FillsOf
  <1>2. DistinctFills(F) /\ F # <<>>
    BY FilledOnceEach DEF CanTrade
  <1> HIDE DEF op, F
  <1>3. DeliverOpAt(hgt, e, op) = DeliverMatch(e, op)
    BY <1>1 DEF DeliverOpAt
  <1>4. TakersOf(e, Id(taker)) = {taker}
    BY TakerFound
  <1>5. DeliverMatch(e, op) = DeliverFills(E, taker, F)
    <2>1. DeliverMatch(e, op) =
            IF TakersOf(e, op.taker) = {} \/ op.fills = <<>> \/ ~DistinctFills(op.fills)
              THEN [e EXCEPT !.ok = FALSE]
              ELSE DeliverFills(E, CHOOSE h \in TakersOf(e, op.taker) : TRUE, op.fills)
      BY DeliverMatchIs
    <2>2. (CHOOSE h \in {taker} : TRUE) = taker
      OBVIOUS
    <2> HIDE DEF E
    <2> QED
      BY <1>1, <1>2, <1>4, <2>1, <2>2
  <1>6. e \in Deliveries
    BY DEF CanTrade, Settling
  <1>7. /\ E \in Deliveries /\ E.ok = e.ok /\ E.fill = e.fill /\ E.placed = e.placed
        /\ E.short = e.short /\ E.removed = e.removed
        /\ E.liquidated = e.liquidated \cup LiquidationsOf(Id(taker))
    BY <1>1, <1>6, EngagedIs
  <1> HIDE DEF E
  <1>8. Level(E, fills, taker)
    BY <1>7 DEF CanTrade, Level
  <1>9. Found(E, r)
    BY <1>7 DEF CanTrade, Found, Fetch
  <1>10. PICK f, n : r = f[n] /\ History(M, fills, taker, f, n)
    BY DEF CanTrade, Arrived
  <1>11. Ready(M, fills, taker)
    BY DEF CanTrade
  <1>12. Paid(E, f[n], DeliverFills(E, taker, FillsOf(f[n].fills)))
    BY <1>8, <1>9, <1>10, <1>11, LoopPays
  <1>13. PICK q : q = DeliverFills(E, taker, F)
    OBVIOUS
  <1>14. Paid(E, r, q)
    BY <1>10, <1>12, <1>13 DEF F
  <1>15. Traded(e, taker, r, q)
    BY <1>7, <1>14 DEF Traded, Paid
  <1> QED
    BY <1>3, <1>5, <1>13, <1>15 DEF op

-----------------------------------------------------------------------------
(* The queue tells DeliverTx what CheckTx did.                             *)

\* The delivery d arrives at the memclob M and the fill amounts of CheckTx.
Mirrors(M, fills, d) ==
  /\ d.ok /\ d.removed = M.removals
  /\ \A id \in Ids : id \in M.removals \/ d.fill[id] = fills[id]
  /\ \A id \in ShortTermIds : d.short[id] = M.matched[id]

\* MatchedOrderIdToOrder holds orders of the queue.
MatchedQueued(M) ==
  \A id \in Ids : M.matched[id] # None => M.matched[id] \in M.queued /\ Id(M.matched[id]) = id

PreexistingOp(id) == [op |-> "preexisting", id |-> id]
RemoveOp(id) == [op |-> "remove", id |-> id]

\* The queue names the stateful orders it fills or removes, and these are in
\* state.
Named(c, M, fills) ==
  /\ \A h \in M.queued : IsStateful(h) => PreexistingOp(Id(h)) \in ToSet(M.queue)
  /\ \A h \in Hashes : IsStateful(h) /\ fills[Id(h)] # c.fill[Id(h)]
                         => PreexistingOp(Id(h)) \in ToSet(M.queue)
  /\ \A id \in Ids : id \in M.removals <=> RemoveOp(id) \in ToSet(M.queue)
  /\ \A x \in ToSet(M.queue) : x.op \in {"preexisting", "remove"} => WithId(c.placed, x.id) # {}

\* What rests may be the maker of a match.
Matchable(hgt, M) ==
  \A h \in ToSet(M.book) :
    /\ ~RequiresImmediateExecution(h)
    /\ ~IsStateful(h) => ValidGoodTilBlock(Order(h).goodTil, hgt + 1)
    /\ IsStateful(h) => Id(h) \notin M.removals

\* The queue of M, delivered on top of c, arrives at what CheckTx did.
Reflects(c, hgt, M, fills) ==
  /\ Mirrors(M, fills, DeliverAt(c, hgt, M.queue))
  /\ MatchedQueued(M) /\ Named(c, M, fills)

\* What always holds of the queue, on top of the committed state c.
Tracks(c, hgt, M, fills) ==
  /\ ChainOK(c) /\ MemOK(M, fills) /\ InState(ToSet(M.book), c)
  /\ Reflects(c, hgt, M, fills) /\ Matchable(hgt, M)

\* The removal of the orders of hs joins the queue.
Withdrawn(M, hs, A) ==
  /\ A \in Mems /\ A.queue = M.queue \o Removing(M, hs) /\ A.queued = M.queued
  /\ A.removals = M.removals \cup {Id(h) : h \in ToRemove(M, hs)}
  /\ A.matched = M.matched

\* The removals of hs may be delivered.
Withdrawable(c, hgt, M, fills, hs) ==
  /\ ChainOK(c) /\ M \in Mems /\ Reflects(c, hgt, M, fills)
  /\ hs \in Seq(Hashes) /\ IsInjective(hs) /\ DistinctIds(ToSet(hs))
  /\ InState(ToSet(hs), c)

\* What joins the queue for the orders of hs.
LEMMA RemovingIs ==
  ASSUME NEW c, NEW hgt, NEW M, NEW fills, NEW hs, Withdrawable(c, hgt, M, fills, hs), NEW e,
         e.removed = M.removals
  PROVE  Removals(c, e, Removing(M, hs))
         /\ RemovedIds(Removing(M, hs)) = {Id(h) : h \in ToRemove(M, hs)}
  <1> DEFINE S == ToRemove(M, hs)
             K == Keep(hs, S)
             b == Removing(M, hs)
  <1>1. /\ M \in Mems /\ hs \in Seq(Hashes) /\ IsInjective(hs) /\ DistinctIds(ToSet(hs))
        /\ InState(ToSet(hs), c)
    BY DEF Withdrawable
  <1>2. ToSet(hs) \subseteq Hashes /\ S \subseteq ToSet(hs) /\ ToSet(hs) \cap S = S
    BY <1>1 DEF ToSet, ToRemove
  <1>3. \A h \in S : IsStateful(h) /\ Id(h) \notin M.removals
    BY DEF ToRemove
  <1>4. b = [i \in DOMAIN K |-> [op |-> "remove", id |-> Id(K[i])]]
    BY DEF Removing
  <1> HIDE DEF S
  <1>5. K \in Seq(Hashes) /\ ToSet(K) = S /\ IsInjective(K)
    BY <1>1, <1>2, KeepIs
  <1> HIDE DEF K
  <1>6. \A i \in DOMAIN K : K[i] \in S
    BY <1>5 DEF ToSet
  <1>7. /\ DOMAIN b = DOMAIN K
        /\ \A i \in DOMAIN K : b[i].op = "remove" /\ b[i].id = Id(K[i])
    BY <1>4
  <1>8. b \in Seq(Operations)
    BY <1>1, RemovingType
  <1> HIDE DEF b
  <1>9. \A i \in DOMAIN b : /\ b[i].id \in Ids /\ b[i].id \notin M.removals
                            /\ WithId(c.placed, b[i].id) # {}
    <2> SUFFICES ASSUME NEW i \in DOMAIN K
                 PROVE  /\ Id(K[i]) \in Ids /\ Id(K[i]) \notin M.removals
                        /\ WithId(c.placed, Id(K[i])) # {}
      BY <1>7
    <2>1. PICK h : h = K[i]
      OBVIOUS
    <2>2. h \in Hashes /\ IsStateful(h) /\ Id(h) \notin M.removals /\ h \in ToSet(hs)
      BY <1>2, <1>3, <1>6, <2>1
    <2>3. h \in ToSet(c.placed) /\ Id(h) \in Ids
      BY <1>1, <2>2, OrderTypes DEF InState
    <2>4. WithId(c.placed, Id(h)) # {}
      BY <2>3 DEF WithId
    <2> QED
      BY <2>1, <2>2, <2>3, <2>4
  <1>10. \A i, j \in DOMAIN b : b[i].id = b[j].id => i = j
    BY <1>1, <1>2, <1>5, <1>6, <1>7 DEF DistinctIds, IsInjective
  <1>11. Removals(c, e, b)
    BY <1>7, <1>8, <1>9, <1>10 DEF Removals
  <1>12. RemovedIds(b) = {Id(h) : h \in S}
    <2>1. \A i \in DOMAIN b : \E h \in S : b[i].id = Id(h)
      BY <1>6, <1>7
    <2>2. \A h \in S : \E i \in DOMAIN b : b[i].id = Id(h)
      BY <1>5, <1>7 DEF ToSet
    <2> QED
      BY <2>1, <2>2 DEF RemovedIds
  <1> QED
    BY <1>11, <1>12 DEF b, S

\* A delivery of the longer queue removes the orders.
LEMMA WithdrawReflects ==
  ASSUME NEW c, NEW hgt, NEW M, NEW fills, NEW hs, NEW A, Withdrawable(c, hgt, M, fills, hs),
         Withdrawn(M, hs, A)
  PROVE  /\ Reflects(c, hgt, A, fills)
         /\ DeliverAt(c, hgt, A.queue).liquidated = DeliverAt(c, hgt, M.queue).liquidated
  <1> DEFINE b == Removing(M, hs)
             R == {Id(h) : h \in ToRemove(M, hs)}
  <1>1. /\ ChainOK(c) /\ M \in Mems /\ hs \in Seq(Hashes) /\ InState(ToSet(hs), c)
        /\ M.queue \in Seq(Operations)
        /\ Mirrors(M, fills, DeliverAt(c, hgt, M.queue)) /\ MatchedQueued(M) /\ Named(c, M, fills)
    BY DEF Withdrawable, Reflects, Mems
  <1>2. /\ A.queue = M.queue \o b /\ A.queued = M.queued /\ A.removals = M.removals \cup R
        /\ A.matched = M.matched
    BY DEF Withdrawn
  <1>3. /\ b \in Seq(Operations)
        /\ ToSet(b) = {[op |-> "remove", id |-> Id(h)] : h \in ToRemove(M, hs)}
    BY <1>1, RemoveFromStateDoes
  <1>4. PICK e : e = DeliverAt(c, hgt, M.queue)
    OBVIOUS
  <1>5. e.removed = M.removals
    BY <1>1, <1>4 DEF Mirrors
  <1>6. Removals(c, e, b) /\ RemovedIds(b) = R
    BY <1>5, RemovingIs
  <1>7. \A h \in ToRemove(M, hs) : h \in Hashes /\ Id(h) \in Ids /\ WithId(c.placed, Id(h)) # {}
    BY <1>1, OrderTypes DEF ToRemove, InState, ToSet, WithId
  <1>8. /\ \A id \in Ids : id \in R => RemoveOp(id) \in ToSet(b)
        /\ \A x \in ToSet(b) : \E id \in R : x = RemoveOp(id)
        /\ \A id \in R : WithId(c.placed, id) # {} /\ id \in Ids
    BY <1>3, <1>7 DEF RemoveOp
  <1> HIDE DEF b, R
  <1>9. PICK d : d = DeliverAt(c, hgt, A.queue)
    OBVIOUS
  <1>10. Shed(e, R, d)
    <2>1. Shed(e, RemovedIds(b), DeliverAt(c, hgt, M.queue \o b))
      BY <1>1, <1>4, <1>6, RemovalsShed
    <2> QED
      BY <1>2, <1>6, <1>9, <2>1
  <1>11. Mirrors(A, fills, d)
    BY <1>1, <1>2, <1>4, <1>10 DEF Mirrors, Shed
  <1>12. ToSet(A.queue) = ToSet(M.queue) \cup ToSet(b)
    BY <1>1, <1>2, <1>3, ConcatSet
  <1>13. \A x \in ToSet(b) : x.op = "remove" /\ x.id \in R /\ x = RemoveOp(x.id)
    BY <1>8 DEF RemoveOp
  <1>14. \A x, y : RemoveOp(x) = RemoveOp(y) => x = y
    <2> SUFFICES ASSUME NEW x, NEW y, RemoveOp(x) = RemoveOp(y) PROVE x = y
      OBVIOUS
    <2>1. RemoveOp(x).id = x /\ RemoveOp(y).id = y
      BY DEF RemoveOp
    <2> QED
      BY <2>1
  <1>15. \A id \in Ids : id \in A.removals <=> RemoveOp(id) \in ToSet(A.queue)
    <2>1. \A id \in Ids : RemoveOp(id) \in ToSet(b) <=> id \in R
      BY <1>8, <1>13, <1>14
    <2> QED
      BY <1>1, <1>2, <1>12, <2>1 DEF Named
  <1>16. \A x \in ToSet(A.queue) : x.op \in {"preexisting", "remove"} => WithId(c.placed, x.id) # {}
    BY <1>1, <1>8, <1>12, <1>13 DEF Named
  <1>17. Named(c, A, fills)
    BY <1>1, <1>2, <1>12, <1>15, <1>16 DEF Named
  <1>18. MatchedQueued(A)
    BY <1>1, <1>2 DEF MatchedQueued
  <1> QED
    BY <1>4, <1>9, <1>10, <1>11, <1>17, <1>18 DEF Reflects, Shed

\* The taker may be proposed.
Takes(c, hgt, M, fills, taker) ==
  /\ Admitted(M, fills, taker) /\ InState({taker}, c)
  /\ taker \in Hashes =>
       /\ ~IsStateful(taker) => ValidGoodTilBlock(Order(taker).goodTil, hgt + 1)
       /\ IsStateful(taker) => Id(taker) \notin M.removals
       /\ RequiresImmediateExecution(taker) => fills[Id(taker)] = 0
  /\ taker \in Liquidations => taker \notin DeliverAt(c, hgt, M.queue).liquidated

\* The makers that fail are in the book and are not the taker.
OutOf(M, taker, out) ==
  /\ out \in Seq(Hashes) /\ ToSet(out) \subseteq ToSet(M.book) /\ IsInjective(out)
  /\ \A h \in ToSet(out) : Id(h) # Id(taker)

\* The makers that failed leave the book, and the state when they are in it.
LEMMA OffTracks ==
  ASSUME NEW c, NEW hgt, NEW M, NEW fills, NEW taker, NEW out, Tracks(c, hgt, M, fills),
         Takes(c, hgt, M, fills, taker), OutOf(M, taker, out),
         NEW A, A = RemoveMakers(M, taker, out)
  PROVE  /\ Tracks(c, hgt, A, fills) /\ Takes(c, hgt, A, fills, taker)
         /\ RestingWith(A, Id(taker)) = {} /\ RemovedBy(M, taker, out, A)
  <1>1. /\ ChainOK(c) /\ MemOK(M, fills) /\ M \in Mems /\ InState(ToSet(M.book), c)
        /\ Reflects(c, hgt, M, fills) /\ Matchable(hgt, M) /\ DistinctIds(ToSet(M.book))
        /\ ToSet(M.book) \subseteq Hashes
    BY BookType DEF Tracks, MemOK
  <1>2. /\ out \in Seq(Hashes) /\ ToSet(out) \subseteq ToSet(M.book) /\ IsInjective(out)
        /\ \A h \in ToSet(out) : Id(h) # Id(taker)
    BY DEF OutOf
  <1>3. MemOK(A, fills) /\ Admitted(A, fills, taker) /\ RestingWith(A, Id(taker)) = {}
    BY <1>1, <1>2, OffOK DEF Takes
  <1>4. RemovedBy(M, taker, out, A)
    BY <1>1, <1>2, RemovedMakers
  <1>5. Withdrawable(c, hgt, M, fills, out)
    <2>1. DistinctIds(ToSet(out)) /\ InState(ToSet(out), c)
      BY <1>1, <1>2 DEF DistinctIds, InState
    <2> QED
      BY <1>1, <1>2, <2>1 DEF Withdrawable
  <1>6. Withdrawn(M, out, A)
    BY <1>4 DEF RemovedBy, Withdrawn
  <1>7. Reflects(c, hgt, A, fills)
        /\ DeliverAt(c, hgt, A.queue).liquidated = DeliverAt(c, hgt, M.queue).liquidated
    BY <1>5, <1>6, WithdrawReflects
  <1>8. ToSet(A.book) \subseteq ToSet(M.book) \ ToSet(out)
        /\ A.removals = M.removals \cup {Id(h) : h \in ToRemove(M, out)}
    BY <1>4 DEF RemovedBy
  <1>9. \A h \in ToRemove(M, out) : h \in ToSet(out)
    BY DEF ToRemove
  <1>10. Matchable(hgt, A)
    BY <1>1, <1>2, <1>8, <1>9 DEF Matchable, DistinctIds
  <1>11. InState(ToSet(A.book), c)
    BY <1>1, <1>8 DEF InState
  <1>12. Takes(c, hgt, A, fills, taker)
    <2>1. taker \in Hashes /\ IsStateful(taker) => Id(taker) \notin A.removals
      BY <1>2, <1>8, <1>9 DEF Takes
    <2> QED
      BY <1>3, <1>7, <2>1 DEF Takes
  <1> QED
    BY <1>1, <1>3, <1>4, <1>7, <1>10, <1>11, <1>12 DEF Tracks

\* L is the memclob the loop ran on, M the one without what the loop took off.
CanUpdate(c, hgt, L, M, fills, taker, r) ==
  /\ Tracks(c, hgt, M, fills) /\ Takes(c, hgt, M, fills, taker) /\ RestingWith(M, Id(taker)) = {}
  /\ Fit(M, fills, taker, r) /\ r.fills # <<>>
  /\ Ready(L, fills, taker) /\ Looped(L, fills, taker, r) /\ Arrived(L, fills, taker, r)

\* The makers that are not queued may be placed.
LEMMA MakersIntroducing ==
  ASSUME NEW c, NEW hgt, NEW L, NEW M, NEW fills, NEW taker, NEW r,
         CanUpdate(c, hgt, L, M, fills, taker, r)
  PROVE  Introducing(hgt, DeliverAt(c, hgt, M.queue), NewMakers(M, r))
  <1> DEFINE hs == NewMakers(M, r)
             s == MakerSeq(r)
  <1>1. /\ M \in Mems /\ r \in Runs /\ MemOK(M, fills) /\ Makers(r) \subseteq ToSet(M.book)
        /\ DistinctIds(ToSet(M.book)) /\ ToSet(M.book) \subseteq Hashes /\ Matchable(hgt, M)
        /\ Reflects(c, hgt, M, fills)
        /\ \A i, j \in DOMAIN r.fills : r.fills[i].maker = r.fills[j].maker => i = j
    BY BookType DEF CanUpdate, Tracks, MemOK, Fit
  <1>2. /\ hs \in Seq(Hashes) /\ ToSet(hs) = Makers(r) \ M.queued
        /\ s \in Seq(Hashes) /\ DOMAIN s = DOMAIN r.fills
        /\ \A i \in DOMAIN r.fills : s[i] = r.fills[i].maker
    BY <1>1, MakersAre
  <1>3. IsInjective(hs)
    <2>1. PICK t : t = s
      OBVIOUS
    <2>2. IsInjective(t) /\ t \in Seq(Hashes)
      <3> HIDE DEF s
      <3> QED
        BY <1>1, <1>2, <2>1 DEF IsInjective
    <2>3. IsInjective(Keep(t, Makers(r) \ M.queued))
      BY <2>2, KeepIs
    <2> QED
      BY <2>1, <2>3 DEF NewMakers
  <1> HIDE DEF hs, s
  <1>4. DistinctIds(ToSet(hs))
    BY <1>1, <1>2 DEF DistinctIds
  <1>5. PICK d : d = DeliverAt(c, hgt, M.queue)
    OBVIOUS
  <1>6. \A id \in ShortTermIds : d.short[id] = M.matched[id]
    BY <1>1, <1>5 DEF Reflects, Mirrors
  <1>7. ASSUME NEW h \in ToSet(hs) PROVE Introducible(hgt, d, h)
    <2>1. h \in Hashes /\ h \in ToSet(M.book) /\ h \notin M.queued /\ Id(h) \in Ids /\ h # None
          /\ (~IsStateful(h) => Id(h) \in ShortTermIds)
      BY <1>1, <1>2, <1>7, OrderTypes
    <2>2. M.matched[Id(h)] # h
      BY <1>1, <2>1 DEF Reflects, MatchedQueued
    <2>3. M.matched[Id(h)] = None \/ IsReplacedBy(M.matched[Id(h)], h)
      BY <1>1, <2>1, <2>2 DEF MemOK, RestingKnown
    <2>4. ~IsStateful(h) => ValidGoodTilBlock(Order(h).goodTil, hgt + 1)
      BY <1>1, <2>1 DEF Matchable
    <2> QED
      BY <1>6, <2>1, <2>3, <2>4 DEF Introducible
  <1>8. Introducing(hgt, d, hs)
    BY <1>2, <1>3, <1>4, <1>7 DEF Introducing
  <1> QED
    BY <1>5, <1>8 DEF hs

\* The placement of the taker.
LEMMA TakerIntroduced ==
  ASSUME NEW c, ChainOK(c), NEW hgt, NEW a \in Seq(Operations), NEW taker,
         taker \in Hashes => Introducible(hgt, DeliverAt(c, hgt, a), taker)
  PROVE  Introduced(DeliverAt(c, hgt, a), {taker} \cap Hashes, DeliverAt(c, hgt, a \o TakerOp(taker)))
  <1>1. CASE taker \in Hashes
    <2> DEFINE t == <<taker>>
    <2>1. t \in Seq(Hashes) /\ ToSet(t) = {taker} /\ IsInjective(t) /\ Len(t) = 1 /\ t[1] = taker
          /\ DOMAIN t = 1 .. 1
      BY <1>1, SingletonSet DEF IsInjective
    <2>2. TakerOp(taker) \in Seq(Operations) /\ Len(TakerOp(taker)) = 1
          /\ TakerOp(taker)[1] = Placement(taker)
      BY <1>1, TakerOpType DEF TakerOp
    <2> HIDE DEF t
    <2>3. Introducing(hgt, DeliverAt(c, hgt, a), t)
      BY <1>1, <2>1 DEF Introducing, DistinctIds
    <2>4. Introduced(DeliverAt(c, hgt, a), ToSet(t), DeliverAt(c, hgt, a \o Placements(t)))
      BY <2>3, PlacementsAdd
    <2>5. Placements(t) = TakerOp(taker)
      <3>1. /\ Placements(t) \in Seq(Operations) /\ Len(Placements(t)) = 1
            /\ Placements(t)[1] = Placement(taker)
        BY <2>1, PlacementsAre
      <3>2. PICK x : x = Placements(t)
        OBVIOUS
      <3>3. PICK y : y = TakerOp(taker)
        OBVIOUS
      <3>4. x = y
        BY <2>2, <3>1, <3>2, <3>3, SeqSame
      <3> QED
        BY <3>2, <3>3, <3>4
    <2>6. ToSet(t) = {taker} \cap Hashes
      BY <1>1, <2>1
    <2> QED
      BY <2>4, <2>5, <2>6
  <1>2. CASE taker \notin Hashes
    <2>1. a \o TakerOp(taker) = a /\ {taker} \cap Hashes = {}
      BY <1>2 DEF TakerOp
    <2>2. DeliverAt(c, hgt, a) \in Deliveries
      BY SettlesAll DEF Settling
    <2> QED
      BY <2>1, <2>2 DEF Introduced
  <1> QED
    BY <1>1, <1>2

\* The queue without the match itself.
Prelude(M, taker, r) == (M.queue \o Placements(NewMakers(M, r))) \o TakerOp(taker)

\* Before the match, DeliverTx knows both sides.
LEMMA SidesJoin ==
  ASSUME NEW c, NEW hgt, NEW L, NEW M, NEW fills, NEW taker, NEW r,
         CanUpdate(c, hgt, L, M, fills, taker, r)
  PROVE  /\ Prelude(M, taker, r) \in Seq(Operations)
         /\ Introduced(DeliverAt(c, hgt, M.queue), Sides(taker, r),
                       DeliverAt(c, hgt, Prelude(M, taker, r)))
  <1> DEFINE hs == NewMakers(M, r)
             p == Placements(hs)
             a == M.queue \o p
             q == a \o TakerOp(taker)
  <1>1. /\ M \in Mems /\ r \in Runs /\ MemOK(M, fills) /\ Makers(r) \subseteq ToSet(M.book)
        /\ DistinctIds(ToSet(M.book)) /\ ToSet(M.book) \subseteq Hashes
        /\ Reflects(c, hgt, M, fills) /\ ChainOK(c) /\ Takes(c, hgt, M, fills, taker)
        /\ \A h \in Makers(r) : Id(h) # Id(taker)
    BY BookType DEF CanUpdate, Tracks, MemOK, Fit
  <1>2. M.queue \in Seq(Operations)
    BY <1>1 DEF Mems
  <1>3. hs \in Seq(Hashes) /\ ToSet(hs) = Makers(r) \ M.queued
    BY <1>1, MakersAre
  <1>4. p \in Seq(Operations)
    BY <1>3, PlacementsAre
  <1>5. PICK d0 : d0 = DeliverAt(c, hgt, M.queue)
    OBVIOUS
  <1>6. Introduced(d0, ToSet(hs), DeliverAt(c, hgt, a))
    BY <1>1, <1>2, <1>5, MakersIntroducing, PlacementsAdd
  <1> HIDE DEF hs, p
  <1>7. a \in Seq(Operations)
    BY <1>2, <1>4, ConcatSet
  <1> HIDE DEF a
  <1>8. PICK d1 : d1 = DeliverAt(c, hgt, a)
    OBVIOUS
  <1>9. taker \in Hashes => Introducible(hgt, d1, taker)
    <2> SUFFICES ASSUME taker \in Hashes PROVE Introducible(hgt, d1, taker)
      OBVIOUS
    <2>1. \A h \in ToSet(hs) : Id(h) # Id(taker)
      BY <1>1, <1>3
    <2>2. ~IsStateful(taker) => /\ Id(taker) \in ShortTermIds
                                /\ ValidGoodTilBlock(Order(taker).goodTil, hgt + 1)
      BY <1>1, OrderTypes DEF Takes
    <2>3. M.matched[Id(taker)] = None \/ IsReplacedBy(M.matched[Id(taker)], taker)
      BY <1>1, OrderTypes DEF Takes, Admitted
    <2>4. ~IsStateful(taker) => d1.short[Id(taker)] = M.matched[Id(taker)]
      BY <1>1, <1>5, <1>6, <1>8, <2>1, <2>2 DEF Introduced, Reflects, Mirrors
    <2> QED
      BY <2>2, <2>3, <2>4 DEF Introducible
  <1>10. Introduced(d1, {taker} \cap Hashes, DeliverAt(c, hgt, q))
    BY <1>1, <1>7, <1>8, <1>9, TakerIntroduced
  <1>11. q \in Seq(Operations)
    BY <1>7, TakerOpType, ConcatSet
  <1> HIDE DEF q
  <1>12. PICK d2 : d2 = DeliverAt(c, hgt, q)
    OBVIOUS
  <1>13. PICK T : T = Sides(taker, r)
    OBVIOUS
  <1>14. \A h \in T : h \in Hashes /\ (h \in Makers(r) \/ h = taker)
    BY <1>1, <1>13 DEF Sides
  <1>15. ASSUME NEW h \in T, ~IsStateful(h) PROVE d2.short[Id(h)] = h
    <2>1. h \in Hashes /\ Id(h) \in ShortTermIds /\ Id(h) \in Ids /\ h # None
      BY <1>14, <1>15, OrderTypes
    <2>2. CASE h = taker
      BY <1>10, <1>12, <1>15, <2>1, <2>2 DEF Introduced
    <2>3. CASE h # taker
      <3>1. h \in Makers(r) /\ Id(h) # Id(taker) /\ h \in ToSet(M.book)
        BY <1>1, <1>14, <2>3
      <3>2. d2.short[Id(h)] = d1.short[Id(h)]
        BY <1>10, <1>12, <2>1, <3>1 DEF Introduced
      <3>3. CASE h \notin M.queued
        BY <1>3, <1>6, <1>8, <1>15, <3>1, <3>2, <3>3 DEF Introduced
      <3>4. CASE h \in M.queued
        <4>1. M.matched[Id(h)] = h
          BY <1>1, <2>1, <3>1, <3>4 DEF MemOK, QueuedKnown, RestingKnown
        <4>2. \A x \in ToSet(hs) : Id(x) # Id(h)
          BY <1>1, <1>3, <3>1, <3>4 DEF DistinctIds
        <4>3. d1.short[Id(h)] = d0.short[Id(h)]
          BY <1>6, <1>8, <2>1, <4>2 DEF Introduced
        <4> QED
          BY <1>1, <1>5, <2>1, <3>2, <4>1, <4>3 DEF Reflects, Mirrors
      <3> QED
        BY <3>3, <3>4
    <2> QED
      BY <2>2, <2>3
  <1>16. ASSUME NEW id \in ShortTermIds, \A h \in T : Id(h) # id
         PROVE  d2.short[id] = d0.short[id]
    <2>1. \A h \in {taker} \cap Hashes : Id(h) # id
      BY <1>13, <1>16 DEF Sides
    <2>2. \A h \in ToSet(hs) : Id(h) # id
      BY <1>3, <1>13, <1>16 DEF Sides
    <2> QED
      BY <1>6, <1>8, <1>10, <1>12, <2>1, <2>2 DEF Introduced
  <1>17. Introduced(d0, T, d2)
    BY <1>6, <1>8, <1>10, <1>12, <1>15, <1>16 DEF Introduced
  <1>18. q = Prelude(M, taker, r)
    BY DEF q, a, p, hs, Prelude
  <1> QED
    BY <1>5, <1>11, <1>12, <1>13, <1>17, <1>18

\* No removal is of a short-term order.
LEMMA RemovalsStateful ==
  ASSUME NEW c, NEW M, NEW fills, ChainOK(c), M \in Mems, Named(c, M, fills), NEW h \in Hashes,
         ~IsStateful(h)
  PROVE  Id(h) \notin M.removals
  <1> SUFFICES ASSUME Id(h) \in M.removals PROVE FALSE
    OBVIOUS
  <1>1. Id(h) \in Ids
    BY OrderTypes
  <1>2. RemoveOp(Id(h)) \in ToSet(M.queue)
    BY <1>1 DEF Named
  <1>3. RemoveOp(Id(h)).op = "remove" /\ RemoveOp(Id(h)).id = Id(h)
    BY DEF RemoveOp
  <1>4. WithId(c.placed, Id(h)) # {}
    BY <1>2, <1>3 DEF Named
  <1>5. PICK g \in ToSet(c.placed) : Id(g) = Id(h)
    BY <1>4 DEF WithId
  <1>6. IsStateful(g) /\ g \in Hashes
    BY <1>5 DEF ChainOK, Chains, ToSet
  <1> QED
    BY <1>5, <1>6, SameId

\* An order in state that is not removed is found.
LEMMA StatefulFound ==
  ASSUME NEW c, ChainOK(c), NEW d, Settling(c, d), NEW h \in ToSet(c.placed), Id(h) \notin d.removed
  PROVE  Fetch(d, Id(h)) = {h}
  <1>1. IsStateful(h) /\ h \in Hashes /\ DistinctIds(ToSet(c.placed))
    BY DEF ChainOK, Chains, ToSet
  <1>2. Id(h) \notin ShortTermIds
    BY <1>1, OrderTypes
  <1>3. h \in ToSet(d.placed) /\ ToSet(d.placed) \subseteq ToSet(c.placed)
    BY DEF Settling
  <1>4. WithId(d.placed, Id(h)) = {h}
    BY <1>1, <1>3 DEF WithId, DistinctIds
  <1> QED
    BY <1>2, <1>4 DEF Fetch

\* DeliverTx can make the match.
LEMMA UpdateTrades ==
  ASSUME NEW c, NEW hgt, NEW L, NEW M, NEW fills, NEW taker, NEW r,
         CanUpdate(c, hgt, L, M, fills, taker, r),
         NEW e, e = DeliverAt(c, hgt, Prelude(M, taker, r))
  PROVE  CanTrade(c, L, fills, taker, r, e)
  <1>1. /\ M \in Mems /\ r \in Runs /\ MemOK(M, fills) /\ Makers(r) \subseteq ToSet(M.book)
        /\ ToSet(M.book) \subseteq Hashes /\ InState(ToSet(M.book), c)
        /\ Reflects(c, hgt, M, fills) /\ ChainOK(c) /\ Takes(c, hgt, M, fills, taker)
        /\ Matchable(hgt, M) /\ taker \in Hashes \cup Liquidations
    BY BookType DEF CanUpdate, Tracks, MemOK, Fit, Ready
  <1>2. PICK d : d = DeliverAt(c, hgt, M.queue)
    OBVIOUS
  <1>3. Introduced(d, Sides(taker, r), e) /\ Prelude(M, taker, r) \in Seq(Operations)
    BY <1>2, SidesJoin
  <1>4. Settling(c, e) /\ e \in Deliveries
    BY <1>1, <1>3, SettlesAll DEF Settling
  <1>5. e.removed = M.removals /\ e.ok /\ \A id \in Ids : id \in e.removed \/ e.fill[id] = fills[id]
    BY <1>1, <1>2, <1>3 DEF Introduced, Reflects, Mirrors
  <1>6. \A h \in Hashes : ~IsStateful(h) => Id(h) \notin M.removals
    BY <1>1, RemovalsStateful DEF Reflects
  <1>7. \A h \in Sides(taker, r) : /\ h \in Hashes /\ Id(h) \notin e.removed
                                   /\ IsStateful(h) => h \in ToSet(c.placed)
    <2> SUFFICES ASSUME NEW h \in Sides(taker, r)
                 PROVE  /\ h \in Hashes /\ Id(h) \notin e.removed
                        /\ IsStateful(h) => h \in ToSet(c.placed)
      OBVIOUS
    <2>1. CASE h = taker /\ taker \in Hashes
      BY <1>1, <1>5, <1>6, <2>1 DEF Takes, InState
    <2>2. CASE h \in Makers(r)
      BY <1>1, <1>5, <1>6, <2>2 DEF Matchable, InState
    <2> QED
      BY <2>1, <2>2 DEF Sides
  <1>8. \A h \in Sides(taker, r) : Fetch(e, Id(h)) = {h}
    <2> SUFFICES ASSUME NEW h \in Sides(taker, r) PROVE Fetch(e, Id(h)) = {h}
      OBVIOUS
    <2>1. CASE IsStateful(h)
      BY <1>1, <1>4, <1>7, <2>1, StatefulFound
    <2>2. CASE ~IsStateful(h)
      <3>1. Id(h) \in ShortTermIds /\ h # None /\ e.short[Id(h)] = h
        BY <1>3, <1>7, <2>2, OrderTypes DEF Introduced
      <3> QED
        BY <3>1 DEF Fetch
    <2> QED
      BY <2>1, <2>2
  <1>9. Found(e, r)
    BY <1>1, <1>7, <1>8 DEF Found, Sides, Matchable
  <1>10. Level(e, fills, taker)
    BY <1>4, <1>5, <1>7 DEF Level, Sides
  <1>11. taker \in Hashes => Fetch(e, Id(taker)) = {taker}
    BY <1>8 DEF Sides
  <1>12. taker \in Liquidations => taker \notin e.liquidated
    BY <1>1, <1>2, <1>3 DEF Takes, Introduced
  <1>13. taker \in Hashes /\ RequiresImmediateExecution(taker) => fills[Id(taker)] = 0
    BY <1>1 DEF Takes
  <1> QED
    BY <1>4, <1>9, <1>10, <1>11, <1>12, <1>13 DEF CanTrade, CanUpdate

\* What joins the queue names the stateful orders that are filled.
LEMMA UpdateNamed ==
  ASSUME NEW c, NEW hgt, NEW L, NEW M, NEW fills, NEW taker, NEW r, NEW U,
         CanUpdate(c, hgt, L, M, fills, taker, r), Updated(M, taker, r, U)
  PROVE  Named(c, U, r.fill)
  <1> DEFINE op == MatchOp(taker, r.fills)
             Q == ToSet(M.queue)
             N == {Placement(h) : h \in Sides(taker, r) \ M.queued}
  <1>1. /\ M \in Mems /\ r \in Runs /\ MemOK(M, fills) /\ Makers(r) \subseteq ToSet(M.book)
        /\ ToSet(M.book) \subseteq Hashes /\ InState(ToSet(M.book), c)
        /\ Named(c, M, fills) /\ ChainOK(c) /\ Takes(c, hgt, M, fills, taker)
        /\ taker \in Hashes \cup Liquidations /\ M.queue \in Seq(Operations)
        /\ Admitted(M, fills, taker)
    BY BookType DEF CanUpdate, Tracks, MemOK, Fit, Ready, Reflects, Mems, Takes
  <1>2. taker \notin M.queued
    BY <1>1, TakerNew
  <1>3. op \in Operations /\ op.op = "match"
    BY <1>1, MatchOpType
  <1>4. ToSet(U.queue) = Q \cup N \cup {op}
    <2> DEFINE p == Placements(NewMakers(M, r))
               t == TakerOp(taker)
    <2>1. p \in Seq(Operations) /\ ToSet(p) = {Placement(h) : h \in Makers(r) \ M.queued}
      BY <1>1, MakersAre, PlacementsAre
    <2>2. t \in Seq(Operations) /\ ToSet(t) = {Placement(h) : h \in {taker} \cap Hashes}
      BY TakerOpType
    <2>3. <<op>> \in Seq(Operations) /\ ToSet(<<op>>) = {op}
      BY <1>3, SingletonSet
    <2>4. U.queue = ((M.queue \o p) \o t) \o <<op>>
      BY DEF Updated
    <2>5. ToSet(p) \cup ToSet(t) = N
      <3> HIDE DEF p, t
      <3> QED
        BY <1>2, <2>1, <2>2 DEF Sides
    <2> HIDE DEF p, t, op, N
    <2>6. M.queue \o p \in Seq(Operations) /\ ToSet(M.queue \o p) = Q \cup ToSet(p)
      BY <1>1, <2>1, ConcatSet
    <2>7. PICK a : a = M.queue \o p
      OBVIOUS
    <2>8. a \in Seq(Operations) /\ ToSet(a) = Q \cup ToSet(p)
      BY <2>6, <2>7
    <2>9. a \o t \in Seq(Operations) /\ ToSet(a \o t) = ToSet(a) \cup ToSet(t)
      <3>1. t \in Seq(Operations)
        BY <2>2
      <3> QED
        BY <2>8, <3>1, ConcatSet
    <2>10. PICK b : b = a \o t
      OBVIOUS
    <2>11. b \in Seq(Operations) /\ ToSet(b) = ToSet(a) \cup ToSet(t)
      BY <2>9, <2>10
    <2>12. PICK s : s = <<op>>
      OBVIOUS
    <2>13. s \in Seq(Operations) /\ ToSet(s) = {op}
      BY <2>3, <2>12
    <2>14. ToSet(b \o s) = ToSet(b) \cup ToSet(s)
      BY <2>11, <2>13, ConcatSet
    <2>15. U.queue = b \o s
      BY <2>4, <2>7, <2>10, <2>12
    <2> QED
      BY <2>5, <2>8, <2>11, <2>13, <2>14, <2>15
  <1> HIDE DEF op
  <1>5. ASSUME NEW h \in Sides(taker, r)
        PROVE  h \in Hashes /\ (IsStateful(h) => WithId(c.placed, Id(h)) # {})
    <2>1. h \in Hashes /\ (IsStateful(h) => h \in ToSet(c.placed))
      BY <1>1 DEF Sides, Takes, InState
    <2> QED
      BY <2>1 DEF WithId
  <1>6. ASSUME NEW x \in N
        PROVE  \/ x.op = "place"
               \/ x.op = "preexisting" /\ WithId(c.placed, x.id) # {}
    <2>1. PICK h \in Sides(taker, r) : x = Placement(h)
      OBVIOUS
    <2>2. h \in Hashes /\ (IsStateful(h) => WithId(c.placed, Id(h)) # {})
      BY <1>5
    <2> QED
      BY <2>1, <2>2 DEF Placement
  <1>7. \A h \in Sides(taker, r) : IsStateful(h) => PreexistingOp(Id(h)) \in Q \cup N
    <2> SUFFICES ASSUME NEW h \in Sides(taker, r), IsStateful(h)
                 PROVE  PreexistingOp(Id(h)) \in Q \cup N
      OBVIOUS
    <2>1. CASE h \in M.queued
      BY <1>1, <2>1 DEF Named
    <2>2. CASE h \notin M.queued
      BY <2>2 DEF Placement, PreexistingOp
    <2> QED
      BY <2>1, <2>2
  <1> HIDE DEF N, Q
  <1>8. \A h \in U.queued : IsStateful(h) => PreexistingOp(Id(h)) \in ToSet(U.queue)
    BY <1>1, <1>4, <1>7 DEF Updated, Named, Q
  <1>9. ASSUME NEW h \in Hashes, IsStateful(h), r.fill[Id(h)] # c.fill[Id(h)]
        PROVE  PreexistingOp(Id(h)) \in ToSet(U.queue)
    <2>1. Id(h) \in Ids
      BY OrderTypes
    <2>2. CASE r.fill[Id(h)] = fills[Id(h)]
      BY <1>1, <1>4, <1>9, <2>2 DEF Named, Q
    <2>3. CASE r.fill[Id(h)] # fills[Id(h)]
      <3>1. PICK g \in Sides(taker, r) : Id(g) = Id(h)
        <4>1. Id(h) = Id(taker) \/ \E g \in Makers(r) : Id(g) = Id(h)
          BY <2>1, <2>3 DEF CanUpdate, Fit
        <4>2. Id(h) = Id(taker) => taker \in Hashes
          BY <1>1, <2>1, LiquidationTypes
        <4> QED
          BY <4>1, <4>2 DEF Sides
      <3>2. IsStateful(g)
        BY <1>5, <1>9, <3>1, SameId
      <3> QED
        BY <1>4, <1>7, <3>1, <3>2
    <2> QED
      BY <2>2, <2>3
  <1>10. \A id \in Ids : id \in U.removals <=> RemoveOp(id) \in ToSet(U.queue)
    <2>1. \A id : RemoveOp(id).op = "remove"
      BY DEF RemoveOp
    <2>2. \A id : RemoveOp(id) \notin N \cup {op}
      BY <1>3, <1>6, <2>1
    <2> QED
      BY <1>1, <1>4, <2>2 DEF Updated, Named, Q
  <1>11. \A x \in ToSet(U.queue) : x.op \in {"preexisting", "remove"} => WithId(c.placed, x.id) # {}
    BY <1>1, <1>3, <1>4, <1>6 DEF Named, Q
  <1> QED
    BY <1>8, <1>9, <1>10, <1>11 DEF Named

\* The match joins the queue, and DeliverTx arrives where CheckTx is.
LEMMA UpdateTracks ==
  ASSUME NEW c, NEW hgt, NEW L, NEW M, NEW fills, NEW taker, NEW r,
         CanUpdate(c, hgt, L, M, fills, taker, r), NEW U, U = UpdateWithMatches(M, taker, r)
  PROVE  /\ Tracks(c, hgt, U, r.fill) /\ Updated(M, taker, r, U) /\ RestingWith(U, Id(taker)) = {}
         /\ DeliverAt(c, hgt, U.queue).liquidated
              = DeliverAt(c, hgt, M.queue).liquidated \cup LiquidationsOf(Id(taker))
  <1> DEFINE op == MatchOp(taker, r.fills)
             p == Prelude(M, taker, r)
  <1>1. /\ M \in Mems /\ r \in Runs /\ MemOK(M, fills) /\ Makers(r) \subseteq ToSet(M.book)
        /\ ToSet(M.book) \subseteq Hashes /\ InState(ToSet(M.book), c) /\ Matchable(hgt, M)
        /\ Reflects(c, hgt, M, fills) /\ ChainOK(c) /\ Admitted(M, fills, taker)
        /\ taker \in Hashes \cup Liquidations /\ RestingWith(M, Id(taker)) = {}
        /\ Fit(M, fills, taker, r)
    BY BookType DEF CanUpdate, Tracks, MemOK, Fit, Ready, Takes
  <1>2. MemOK(U, r.fill) /\ RestingWith(U, Id(taker)) = {} /\ ToSet(U.book) \subseteq ToSet(M.book)
    BY <1>1, UpdateOK
  <1>3. DistinctIds(Sides(taker, r)) /\ taker \notin Makers(r)
    BY <1>1 DEF Fit, MemOK, DistinctIds, Sides
  <1>4. Updated(M, taker, r, U)
    BY <1>1, <1>3, UpdateDoes
  <1>5. Named(c, U, r.fill)
    BY <1>4, UpdateNamed
  <1>6. op \in Operations
    BY <1>1, MatchOpType
  <1>7. PICK d : d = DeliverAt(c, hgt, M.queue)
    OBVIOUS
  <1>8. PICK e : e = DeliverAt(c, hgt, p)
    OBVIOUS
  <1>9. p \in Seq(Operations) /\ Introduced(d, Sides(taker, r), e)
    BY <1>7, <1>8, SidesJoin
  <1>10. CanTrade(c, L, fills, taker, r, e)
    BY <1>8, UpdateTrades
  <1>11. U.queue = Append(p, op)
    <2>1. U.queue = p \o <<op>>
      BY <1>4 DEF Updated, Prelude
    <2> HIDE DEF p, op
    <2> QED
      BY <1>6, <1>9, <2>1
  <1> HIDE DEF p
  <1>12. PICK q : q = DeliverAt(c, hgt, U.queue)
    OBVIOUS
  <1>13. Traded(e, taker, r, q)
    <2>1. q = DeliverOpAt(hgt, e, op)
      <3> HIDE DEF op
      <3> QED
        BY <1>6, <1>8, <1>9, <1>11, <1>12, DeliverLast
    <2> QED
      BY <1>10, <2>1, MatchTrades
  <1>14. Mirrors(M, fills, d) /\ MatchedQueued(M)
    BY <1>1, <1>7 DEF Reflects
  <1>15. ASSUME NEW id \in ShortTermIds PROVE q.short[id] = U.matched[id]
    <2>1. q.short[id] = e.short[id] /\ id \in Ids
      BY <1>13, ShortIdsAre DEF Traded
    <2>2. CASE \E h \in Sides(taker, r) : Id(h) = id
      <3>1. PICK h \in Sides(taker, r) : Id(h) = id
        BY <2>2
      <3>2. h \in Hashes
        BY <1>1 DEF Sides
      <3>3. ~IsStateful(h)
        BY <3>1, <3>2, OrderTypes
      <3>4. e.short[id] = h /\ U.matched[id] = h
        BY <1>4, <1>9, <3>1, <3>3 DEF Introduced, Updated
      <3> QED
        BY <2>1, <3>4
    <2>3. CASE \A h \in Sides(taker, r) : Id(h) # id
      <3>1. e.short[id] = d.short[id] /\ U.matched[id] = M.matched[id]
        BY <1>4, <1>9, <2>1, <2>3 DEF Introduced, Updated
      <3> QED
        BY <1>14, <2>1, <3>1 DEF Mirrors
    <2> QED
      BY <2>2, <2>3
  <1>16. Mirrors(U, r.fill, q)
    <2>1. e.removed = d.removed /\ U.removals = M.removals
      BY <1>4, <1>9 DEF Introduced, Updated
    <2> QED
      BY <1>13, <1>14, <1>15, <2>1 DEF Mirrors, Traded
  <1>17. MatchedQueued(U)
    <2> SUFFICES ASSUME NEW id \in Ids, U.matched[id] # None
                 PROVE  U.matched[id] \in U.queued /\ Id(U.matched[id]) = id
      BY DEF MatchedQueued
    <2>1. CASE \E h \in Sides(taker, r) : Id(h) = id
      BY <1>4, <2>1 DEF Updated
    <2>2. CASE \A h \in Sides(taker, r) : Id(h) # id
      BY <1>4, <1>14, <2>2 DEF Updated, MatchedQueued
    <2> QED
      BY <2>1, <2>2
  <1>18. Matchable(hgt, U) /\ InState(ToSet(U.book), c)
    BY <1>1, <1>2, <1>4 DEF Matchable, InState, Updated
  <1>19. Tracks(c, hgt, U, r.fill)
    BY <1>1, <1>2, <1>5, <1>12, <1>16, <1>17, <1>18 DEF Tracks, Reflects
  <1>20. q.liquidated = d.liquidated \cup LiquidationsOf(Id(taker))
    BY <1>9, <1>13 DEF Introduced, Traded
  <1> QED
    BY <1>2, <1>4, <1>7, <1>12, <1>19, <1>20

-----------------------------------------------------------------------------
(* Matching an order.                                                      *)

\* What matching the taker leaves alone, and what became of the stateful orders
\* that left the book.
Frame(M, fills, taker, N, after) ==
  /\ M.removals \subseteq N.removals
  /\ \A id \in Ids : id # Id(taker) /\ RestingWith(M, id) = {} =>
       /\ after[id] = fills[id] /\ N.matched[id] = M.matched[id]
       /\ id \in N.removals => id \in M.removals
  /\ \A g \in ToSet(M.book) : IsStateful(g) =>
       g \in ToSet(N.book) \/ after[Id(g)] = Order(g).size \/ Id(g) \in N.removals

\* What matching comes to.
Handled(c, hgt, M, fills, taker, N, after) ==
  /\ Tracks(c, hgt, N, after) /\ Frame(M, fills, taker, N, after)
  /\ DeliverAt(c, hgt, N.queue).liquidated
       \subseteq DeliverAt(c, hgt, M.queue).liquidated \cup LiquidationsOf(Id(taker))

\* The run r of matchOrder may be kept.
CanMatch(c, hgt, M, fills, taker, r) ==
  /\ Tracks(c, hgt, M, fills) /\ Takes(c, hgt, M, fills, taker)
  /\ Looped(M, fills, taker, r) /\ Arrived(M, fills, taker, r)

\* The first half: the makers that failed leave.
LEMMA OffFrame ==
  ASSUME NEW c, NEW hgt, NEW M, NEW fills, NEW taker, NEW r, CanMatch(c, hgt, M, fills, taker, r),
         NEW A, A = RemoveMakers(M, taker, r.out)
  PROVE  /\ Tracks(c, hgt, A, fills) /\ Takes(c, hgt, A, fills, taker)
         /\ RestingWith(A, Id(taker)) = {} /\ Frame(M, fills, taker, A, fills)
         /\ Fit(A, fills, taker, r) /\ ToSet(A.book) \subseteq ToSet(M.book)
         /\ DeliverAt(c, hgt, A.queue).liquidated = DeliverAt(c, hgt, M.queue).liquidated
  <1>1. /\ MemOK(M, fills) /\ M \in Mems /\ Admitted(M, fills, taker)
        /\ ToSet(M.book) \subseteq Hashes
        /\ Looped(M, fills, taker, r) /\ Tracks(c, hgt, M, fills) /\ Takes(c, hgt, M, fills, taker)
    BY BookType DEF CanMatch, Tracks, Takes, MemOK
  <1>2. taker \in Hashes \cup Liquidations
    BY <1>1, TakerNew
  <1>3. /\ r \in Runs /\ r.out \in Seq(Hashes) /\ ToSet(r.out) \subseteq ToSet(M.book)
        /\ Makers(r) \subseteq ToSet(M.book)
    BY <1>1, <1>2, CrossingIs DEF Looped, LoopMet, Runs
  <1>4. OutOf(M, taker, r.out)
    BY <1>1, <1>3 DEF OutOf, Looped, LoopMet
  <1>5. /\ Tracks(c, hgt, A, fills) /\ Takes(c, hgt, A, fills, taker)
        /\ RestingWith(A, Id(taker)) = {} /\ RemovedBy(M, taker, r.out, A)
    BY <1>1, <1>4, OffTracks
  <1>6. ToSet(A.book) = ToSet(M.book) \ (ToSet(r.out) \cup RestingWith(M, Id(taker)))
        /\ A.matched = M.matched /\ A.removals = M.removals \cup {Id(h) : h \in ToRemove(M, r.out)}
    BY <1>5 DEF RemovedBy
  <1>7. Fit(A, fills, taker, r)
    BY <1>1, <1>3, <1>6 DEF Fit, Looped, LoopMet, LoopFills, RestingWith, Makers
  <1>8. \A g \in RestingWith(M, Id(taker)) : ~IsStateful(g)
    <2>1. CASE taker \in Liquidations
      <3>1. Id(taker) \notin Ids
        BY <2>1, LiquidationTypes
      <3>2. RestingWith(M, Id(taker)) = {}
        BY <1>1, <3>1, OrderTypes DEF RestingWith
      <3> QED
        BY <3>2
    <2>2. CASE taker \notin Liquidations
      BY <1>1, <2>2 DEF Admitted
    <2> QED
      BY <2>1, <2>2
  <1>9. \A g \in ToSet(r.out) : IsStateful(g) => Id(g) \in A.removals
    BY <1>6 DEF ToRemove
  <1>10. \A id \in A.removals : id \in M.removals \/ RestingWith(M, id) # {}
    BY <1>3, <1>6 DEF ToRemove, RestingWith
  <1>11. Frame(M, fills, taker, A, fills)
    BY <1>6, <1>8, <1>9, <1>10 DEF Frame
  <1>12. DeliverAt(c, hgt, A.queue).liquidated = DeliverAt(c, hgt, M.queue).liquidated
    <2>1. Withdrawable(c, hgt, M, fills, r.out)
      BY <1>1, <1>3, <1>4 DEF Withdrawable, Tracks, OutOf, MemOK, DistinctIds, InState
    <2>2. Withdrawn(M, r.out, A)
      BY <1>5 DEF RemovedBy, Withdrawn
    <2> QED
      BY <2>1, <2>2, WithdrawReflects
  <1> QED
    BY <1>5, <1>6, <1>7, <1>11, <1>12

\* The taker is done with: it rests, is filled, or the state is to forget it.
Concluded(taker, N, after) ==
  /\ taker \in ToSet(N.book) \/ after[Id(taker)] = Order(taker).size
       \/ (IsStateful(taker) => Id(taker) \in N.removals)
  /\ RequiresImmediateExecution(taker) =>
       after[Id(taker)] = Order(taker).size \/ (IsStateful(taker) => Id(taker) \in N.removals)

\* What the second half of matchOrder leaves behind.
Resolved(c, hgt, M, fills, taker, r, K) ==
  /\ Handled(c, hgt, M, fills, taker, K.mem, K.fill) /\ RestingWith(K.mem, Id(taker)) = {}
  /\ taker \in Hashes /\ IsStateful(taker) => Id(taker) \notin K.mem.removals
  /\ K.left = r.left /\ K.status = r.status
  /\ taker \in Hashes /\ r.status = "Success" /\ r.left = 0 => K.fill[Id(taker)] = Order(taker).size

\* matchOrder keeps the queue a mirror of the CheckTx state, whether the fills
\* are kept or dropped after an error.
LEMMA KeepResolves ==
  ASSUME NEW c, NEW hgt, NEW M, NEW fills, NEW taker, NEW r, CanMatch(c, hgt, M, fills, taker, r),
         NEW K, K = KeepMatches(M, fills, taker, r)
  PROVE  Resolved(c, hgt, M, fills, taker, r, K)
  <1> DEFINE A == RemoveMakers(M, taker, r.out)
             U == UpdateWithMatches(A, taker, r)
  <1>1. K = [mem |-> IF Valid(r) THEN U ELSE A,
             fill |-> IF Valid(r) THEN r.fill ELSE fills,
             left |-> r.left, status |-> r.status]
    BY DEF KeepMatches, Valid
  <1>2. /\ Tracks(c, hgt, A, fills) /\ Takes(c, hgt, A, fills, taker)
        /\ RestingWith(A, Id(taker)) = {} /\ Frame(M, fills, taker, A, fills)
        /\ Fit(A, fills, taker, r) /\ ToSet(A.book) \subseteq ToSet(M.book)
        /\ DeliverAt(c, hgt, A.queue).liquidated = DeliverAt(c, hgt, M.queue).liquidated
    BY OffFrame
  <1> HIDE DEF A
  <1>3. /\ Tracks(c, hgt, M, fills) /\ Looped(M, fills, taker, r) /\ Arrived(M, fills, taker, r)
        /\ MemOK(M, fills) /\ Ready(M, fills, taker)
    BY AdmittedReady DEF CanMatch, Tracks, Takes
  <1>4. CASE Valid(r)
    <2>1. CanUpdate(c, hgt, M, A, fills, taker, r)
      BY <1>2, <1>3, <1>4 DEF CanUpdate, Valid
    <2>2. /\ Tracks(c, hgt, U, r.fill) /\ Updated(A, taker, r, U) /\ RestingWith(U, Id(taker)) = {}
          /\ DeliverAt(c, hgt, U.queue).liquidated
               = DeliverAt(c, hgt, A.queue).liquidated \cup LiquidationsOf(Id(taker))
      BY <2>1, UpdateTracks
    <2> HIDE DEF U
    <2>3. /\ U.removals = A.removals /\ ToSet(U.book) = ToSet(A.book) \ FilledMakers(r)
          /\ \A id \in Ids : (\A h \in Sides(taker, r) : Id(h) # id) => U.matched[id] = A.matched[id]
      BY <2>2 DEF Updated
    <2>4. Makers(r) \subseteq ToSet(M.book)
      BY <1>2 DEF Fit
    <2>5. ASSUME NEW id \in Ids, id # Id(taker), RestingWith(M, id) = {}
          PROVE  r.fill[id] = fills[id] /\ U.matched[id] = M.matched[id]
      <3>1. \A h \in Sides(taker, r) : Id(h) # id
        BY <2>4, <2>5 DEF Sides, RestingWith
      <3>2. r.fill[id] = fills[id]
        BY <1>2, <2>5, <3>1 DEF Fit, Sides
      <3> QED
        BY <1>2, <2>3, <2>5, <3>1, <3>2 DEF Frame
    <2>6. ASSUME NEW g \in ToSet(M.book), IsStateful(g)
          PROVE  g \in ToSet(U.book) \/ r.fill[Id(g)] = Order(g).size \/ Id(g) \in U.removals
      <3>1. g \in Hashes /\ fills[Id(g)] < Order(g).size
        BY <1>3, BookType DEF MemOK, Unfilled
      <3>2. fills[Id(g)] # Order(g).size
        BY <1>3, <3>1, OrderTypes, RemainingType DEF MemOK
      <3> QED
        BY <1>2, <2>3, <2>6, <3>2 DEF Frame, FilledMakers
    <2>7. Frame(M, fills, taker, U, r.fill)
      BY <1>2, <2>3, <2>5, <2>6 DEF Frame
    <2>8. K.mem = U /\ K.fill = r.fill /\ K.left = r.left /\ K.status = r.status
      BY <1>1, <1>4
    <2>9. Handled(c, hgt, M, fills, taker, U, r.fill)
      BY <1>2, <2>2, <2>7 DEF Handled
    <2>10. taker \in Hashes /\ r.left = 0 => r.fill[Id(taker)] = Order(taker).size
      <3> SUFFICES ASSUME taker \in Hashes, r.left = 0 PROVE r.fill[Id(taker)] = Order(taker).size
        OBVIOUS
      <3>1. r.fill[Id(taker)] + r.left = Order(taker).size /\ r.fill[Id(taker)] \in Nat
        BY <1>3, OrderTypes DEF Looped, LoopFills, Runs, Fillings
      <3> QED
        BY <3>1
    <2>11. taker \in Hashes /\ IsStateful(taker) => Id(taker) \notin U.removals
      BY <1>2, <2>3 DEF Takes
    <2> QED
      BY <2>2, <2>8, <2>9, <2>10, <2>11 DEF Resolved
  <1>5. CASE ~Valid(r)
    <2>1. K.mem = A /\ K.fill = fills /\ K.left = r.left /\ K.status = r.status
      BY <1>1, <1>5
    <2>2. Handled(c, hgt, M, fills, taker, A, fills)
      BY <1>2 DEF Handled
    <2>3. ~(r.status = "Success" /\ r.left = 0)
      BY <1>3, <1>5 DEF Valid, Erroneous, Looped, LoopFills
    <2>4. taker \in Hashes /\ IsStateful(taker) => Id(taker) \notin A.removals
      BY <1>2 DEF Takes
    <2> QED
      BY <1>2, <2>1, <2>2, <2>3, <2>4 DEF Resolved
  <1> QED
    BY <1>4, <1>5

\* The order rests, or its removal joins the queue.
LEMMA RestHandles ==
  ASSUME NEW c, NEW hgt, NEW M, NEW fills, NEW h \in Hashes, NEW r, NEW K, NEW N,
         Resolved(c, hgt, M, fills, h, r, K), Takes(c, hgt, M, fills, h),
         N = Rest(K.mem, K.fill, h, K.left, K.status), MemOK(N, K.fill)
  PROVE  Handled(c, hgt, M, fills, h, N, K.fill) /\ Concluded(h, N, K.fill)
  <1> DEFINE new == RestingOf(h, K.left, K.status)
             off == FailingOf(h, K.left, K.status)
  <1>1. /\ Tracks(c, hgt, K.mem, K.fill) /\ Frame(M, fills, h, K.mem, K.fill)
        /\ RestingWith(K.mem, Id(h)) = {} /\ K.mem \in Mems /\ ChainOK(c)
        /\ Reflects(c, hgt, K.mem, K.fill) /\ InState(ToSet(K.mem.book), c)
        /\ Matchable(hgt, K.mem)
        /\ DeliverAt(c, hgt, K.mem.queue).liquidated
             \subseteq DeliverAt(c, hgt, M.queue).liquidated \cup LiquidationsOf(Id(h))
    BY DEF Resolved, Handled, Tracks, MemOK
  <1>2. IsStateful(h) => h \in ToSet(c.placed) /\ Id(h) \notin K.mem.removals
    BY DEF Resolved, Takes, InState
  <1>3. RestedAs(K.mem, K.fill, h, N, new, off)
    BY <1>1, RestDoes
  <1>4. /\ ToSet(off) \subseteq {h} /\ off \in Seq(Hashes) /\ IsInjective(off)
        /\ Fails(h, K.left, K.status) => ToSet(off) = {h}
        /\ ~Fails(h, K.left, K.status) => ToSet(off) = {}
    <2>1. <<h>> \in Seq(Hashes) /\ ToSet(<<h>>) = {h} /\ IsInjective(<<h>>)
      BY SingletonSet DEF IsInjective
    <2>2. <<>> \in Seq(Hashes) /\ ToSet(<<>>) = {} /\ IsInjective(<<>>)
      BY DEF ToSet, IsInjective
    <2> QED
      BY <2>1, <2>2 DEF FailingOf
  <1>5. /\ new \subseteq {h}
        /\ h \in new <=> Rests(h, K.left, K.status)
    BY DEF RestingOf
  <1> HIDE DEF new, off
  <1>6. Withdrawable(c, hgt, K.mem, K.fill, off)
    BY <1>1, <1>2, <1>4 DEF Withdrawable, DistinctIds, InState
  <1>7. Withdrawn(K.mem, off, N)
    BY <1>3 DEF RestedAs, Withdrawn
  <1>8. /\ Reflects(c, hgt, N, K.fill)
        /\ DeliverAt(c, hgt, N.queue).liquidated = DeliverAt(c, hgt, K.mem.queue).liquidated
    BY <1>6, <1>7, WithdrawReflects
  <1>9. /\ ToSet(N.book) = ToSet(K.mem.book) \cup new /\ N.matched = K.mem.matched
        /\ N.removals = K.mem.removals \cup {Id(g) : g \in ToRemove(K.mem, off)}
    BY <1>3 DEF RestedAs
  <1>10. /\ \A id \in N.removals : id \in K.mem.removals \/ id = Id(h)
         /\ ~Fails(h, K.left, K.status) => N.removals = K.mem.removals
    <2>1. \A g \in ToRemove(K.mem, off) : g = h
      BY <1>4 DEF ToRemove
    <2>2. ~Fails(h, K.left, K.status) => ToRemove(K.mem, off) = {}
      BY <1>4 DEF ToRemove
    <2>3. \A id \in N.removals : id \in K.mem.removals \/ id = Id(h)
      BY <1>9, <2>1
    <2>4. ~Fails(h, K.left, K.status) => N.removals = K.mem.removals
      BY <1>9, <2>2
    <2> QED
      BY <2>3, <2>4
  <1>11. Fails(h, K.left, K.status) /\ IsStateful(h) => Id(h) \in N.removals
    BY <1>4, <1>9 DEF ToRemove
  <1>12. h \in new => ~Fails(h, K.left, K.status) /\ ~RequiresImmediateExecution(h)
    BY <1>5 DEF Rests, Fails
  <1>13. Matchable(hgt, N)
    <2> SUFFICES ASSUME NEW g \in ToSet(N.book)
                 PROVE  /\ ~RequiresImmediateExecution(g)
                        /\ ~IsStateful(g) => ValidGoodTilBlock(Order(g).goodTil, hgt + 1)
                        /\ IsStateful(g) => Id(g) \notin N.removals
      BY DEF Matchable
    <2>1. CASE g \in ToSet(K.mem.book)
      <3>1. Id(g) # Id(h)
        BY <1>1, <2>1 DEF RestingWith
      <3> QED
        BY <1>1, <1>10, <2>1, <3>1 DEF Matchable
    <2>2. CASE g = h /\ h \in new
      BY <1>2, <1>10, <1>12, <2>2 DEF Takes
    <2> QED
      BY <1>5, <1>9, <2>1, <2>2
  <1>14. InState(ToSet(N.book), c)
    BY <1>1, <1>2, <1>5, <1>9 DEF InState
  <1>15. Tracks(c, hgt, N, K.fill)
    BY <1>1, <1>8, <1>13, <1>14 DEF Tracks
  <1>16. Frame(M, fills, h, N, K.fill)
    BY <1>1, <1>9, <1>10 DEF Frame
  <1>17. Concluded(h, N, K.fill)
    <2>1. K.status = "Success" /\ K.left = 0 => K.fill[Id(h)] = Order(h).size
      BY DEF Resolved
    <2>2. \/ Fails(h, K.left, K.status)
          \/ K.status = "Success" /\ K.left = 0
          \/ Rests(h, K.left, K.status) /\ ~RequiresImmediateExecution(h)
      BY DEF Fails, Rests
    <2> QED
      BY <1>5, <1>9, <1>11, <2>1, <2>2 DEF Concluded
  <1> QED
    BY <1>1, <1>8, <1>15, <1>16, <1>17 DEF Handled

\* matchOrder.
LEMMA MatchResolves ==
  ASSUME NEW c, NEW hgt, NEW M, NEW fills, NEW taker, NEW fate \in Fatings(M, taker),
         Tracks(c, hgt, M, fills), Takes(c, hgt, M, fills, taker),
         NEW K, K = MatchOrder(M, fills, taker, fate)
  PROVE  \E r : Resolved(c, hgt, M, fills, taker, r, K)
  <1>1. PICK r : r = PerformTakerOrderMatching(M, fills, taker, fate)
    OBVIOUS
  <1>2. MemOK(M, fills) /\ Admitted(M, fills, taker)
    BY DEF Tracks, Takes
  <1>3. Ready(M, fills, taker)
    BY <1>2, AdmittedReady
  <1>4. Looped(M, fills, taker, r) /\ Arrived(M, fills, taker, r)
    BY <1>1, <1>3, LoopDone DEF Arrived
  <1>5. CanMatch(c, hgt, M, fills, taker, r)
    BY <1>4 DEF CanMatch
  <1>6. K = KeepMatches(M, fills, taker, r)
    BY <1>1 DEF MatchOrder
  <1> QED
    BY <1>5, <1>6, KeepResolves

\* PlaceOrder.
LEMMA PlaceHandles ==
  ASSUME NEW c, NEW hgt, NEW M, NEW fills, NEW h \in Hashes, NEW fate \in Fatings(M, h),
         Tracks(c, hgt, M, fills), Takes(c, hgt, M, fills, h),
         NEW K, K = MatchOrder(M, fills, h, fate),
         NEW N, N = Rest(K.mem, K.fill, h, K.left, K.status)
  PROVE  Handled(c, hgt, M, fills, h, N, K.fill) /\ Concluded(h, N, K.fill)
  <1>1. PICK r : Resolved(c, hgt, M, fills, h, r, K)
    BY MatchResolves
  <1>2. MemOK(M, fills) /\ Admitted(M, fills, h)
    BY DEF Tracks, Takes
  <1>3. Served(M, fills, h, N, K.fill)
    BY <1>2, PlaceServes
  <1>4. MemOK(N, K.fill)
    BY <1>3 DEF Served
  <1> QED
    BY <1>1, <1>4, RestHandles

-----------------------------------------------------------------------------
(* The queue could be proposed, and no stateful order is forgotten.        *)

\* The orders PrepareCheckState has yet to place are untouched.
Awaits(c, M, fills, todo, d) ==
  /\ IsInjective(todo)
  /\ \A h \in ToSet(todo) : h \in Hashes /\ IsStateful(h) =>
       /\ h \notin ToSet(M.book) /\ Id(h) \notin M.removals /\ M.matched[Id(h)] = None
       /\ fills[Id(h)] = c.fill[Id(h)]
  /\ \A l \in ToSet(todo) : l \in Liquidations => l \notin d.liquidated

\* Where the orders in state are.  An IOC order is filled at once or not at all.
Accounts(c, M, fills, todo) ==
  \A h \in ToSet(c.placed) :
    /\ \/ h \in ToSet(M.book) \/ Remaining(h, fills) = 0 \/ Id(h) \in M.removals
       \/ Order(h).reduceOnly \/ h \in ToSet(todo)
    /\ RequiresImmediateExecution(h) =>
         /\ c.fill[Id(h)] = 0
         /\ \/ fills[Id(h)] = c.fill[Id(h)] \/ fills[Id(h)] = Order(h).size
            \/ Id(h) \in M.removals

\* The inductive invariant behind Proposable and StatefulAccounted.
QueueOK ==
  /\ StateOK /\ Tracks(chain, height, mem, fill)
  /\ Awaits(chain, mem, fill, pending, DeliverAt(chain, height, mem.queue))
  /\ Accounts(chain, mem, fill, pending)

\* The taker is no longer pending.
Passed(taker, todo, rest) ==
  /\ IsInjective(rest) /\ taker \notin ToSet(rest)
  /\ ToSet(rest) \subseteq ToSet(todo) /\ ToSet(todo) \subseteq ToSet(rest) \cup {taker}

\* The head of what is pending is passed.
LEMMA PassedTail ==
  ASSUME NEW T, NEW s \in Seq(T), s # <<>>, IsInjective(s)
  PROVE  Passed(Head(s), s, Tail(s))
  <1>1. /\ Len(s) \in Nat \ {0} /\ DOMAIN s = 1 .. Len(s) /\ Head(s) = s[1]
        /\ DOMAIN Tail(s) = 1 .. Len(s) - 1
        /\ \A i \in 1 .. Len(s) - 1 : Tail(s)[i] = s[i + 1]
    OBVIOUS
  <1>2. PICK t : t = Tail(s)
    OBVIOUS
  <1>3. PICK n : n = Len(s)
    OBVIOUS
  <1>4. /\ n \in Nat \ {0} /\ DOMAIN s = 1 .. n /\ Head(s) = s[1] /\ DOMAIN t = 1 .. n - 1
        /\ \A i \in 1 .. n - 1 : t[i] = s[i + 1]
    BY <1>1, <1>2, <1>3
  <1>5. \A i, j \in 1 .. n : s[i] = s[j] => i = j
    BY <1>4 DEF IsInjective
  <1>6. IsInjective(t)
    BY <1>4, <1>5 DEF IsInjective
  <1>7. Head(s) \notin ToSet(t)
    BY <1>4, <1>5 DEF ToSet
  <1>8. ToSet(t) \subseteq ToSet(s)
    BY <1>4 DEF ToSet
  <1>9. ASSUME NEW i \in 1 .. n PROVE s[i] \in ToSet(t) \cup {s[1]}
    <2>1. CASE i = 1
      BY <2>1
    <2>2. CASE i # 1
      <3>1. i - 1 \in 1 .. n - 1 /\ (i - 1) + 1 = i
        BY <1>4, <2>2
      <3>2. t[i - 1] = s[i]
        BY <1>4, <3>1
      <3> QED
        BY <1>4, <3>1, <3>2 DEF ToSet
    <2> QED
      BY <2>1, <2>2
  <1>10. ToSet(s) \subseteq ToSet(t) \cup {Head(s)}
    BY <1>4, <1>9 DEF ToSet
  <1> QED
    BY <1>2, <1>6, <1>7, <1>8, <1>10 DEF Passed

\* A step that matches an order.
CanAdvance(c, hgt, M, fills, todo, taker, N, after, rest) ==
  /\ Tracks(c, hgt, M, fills) /\ Takes(c, hgt, M, fills, taker)
  /\ Awaits(c, M, fills, todo, DeliverAt(c, hgt, M.queue)) /\ Accounts(c, M, fills, todo)
  /\ InState(ToSet(todo), c) /\ Passed(taker, todo, rest)
  /\ Handled(c, hgt, M, fills, taker, N, after)
  /\ taker \in Hashes /\ IsStateful(taker) => Concluded(taker, N, after)
  /\ Served(M, fills, taker, N, after)

\* An order in state that does not rest and is not the taker is left alone.
LEMMA LeftAlone ==
  ASSUME NEW c, NEW hgt, NEW M, NEW fills, NEW todo, NEW taker, NEW N, NEW after, NEW rest,
         CanAdvance(c, hgt, M, fills, todo, taker, N, after, rest),
         NEW h \in ToSet(c.placed), h # taker, h \notin ToSet(M.book)
  PROVE  /\ h \in Hashes /\ IsStateful(h) /\ Id(h) # Id(taker) /\ h \notin ToSet(N.book)
         /\ after[Id(h)] = fills[Id(h)] /\ N.matched[Id(h)] = M.matched[Id(h)]
         /\ Id(h) \in N.removals => Id(h) \in M.removals
  <1>1. /\ ChainOK(c) /\ M \in Mems /\ InState(ToSet(M.book), c) /\ InState({taker}, c)
        /\ Admitted(M, fills, taker) /\ MemOK(M, fills) /\ Frame(M, fills, taker, N, after)
        /\ ToSet(N.book) \subseteq ToSet(M.book) \cup ({taker} \cap Hashes)
    BY DEF CanAdvance, Tracks, Takes, MemOK, Handled, Served
  <1>2. ToSet(M.book) \subseteq Hashes /\ taker \in Hashes \cup Liquidations
    BY <1>1, BookType, TakerNew
  <1>3. IsStateful(h) /\ h \in Hashes /\ DistinctIds(ToSet(c.placed)) /\ Id(h) \in Ids
    BY <1>1, OrderTypes DEF ChainOK, Chains, ToSet
  <1>4. Id(h) # Id(taker)
    <2>1. CASE taker \in Hashes
      <3> SUFFICES ASSUME Id(h) = Id(taker) PROVE FALSE
        OBVIOUS
      <3>1. IsStateful(taker)
        BY <1>3, <2>1, SameId
      <3> QED
        BY <1>1, <1>3, <2>1, <3>1 DEF InState, DistinctIds
    <2>2. CASE taker \in Liquidations
      BY <1>3, <2>2, LiquidationTypes
    <2> QED
      BY <1>2, <2>1, <2>2
  <1>5. RestingWith(M, Id(h)) = {}
    <2> SUFFICES ASSUME NEW g \in ToSet(M.book), Id(g) = Id(h) PROVE FALSE
      BY DEF RestingWith
    <2>1. IsStateful(g)
      BY <1>2, <1>3, SameId
    <2>2. g \in ToSet(c.placed)
      BY <1>1, <1>2, <2>1 DEF InState
    <2> QED
      BY <1>3, <2>2 DEF DistinctIds
  <1> QED
    BY <1>1, <1>3, <1>4, <1>5 DEF Frame

\* What is still pending stays untouched when another order is matched.
LEMMA AdvanceAwaits ==
  ASSUME NEW c, NEW hgt, NEW M, NEW fills, NEW todo, NEW taker, NEW N, NEW after, NEW rest,
         CanAdvance(c, hgt, M, fills, todo, taker, N, after, rest)
  PROVE  Awaits(c, N, after, rest, DeliverAt(c, hgt, N.queue))
  <1>1. PICK d : d = DeliverAt(c, hgt, M.queue)
    OBVIOUS
  <1>2. PICK e : e = DeliverAt(c, hgt, N.queue)
    OBVIOUS
  <1>3. /\ Awaits(c, M, fills, todo, d) /\ InState(ToSet(todo), c) /\ Passed(taker, todo, rest)
        /\ e.liquidated \subseteq d.liquidated \cup LiquidationsOf(Id(taker))
        /\ MemOK(M, fills) /\ Admitted(M, fills, taker)
    BY <1>1, <1>2 DEF CanAdvance, Handled, Tracks, Takes
  <1>4. taker \in Hashes \cup Liquidations
    BY <1>3, TakerNew
  <1>5. ASSUME NEW h \in ToSet(rest), h \in Hashes, IsStateful(h)
        PROVE  /\ h \notin ToSet(N.book) /\ Id(h) \notin N.removals /\ N.matched[Id(h)] = None
               /\ after[Id(h)] = c.fill[Id(h)]
    <2>1. h \in ToSet(todo) /\ h # taker /\ h \in ToSet(c.placed)
      BY <1>3, <1>5 DEF Passed, InState
    <2>2. /\ h \notin ToSet(M.book) /\ Id(h) \notin M.removals /\ M.matched[Id(h)] = None
          /\ fills[Id(h)] = c.fill[Id(h)]
      BY <1>3, <1>5, <2>1 DEF Awaits
    <2>3. /\ h \notin ToSet(N.book) /\ after[Id(h)] = fills[Id(h)]
          /\ N.matched[Id(h)] = M.matched[Id(h)]
          /\ Id(h) \in N.removals => Id(h) \in M.removals
      BY <2>1, <2>2, LeftAlone
    <2> QED
      BY <2>2, <2>3
  <1>6. ASSUME NEW l \in ToSet(rest), l \in Liquidations PROVE l \notin e.liquidated
    <2>1. l \in ToSet(todo) /\ l # taker
      BY <1>3, <1>6 DEF Passed
    <2>2. l \notin d.liquidated
      BY <1>3, <1>6, <2>1 DEF Awaits
    <2>3. l \notin LiquidationsOf(Id(taker))
      <3>1. CASE taker \in Hashes
        BY <1>6, <3>1, OrderTypes, LiquidationTypes DEF LiquidationsOf
      <3>2. CASE taker \in Liquidations
        BY <1>6, <2>1, <3>2, MemClobAssumption DEF LiquidationsOf, Liquidations
      <3> QED
        BY <1>4, <3>1, <3>2
    <2> QED
      BY <1>3, <2>2, <2>3
  <1>7. IsInjective(rest)
    BY <1>3 DEF Passed
  <1>8. Awaits(c, N, after, rest, e)
    BY <1>5, <1>6, <1>7 DEF Awaits
  <1> QED
    BY <1>2, <1>8

\* Matching an order loses no order in state.
LEMMA AdvanceAccounts ==
  ASSUME NEW c, NEW hgt, NEW M, NEW fills, NEW todo, NEW taker, NEW N, NEW after, NEW rest,
         CanAdvance(c, hgt, M, fills, todo, taker, N, after, rest)
  PROVE  Accounts(c, N, after, rest)
  <1>1. /\ Accounts(c, M, fills, todo) /\ Passed(taker, todo, rest) /\ Frame(M, fills, taker, N, after)
        /\ ChainOK(c) /\ InState(ToSet(M.book), c) /\ Matchable(hgt, M)
        /\ fills \in Fillings /\ after \in Fillings /\ \A id \in Ids : after[id] >= fills[id]
    BY DEF CanAdvance, Handled, Tracks, Served, MemOK
  <1> SUFFICES ASSUME NEW h \in ToSet(c.placed)
               PROVE  /\ \/ h \in ToSet(N.book) \/ Remaining(h, after) = 0 \/ Id(h) \in N.removals
                         \/ Order(h).reduceOnly \/ h \in ToSet(rest)
                      /\ RequiresImmediateExecution(h) =>
                           /\ c.fill[Id(h)] = 0
                           /\ \/ after[Id(h)] = c.fill[Id(h)] \/ after[Id(h)] = Order(h).size
                              \/ Id(h) \in N.removals
    BY DEF Accounts
  <1>2. IsStateful(h) /\ h \in Hashes
    BY <1>1 DEF ChainOK, Chains, ToSet
  <1>3. /\ Id(h) \in Ids /\ Order(h).size \in Nat /\ fills[Id(h)] \in Nat /\ after[Id(h)] \in Nat
        /\ Remaining(h, fills) = 0 <=> fills[Id(h)] >= Order(h).size
        /\ Remaining(h, after) = 0 <=> after[Id(h)] >= Order(h).size
        /\ after[Id(h)] >= fills[Id(h)]
    BY <1>1, <1>2, OrderTypes, RemainingType
  <1>4. after[Id(h)] = Order(h).size => Remaining(h, after) = 0
    BY <1>3
  <1>5. Remaining(h, fills) = 0 => Remaining(h, after) = 0
    BY <1>3
  <1>6. h = taker => Concluded(h, N, after)
    BY <1>2 DEF CanAdvance
  <1>7. M.removals \subseteq N.removals
    BY <1>1 DEF Frame
  <1>8. \/ h \in ToSet(N.book) \/ Remaining(h, after) = 0 \/ Id(h) \in N.removals
        \/ Order(h).reduceOnly \/ h \in ToSet(rest)
    <2>1. \/ h \in ToSet(M.book) \/ Remaining(h, fills) = 0 \/ Id(h) \in M.removals
          \/ Order(h).reduceOnly \/ h \in ToSet(todo)
      BY <1>1 DEF Accounts
    <2>2. CASE h \in ToSet(M.book)
      BY <1>1, <1>2, <1>4, <2>2 DEF Frame
    <2>3. CASE h \in ToSet(todo)
      BY <1>1, <1>2, <1>4, <1>6, <2>3 DEF Passed, Concluded
    <2> QED
      BY <1>5, <1>7, <2>1, <2>2, <2>3
  <1>9. ASSUME RequiresImmediateExecution(h)
        PROVE  /\ c.fill[Id(h)] = 0
               /\ \/ after[Id(h)] = c.fill[Id(h)] \/ after[Id(h)] = Order(h).size
                  \/ Id(h) \in N.removals
    <2>1. /\ c.fill[Id(h)] = 0
          /\ \/ fills[Id(h)] = c.fill[Id(h)] \/ fills[Id(h)] = Order(h).size
             \/ Id(h) \in M.removals
      BY <1>1, <1>9 DEF Accounts
    <2>2. CASE h = taker
      BY <1>2, <1>6, <1>9, <2>1, <2>2 DEF Concluded
    <2>3. CASE h # taker
      <3>1. h \notin ToSet(M.book)
        BY <1>1, <1>9 DEF Matchable
      <3>2. after[Id(h)] = fills[Id(h)]
        BY <2>3, <3>1, LeftAlone
      <3> QED
        BY <1>7, <2>1, <3>2
    <2> QED
      BY <2>2, <2>3
  <1> QED
    BY <1>8, <1>9

\* A step that matches an order keeps the invariant.
LEMMA AdvanceOK ==
  ASSUME QueueOK, StateOK', NEW taker, UNCHANGED <<height, chain>>,
         CanAdvance(chain, height, mem, fill, pending, taker, mem', fill', pending')
  PROVE  QueueOK'
  <1>1. Awaits(chain, mem', fill', pending', DeliverAt(chain, height, mem'.queue))
    BY AdvanceAwaits
  <1>2. Accounts(chain, mem', fill', pending')
    BY AdvanceAccounts
  <1>3. Tracks(chain, height, mem', fill')
    BY DEF CanAdvance, Handled
  <1> QED
    BY <1>1, <1>2, <1>3 DEF QueueOK

\* An order that validateNewOrder lets pass may be proposed.
LEMMA PlaceTakes ==
  ASSUME QueueOK, NEW h \in Hashes, ValidNewOrder(mem, fill, h), InState({h}, chain),
         ~IsStateful(h) => ValidGoodTilBlock(Order(h).goodTil, height + 1),
         IsStateful(h) => Id(h) \notin mem.removals
  PROVE  Takes(chain, height, mem, fill, h)
  <1>1. StateOK
    BY DEF QueueOK
  <1>2. IsStateful(h) => h \in ToSet(chain.placed)
    BY DEF InState
  <1>3. Admitted(mem, fill, h)
    BY <1>1, <1>2, Admits
  <1>4. h \notin Liquidations
    BY OrderTypes
  <1>5. RequiresImmediateExecution(h) => fill[Id(h)] = 0
    BY DEF ValidNewOrder
  <1> QED
    BY <1>3, <1>4, <1>5 DEF Takes

\* PlaceOrder, packaged.
LEMMA PlaceHandled ==
  ASSUME QueueOK, NEW h \in Hashes, NEW fate \in Fatings(mem, h), PlaceOrder(h, fate),
         Takes(chain, height, mem, fill, h)
  PROVE  /\ Handled(chain, height, mem, fill, h, mem', fill') /\ Concluded(h, mem', fill')
         /\ Served(mem, fill, h, mem', fill')
  <1>1. StateOK /\ Tracks(chain, height, mem, fill)
    BY DEF QueueOK
  <1>2. PICK K : /\ K = MatchOrder(mem, fill, h, fate)
                 /\ mem' = Rest(K.mem, K.fill, h, K.left, K.status) /\ fill' = K.fill
    BY DEF PlaceOrder
  <1>3. IsStateful(h) => h \in ToSet(chain.placed)
    BY DEF Takes, InState
  <1>4. Served(mem, fill, h, mem', fill')
    BY <1>1, <1>3, PlaceOK
  <1>5. PICK N : N = Rest(K.mem, K.fill, h, K.left, K.status)
    OBVIOUS
  <1>6. Handled(chain, height, mem, fill, h, N, K.fill) /\ Concluded(h, N, K.fill)
    BY <1>1, <1>2, <1>5, PlaceHandles
  <1> QED
    BY <1>2, <1>4, <1>5, <1>6

\* A short-term order is placed in CheckTx.
LEMMA PlaceShortTermQueue ==
  ASSUME QueueOK, StateOK', NEW h \in Hashes, NEW fate \in Fatings(mem, h),
         PlaceShortTermOrder(h, fate)
  PROVE  QueueOK'
  <1>1. /\ ~IsStateful(h) /\ ValidGoodTilBlock(Order(h).goodTil, height + 1) /\ PlaceOrder(h, fate)
        /\ ValidNewOrder(mem, fill, h)
        /\ phase = "open" /\ UNCHANGED <<height, chain, pending>>
    BY DEF PlaceShortTermOrder, PlaceOrder
  <1>2. pending = <<>>
    BY <1>1 DEF QueueOK, StateOK
  <1>3. InState({h}, chain)
    BY <1>1 DEF InState
  <1>4. Takes(chain, height, mem, fill, h)
    BY <1>1, <1>3, PlaceTakes
  <1>5. /\ Handled(chain, height, mem, fill, h, mem', fill') /\ Concluded(h, mem', fill')
        /\ Served(mem, fill, h, mem', fill')
    BY <1>1, <1>4, PlaceHandled
  <1>6. Passed(h, pending, pending')
    BY <1>1, <1>2 DEF Passed, ToSet, IsInjective
  <1>7. CanAdvance(chain, height, mem, fill, pending, h, mem', fill', pending')
    BY <1>4, <1>5, <1>6 DEF CanAdvance, QueueOK, StateOK
  <1> QED
    BY <1>1, <1>7, AdvanceOK

\* A pending stateful order is refused only if it is filled or reduce-only.
LEMMA Refused ==
  ASSUME QueueOK, NEW h \in ToSet(pending), h \in Hashes, IsStateful(h),
         ~ValidNewOrder(mem, fill, h)
  PROVE  Remaining(h, fill) = 0
  <1>1. /\ h \in ToSet(chain.placed) /\ h \notin ToSet(mem.book) /\ mem.matched[Id(h)] = None
        /\ fill[Id(h)] = chain.fill[Id(h)]
    BY DEF QueueOK, StateOK, InState, Awaits
  <1>2. RestingWith(mem, Id(h)) = {}
    <2> SUFFICES ASSUME NEW g \in ToSet(mem.book), Id(g) = Id(h) PROVE FALSE
      BY DEF RestingWith
    <2>1. g \in Hashes
      BY BookType DEF QueueOK, StateOK, MemOK
    <2>2. IsStateful(g)
      BY <2>1, SameId
    <2>3. g \in ToSet(chain.placed)
      BY <2>1, <2>2 DEF QueueOK, StateOK, InState
    <2> QED
      BY <1>1, <2>3 DEF QueueOK, StateOK, ChainOK, DistinctIds
  <1>3. RequiresImmediateExecution(h) => fill[Id(h)] = 0
    BY <1>1 DEF QueueOK, Accounts
  <1>4. RestingWith(mem, Id(h)) \cup ({mem.matched[Id(h)]} \ {None}) = {}
    BY <1>1, <1>2
  <1>5. ~(Remaining(h, fill) > 0)
    BY <1>3, <1>4 DEF ValidNewOrder
  <1>6. Remaining(h, fill) \in Nat
    BY RemainingType DEF QueueOK, StateOK, MemOK
  <1> QED
    BY <1>5, <1>6

\* An order that is not placed.
LEMMA SkipOK ==
  ASSUME QueueOK, StateOK', NEW h, Passed(h, pending, pending'),
         UNCHANGED <<height, chain, mem, fill>>,
         h \in Hashes /\ IsStateful(h) => Remaining(h, fill) = 0 \/ Order(h).reduceOnly
  PROVE  QueueOK'
  <1>1. PICK d : d = DeliverAt(chain, height, mem.queue)
    OBVIOUS
  <1>2. Awaits(chain, mem, fill, pending', d)
    BY <1>1 DEF QueueOK, Awaits, Passed
  <1>3. Accounts(chain, mem, fill, pending')
    <2>1. \A g \in ToSet(chain.placed) : g \in Hashes /\ IsStateful(g)
      BY DEF QueueOK, StateOK, ChainOK, Chains, ToSet
    <2> QED
      BY <2>1 DEF QueueOK, Accounts, Passed
  <1> QED
    BY <1>1, <1>2, <1>3 DEF QueueOK

\* PrepareCheckState places a pending order, or finds that it must not.
LEMMA PlaceNextQueue ==
  ASSUME QueueOK, StateOK', pending # <<>>, NEW fate \in Fatings(mem, Head(pending)),
         NEW hasPosition, PlaceNext(fate, hasPosition)
  PROVE  QueueOK'
  <1> DEFINE h == Head(pending)
             Ok == /\ IsStateful(h) \/ ValidGoodTilBlock(Order(h).goodTil, height + 1)
                   /\ ValidNewOrder(mem, fill, h)
                   /\ Order(h).reduceOnly => hasPosition
  <1>1. h \in Hashes /\ h \in ToSet(pending)
    BY HeadPending DEF QueueOK, PlaceNext, IsLiquidation
  <1>2. pending' = Tail(pending) /\ UNCHANGED <<height, chain>> /\ fate \in Fatings(mem, h)
    BY DEF PlaceNext
  <1>3. IF Ok THEN PlaceOrder(h, fate) ELSE UNCHANGED <<mem, fill>>
    BY DEF PlaceNext
  <1>4. Passed(h, pending, pending')
    BY <1>2, PassedTail DEF QueueOK, StateOK, Awaits
  <1> HIDE DEF h
  <1>5. InState({h}, chain) /\ InState(ToSet(pending), chain)
    BY <1>1 DEF QueueOK, StateOK, InState
  <1>6. CASE Ok
    <2>1. PlaceOrder(h, fate) /\ ValidNewOrder(mem, fill, h)
      BY <1>3, <1>6
    <2>2. ~IsStateful(h) => ValidGoodTilBlock(Order(h).goodTil, height + 1)
      BY <1>6
    <2>3. IsStateful(h) => Id(h) \notin mem.removals
      BY <1>1 DEF QueueOK, Awaits
    <2>4. Takes(chain, height, mem, fill, h)
      BY <1>1, <1>5, <2>1, <2>2, <2>3, PlaceTakes
    <2>5. /\ Handled(chain, height, mem, fill, h, mem', fill') /\ Concluded(h, mem', fill')
          /\ Served(mem, fill, h, mem', fill')
      BY <1>1, <1>2, <2>1, <2>4, PlaceHandled
    <2>6. CanAdvance(chain, height, mem, fill, pending, h, mem', fill', pending')
      BY <1>4, <1>5, <2>4, <2>5 DEF CanAdvance, QueueOK
    <2> QED
      BY <1>2, <2>6, AdvanceOK
  <1>7. CASE ~Ok
    <2>1. UNCHANGED <<mem, fill>>
      BY <1>3, <1>7
    <2>2. IsStateful(h) => Remaining(h, fill) = 0 \/ Order(h).reduceOnly
      BY <1>1, <1>7, Refused
    <2> QED
      BY <1>2, <1>4, <2>1, <2>2, SkipOK
  <1> QED
    BY <1>6, <1>7

\* PrepareCheckState liquidates a subaccount.
LEMMA LiquidateQueue ==
  ASSUME QueueOK, StateOK', pending # <<>>, NEW fate \in Fatings(mem, Head(pending)),
         Liquidate(fate)
  PROVE  QueueOK'
  <1> DEFINE l == Head(pending)
  <1>0. StateOK /\ Tracks(chain, height, mem, fill)
    BY DEF QueueOK
  <1>1. l \in Liquidations /\ l \notin Hashes /\ l \in ToSet(pending)
    BY <1>0, HeadPending DEF Liquidate, IsLiquidation
  <1>2. pending' = Tail(pending) /\ UNCHANGED <<height, chain>> /\ fate \in Fatings(mem, l)
    BY DEF Liquidate
  <1>3. PICK K : K = MatchOrder(mem, fill, l, fate) /\ mem' = K.mem /\ fill' = K.fill
    BY DEF Liquidate
  <1>4. Passed(l, pending, pending')
    BY <1>2, PassedTail DEF QueueOK, StateOK, Awaits
  <1> HIDE DEF l
  <1>5. Served(mem, fill, l, mem', fill')
    BY <1>0, <1>1, <1>2, <1>3, LiquidateServes DEF StateOK
  <1>6. Takes(chain, height, mem, fill, l)
    BY <1>1 DEF Takes, Admitted, InState, QueueOK, Awaits
  <1>7. Handled(chain, height, mem, fill, l, mem', fill')
    <2>1. PICK r : Resolved(chain, height, mem, fill, l, r, K)
      BY <1>0, <1>2, <1>3, <1>6, MatchResolves
    <2> QED
      BY <1>3, <2>1 DEF Resolved
  <1>8. CanAdvance(chain, height, mem, fill, pending, l, mem', fill', pending')
    BY <1>1, <1>4, <1>5, <1>6, <1>7 DEF CanAdvance, QueueOK, StateOK
  <1> QED
    BY <1>2, <1>8, AdvanceOK

\* A cancel leaves the queue alone: what was matched stays matched.
LEMMA CancelQueue ==
  ASSUME QueueOK, StateOK', Pruned(mem, mem'), UNCHANGED <<height, chain, fill, pending>>
  PROVE  QueueOK'
  <1>1. PICK d : d = DeliverAt(chain, height, mem.queue)
    OBVIOUS
  <1>2. d = DeliverAt(chain, height, mem'.queue)
    BY <1>1 DEF Pruned
  <1>3. Reflects(chain, height, mem', fill)
    BY <1>1, <1>2 DEF QueueOK, Tracks, Reflects, Mirrors, MatchedQueued, Named, Pruned
  <1>4. Matchable(height, mem') /\ InState(ToSet(mem'.book), chain)
    BY DEF QueueOK, Tracks, Matchable, InState, Pruned
  <1>5. Tracks(chain, height, mem', fill)
    BY <1>3, <1>4 DEF QueueOK, Tracks, StateOK
  <1>6. Awaits(chain, mem', fill, pending, d)
    BY <1>1 DEF QueueOK, Awaits, Pruned
  <1>7. Accounts(chain, mem', fill, pending)
    <2>1. \A g \in ToSet(chain.placed) : IsStateful(g)
      BY DEF QueueOK, StateOK, ChainOK
    <2> QED
      BY <2>1 DEF QueueOK, Accounts, Pruned
  <1> QED
    BY <1>2, <1>5, <1>6, <1>7 DEF QueueOK

\* Nothing was matched since the block.
Fresh(M) ==
  /\ M \in Mems /\ M.queue = <<>> /\ M.queued = {} /\ M.removals = {}
  /\ M.matched = NothingMatched

\* An empty queue mirrors a CheckTx state that is the committed one.
LEMMA FreshReflects ==
  ASSUME NEW c, ChainOK(c), NEW hgt, NEW M, Fresh(M), NEW fills, fills = c.fill
  PROVE  Reflects(c, hgt, M, fills) /\ DeliverAt(c, hgt, M.queue).liquidated = {}
  <1>1. PICK d : d = DeliverAt(c, hgt, M.queue)
    OBVIOUS
  <1>2. d = UndeliveredAt(c)
    BY <1>1, DeliverNothing DEF Fresh
  <1>3. /\ d.ok = TRUE /\ d.fill = c.fill /\ d.removed = {} /\ d.liquidated = {}
        /\ d.short = [id \in ShortTermIds |-> None]
    BY <1>2 DEF UndeliveredAt
  <1>4. /\ \A id \in Ids : M.matched[id] = None
        /\ ToSet(M.queue) = {}
    BY DEF Fresh, NothingMatched, ToSet
  <1>5. Mirrors(M, fills, d)
    BY <1>3, <1>4, ShortIdsAre DEF Mirrors, Fresh
  <1>6. MatchedQueued(M)
    BY <1>4 DEF MatchedQueued
  <1>7. Named(c, M, fills)
    BY <1>4 DEF Named, Fresh
  <1> QED
    BY <1>1, <1>3, <1>5, <1>6, <1>7 DEF Reflects

\* So does the queue of a node that has just started.
LEMMA EmptyTracks ==
  ASSUME NEW c, ChainOK(c), NEW hgt, NEW fills, fills = c.fill
  PROVE  Tracks(c, hgt, EmptyMemClob, fills)
         /\ DeliverAt(c, hgt, EmptyMemClob.queue).liquidated = {}
  <1>1. PICK M : M = EmptyMemClob
    OBVIOUS
  <1>2. fills \in Fillings
    BY DEF ChainOK, Chains
  <1>3. MemOK(M, fills) /\ ToSet(M.book) = {}
    BY <1>1, <1>2, EmptyOK
  <1>4. Fresh(M)
    <2>1. M.queue = <<>> /\ M.queued = {} /\ M.removals = {} /\ M.matched = NothingMatched
      BY <1>1 DEF EmptyMemClob, NothingMatched
    <2> QED
      BY <1>3, <2>1 DEF Fresh, MemOK
  <1>5. Reflects(c, hgt, M, fills) /\ DeliverAt(c, hgt, M.queue).liquidated = {}
    BY <1>4, FreshReflects
  <1>6. Matchable(hgt, M) /\ InState(ToSet(M.book), c)
    BY <1>3 DEF Matchable, InState
  <1>7. Tracks(c, hgt, M, fills)
    BY <1>3, <1>5, <1>6 DEF Tracks
  <1> QED
    BY <1>1, <1>5, <1>7

\* All that is pending on such a node is untouched.
LEMMA EmptyAwaits ==
  ASSUME NEW c, ChainOK(c), NEW d, d.liquidated = {}, NEW todo, IsInjective(todo),
         NEW fills, fills = c.fill
  PROVE  Awaits(c, EmptyMemClob, fills, todo, d)
  <1>1. PICK M : M = EmptyMemClob
    OBVIOUS
  <1>2. M.book = <<>> /\ M.removals = {} /\ \A id \in Ids : M.matched[id] = None
    BY <1>1 DEF EmptyMemClob
  <1>3. ToSet(M.book) = {}
    BY <1>2 DEF ToSet
  <1>4. Awaits(c, M, fills, todo, d)
    BY <1>2, <1>3, OrderTypes DEF Awaits
  <1> QED
    BY <1>1, <1>4

\* A restart: the orders in state are all pending.
LEMMA RestartQueue ==
  ASSUME QueueOK, StateOK', Restart
  PROVE  QueueOK'
  <1>1. /\ mem' = EmptyMemClob /\ fill' = chain.fill /\ pending' = chain.placed /\ chain' = chain
        /\ height' = height
    BY DEF Restart
  <1>2. ChainOK(chain) /\ IsInjective(chain.placed)
    BY DEF QueueOK, StateOK, ChainOK
  <1>3. PICK d : d = DeliverAt(chain, height, mem'.queue)
    OBVIOUS
  <1>4. Tracks(chain, height, mem', fill') /\ d.liquidated = {}
    BY <1>1, <1>2, <1>3, EmptyTracks
  <1>5. Awaits(chain, mem', fill', pending', d)
    BY <1>1, <1>2, <1>4, EmptyAwaits
  <1>6. Accounts(chain, mem', fill', pending')
    BY <1>1 DEF QueueOK, Accounts
  <1> QED
    BY <1>1, <1>3, <1>4, <1>5, <1>6 DEF QueueOK

\* The initial state.
LEMMA InitQueue ==
  ASSUME Init
  PROVE  QueueOK
  <1>1. StateOK
    BY InitOK
  <1>2. /\ chain = [fill |-> NoFills, placed |-> <<>>] /\ fill = NoFills /\ mem = EmptyMemClob
        /\ pending = <<>>
    BY DEF Init
  <1>3. chain.placed = <<>> /\ fill = chain.fill /\ ToSet(chain.placed) = {} /\ IsInjective(pending)
    BY <1>2 DEF ToSet, IsInjective
  <1>4. PICK d : d = DeliverAt(chain, height, mem.queue)
    OBVIOUS
  <1>5. ChainOK(chain)
    BY <1>1 DEF StateOK
  <1>6. Tracks(chain, height, mem, fill) /\ d.liquidated = {}
    BY <1>2, <1>3, <1>4, <1>5, EmptyTracks
  <1>7. Awaits(chain, mem, fill, pending, d)
    BY <1>2, <1>3, <1>5, <1>6, EmptyAwaits
  <1>8. Accounts(chain, mem, fill, pending)
    BY <1>3 DEF Accounts
  <1> QED
    BY <1>1, <1>4, <1>6, <1>7, <1>8 DEF QueueOK

-----------------------------------------------------------------------------
(* A block, and what the queue and the book make of it.                    *)

\* An order in state that the queue names is replayed.
LEMMA ReplayHas ==
  ASSUME NEW queue \in Seq(Operations), NEW placed \in Seq(Hashes), IsInjective(placed),
         NEW g \in ToSet(placed),
         PreexistingOp(Id(g)) \in ToSet(queue) \/ RemoveOp(Id(g)) \in ToSet(queue)
  PROVE  g \in ReplaySet(queue, placed)
  <1>1. PICK k \in DOMAIN queue : queue[k] = PreexistingOp(Id(g)) \/ queue[k] = RemoveOp(Id(g))
    BY DEF ToSet
  <1>2. PICK op : op = queue[k]
    OBVIOUS
  <1>3. op.op \in {"preexisting", "remove"} /\ op.id = Id(g) /\ op \in Operations
    BY <1>1, <1>2 DEF PreexistingOp, RemoveOp
  <1>4. ReplayFor(op, placed) = WithId(placed, op.id)
    BY <1>3, ReplayedForIs
  <1>5. g \in ReplayFor(op, placed)
    BY <1>3, <1>4 DEF WithId
  <1> QED
    BY <1>2, <1>5 DEF ReplaySet

\* A stateful order that is replayed is in state and named by the queue.
LEMMA ReplayWas ==
  ASSUME NEW M, NEW fills, MemOK(M, fills), NEW placed \in Seq(Hashes), IsInjective(placed),
         NEW g \in ReplaySet(M.queue, placed), g \in Hashes, IsStateful(g)
  PROVE  /\ g \in ToSet(placed)
         /\ PreexistingOp(Id(g)) \in ToSet(M.queue) \/ RemoveOp(Id(g)) \in ToSet(M.queue)
  <1>1. PICK k \in DOMAIN M.queue : g \in ReplayFor(M.queue[k], placed)
    BY DEF ReplaySet
  <1>2. PICK op : op = M.queue[k]
    OBVIOUS
  <1>3. M.queue \in Seq(Operations)
    BY DEF MemOK, Mems
  <1>4. op \in Operations /\ op \in ToSet(M.queue) /\ g \in ReplayFor(op, placed)
    BY <1>1, <1>2, <1>3 DEF ToSet
  <1>5. ReplayFor(op, placed) = IF op.op = "place" THEN {op.order}
                                ELSE IF op.op \in {"preexisting", "remove"}
                                THEN WithId(placed, op.id) ELSE {}
    BY <1>4, ReplayedForIs
  <1>6. op.op # "place"
    <2> SUFFICES ASSUME op.op = "place" PROVE FALSE
      OBVIOUS
    <2>1. op = PlaceOp(g)
      BY <1>4, <1>5 DEF Operations, PlaceOp
    <2> QED
      BY <1>4, <2>1 DEF MemOK, PlacedOnce
  <1>7. op.op \in {"preexisting", "remove"} /\ g \in ToSet(placed) /\ op.id = Id(g)
    BY <1>4, <1>5, <1>6 DEF WithId
  <1>8. op = PreexistingOp(Id(g)) \/ op = RemoveOp(Id(g))
    BY <1>4, <1>7 DEF Operations, PreexistingOp, RemoveOp
  <1> QED
    BY <1>4, <1>7, <1>8

\* A block d settles as s; C is the memclob without its queue.
Blocked(d, leaving, new, l, s, C) ==
  /\ Commits(d, leaving, new, l) /\ Committed(d, new, l, s)
  /\ Dropped(mem, C) /\ Purged(C, s, height + 1, mem')
  /\ s.removed = d.removed \cup FilledOut(d) \cup leaving
  /\ \A id \in Ids : s.fill[id] = IF id \in FilledOut(d) \cup leaving THEN 0 ELSE d.fill[id]
  /\ Todo(new, ReplaySet(mem.queue, chain'.placed), l, pending')
  /\ pending = <<>> /\ ToSet(pending) = {}

\* Commit, with the memclob between its two halves.
LEMMA BlockedIs ==
  ASSUME QueueOK, NEW d, NEW leaving, NEW new, NEW l, Commits(d, leaving, new, l)
  PROVE  Blocked(d, leaving, new, l, Settled(d, leaving), ClearQueue(mem))
  <1>1. PICK s : s = Settled(d, leaving)
    OBVIOUS
  <1>2. PICK C : C = ClearQueue(mem)
    OBVIOUS
  <1>3. StateOK
    BY DEF QueueOK
  <1>4. Committed(d, new, l, s)
    BY <1>1, <1>3, CommitDoes
  <1>5. Dropped(mem, C)
    BY <1>2, <1>3, ClearQueueDoes DEF StateOK
  <1>6. Purged(C, s, height + 1, mem')
    BY <1>2, <1>4, <1>5, PurgeDoes DEF Committed
  <1>7. /\ s.removed = d.removed \cup FilledOut(d) \cup leaving
        /\ \A id \in Ids : s.fill[id] = IF id \in FilledOut(d) \cup leaving THEN 0 ELSE d.fill[id]
    BY <1>1, <1>4, SettledIs DEF Committed, Commits
  <1>8. mem.queue \in Seq(Operations) /\ chain'.placed \in Seq(Hashes) /\ IsInjective(chain'.placed)
    BY <1>3, <1>4 DEF Committed, StateOK, MemOK, Mems, ChainOK, Chains
  <1>9. Todo(new, ReplaySet(mem.queue, chain'.placed), l, pending')
    BY <1>4, <1>8, PendingIs DEF Committed, Commits
  <1>10. pending = <<>> /\ ToSet(pending) = {}
    BY <1>3, <1>4 DEF Committed, StateOK, ToSet
  <1>11. Blocked(d, leaving, new, l, s, C)
    BY <1>4, <1>5, <1>6, <1>7, <1>9, <1>10 DEF Blocked
  <1> QED
    BY <1>1, <1>2, <1>11

\* What is left on the book after a block may still be a maker: the orders that
\* expire with the block were purged.
LEMMA CommitMatchable ==
  ASSUME QueueOK, NEW d, NEW leaving, NEW new, NEW l, NEW s, NEW C,
         Blocked(d, leaving, new, l, s, C)
  PROVE  Matchable(height', mem')
  <1> SUFFICES ASSUME NEW h \in ToSet(mem'.book)
               PROVE  /\ ~RequiresImmediateExecution(h)
                      /\ ~IsStateful(h) => ValidGoodTilBlock(Order(h).goodTil, height' + 1)
                      /\ IsStateful(h) => Id(h) \notin mem'.removals
    BY DEF Matchable
  <1>1. h \in ToSet(C.book) /\ h \notin Purging(C, s, height + 1) /\ mem'.removals = {}
    BY DEF Blocked, Purged
  <1>2. h \in ToSet(mem.book)
    BY <1>1 DEF Blocked, Dropped
  <1>3. h \in Hashes
    BY <1>2, BookType DEF QueueOK, StateOK, MemOK
  <1>4. ~RequiresImmediateExecution(h)
    BY <1>2 DEF QueueOK, Tracks, Matchable
  <1>5. ASSUME ~IsStateful(h) PROVE ValidGoodTilBlock(Order(h).goodTil, height' + 1)
    <2>1. ValidGoodTilBlock(Order(h).goodTil, height + 1)
      BY <1>2, <1>5 DEF QueueOK, Tracks, Matchable
    <2>2. Order(h).goodTil # height + 1
      BY <1>1, <1>5 DEF Purging
    <2>3. height' = height + 1 /\ height \in Nat /\ Order(h).goodTil \in Nat
          /\ ShortBlockWindow \in Nat
      BY <1>3, OrderTypes, MemClobAssumption DEF Blocked, Committed, QueueOK, StateOK
    <2> QED
      BY <2>1, <2>2, <2>3 DEF ValidGoodTilBlock
  <1> QED
    BY <1>1, <1>4, <1>5

\* An IOC order that a block leaves in state is not filled.
LEMMA CommitIOC ==
  ASSUME QueueOK, NEW d, NEW leaving, NEW new, NEW l, NEW s, NEW C,
         Blocked(d, leaving, new, l, s, C),
         NEW g \in ToSet(chain.placed), RequiresImmediateExecution(g), Id(g) \notin s.removed
  PROVE  s.fill[Id(g)] = 0
  <1>1. g \in Hashes /\ IsStateful(g) /\ ChainOK(chain)
    BY DEF QueueOK, StateOK, ChainOK, Chains, ToSet
  <1>2. Id(g) \in Ids
    BY <1>1, OrderTypes
  <1>3. chain.fill[Id(g)] = 0
    BY DEF QueueOK, Accounts
  <1>4. Id(g) \notin d.removed /\ Id(g) \notin FilledOut(d) /\ Settling(chain, d)
    BY DEF Blocked, Committed
  <1>5. g \in ToSet(d.placed)
    BY <1>4 DEF Settling
  <1>6. d.fill[Id(g)] # Order(g).size
    BY <1>4, <1>5 DEF FilledOut
  <1>7. d.fill[Id(g)] = 0
    <2>1. CASE d = Deliver(mem.queue)
      <3>1. d = DeliverAt(chain, height, mem.queue)
        BY <2>1, DeliverIs
      <3>2. Mirrors(mem, fill, d)
        BY <3>1 DEF QueueOK, Tracks, Reflects
      <3>3. Id(g) \notin mem.removals /\ d.fill[Id(g)] = fill[Id(g)]
        BY <1>2, <1>4, <3>2 DEF Mirrors
      <3>4. fill[Id(g)] = chain.fill[Id(g)] \/ fill[Id(g)] = Order(g).size
        BY <3>3 DEF QueueOK, Accounts
      <3> QED
        BY <1>3, <1>6, <3>3, <3>4
    <2>2. CASE d = Undelivered
      <3>1. d.fill = chain.fill
        BY <2>2 DEF Undelivered
      <3> QED
        BY <1>3, <3>1
    <2>3. CASE d # Deliver(mem.queue) /\ d # Undelivered
      <3>1. d \in UNION {{OthersFill(h, n) : n \in 1 .. Remaining(h, chain.fill)} :
                           h \in {f \in Hashes :
                                    /\ IF IsStateful(f) THEN f \in ToSet(chain.placed)
                                       ELSE ValidGoodTilBlock(Order(f).goodTil, height + 1)
                                    /\ RequiresImmediateExecution(f) =>
                                         chain.fill[Id(f)] = 0}}
        BY <2>3 DEF OthersOperations, Blocked, Commits
      <3>2. PICK h \in Hashes : /\ IsStateful(h) => h \in ToSet(chain.placed)
                                /\ d \in {OthersFill(h, n) : n \in 1 .. Remaining(h, chain.fill)}
        BY <3>1
      <3>3. PICK n \in 1 .. Remaining(h, chain.fill) : d = OthersFill(h, n)
        BY <3>2
      <3>4. Remaining(h, chain.fill) \in Nat
        BY <1>1, RemainingType DEF ChainOK, Chains
      <3>5. n \in Nat
        BY <3>3, <3>4
      <3>6. d = OthersAt(chain, h, n)
        BY <3>3 DEF OthersFill, OthersAt, Undelivered, UndeliveredAt
      <3>7. d.filled = {Id(h)} /\ (IsStateful(h) /\ RequiresImmediateExecution(h) => Id(h) \in d.removed)
        BY <1>1, <3>2, <3>5, <3>6, OthersSettle
      <3>8. Id(g) # Id(h)
        <4> SUFFICES ASSUME Id(g) = Id(h) PROVE FALSE
          OBVIOUS
        <4>1. IsStateful(h)
          BY <1>1, SameId
        <4>2. g = h
          BY <1>1, <3>2, <4>1 DEF ChainOK, DistinctIds
        <4> QED
          BY <1>4, <3>7, <4>1, <4>2
      <3> QED
        BY <1>2, <1>3, <1>4, <3>7, <3>8 DEF Settling
    <2> QED
      BY <2>1, <2>2, <2>3
  <1> QED
    BY <1>2, <1>7 DEF Blocked

\* Every order in state after a block rests, is filled, or is pending.
LEMMA CommitAccounts ==
  ASSUME QueueOK, NEW d, NEW leaving, NEW new, NEW l, NEW s, NEW C,
         Blocked(d, leaving, new, l, s, C)
  PROVE  Accounts(chain', mem', fill', pending')
  <1>1. /\ ToSet(chain'.placed) = ToSet(s.placed) \cup ToSet(new) /\ ChainOK(chain')
        /\ fill' = s.fill /\ chain'.fill = s.fill /\ Settling(chain, s)
        /\ \A h \in ToSet(new) : s.fill[Id(h)] = 0
    BY DEF Blocked, Committed
  <1>2. PICK R : R = ReplaySet(mem.queue, chain'.placed)
    OBVIOUS
  <1>3. ToSet(pending') = ToSet(new) \cup R \cup ToSet(l)
    BY <1>2 DEF Blocked, Todo
  <1>4. /\ mem.queue \in Seq(Operations) /\ chain'.placed \in Seq(Hashes)
        /\ IsInjective(chain'.placed) /\ s.fill \in Fillings /\ chain.fill \in Fillings
        /\ fill \in Fillings
    BY <1>1 DEF QueueOK, StateOK, MemOK, Mems, ChainOK, Chains, Settling, Deliveries
  <1>5. ASSUME NEW g \in ToSet(s.placed)
        PROVE  /\ \/ g \in ToSet(mem'.book) \/ Remaining(g, s.fill) = 0
                  \/ Order(g).reduceOnly \/ g \in ToSet(pending')
               /\ RequiresImmediateExecution(g) => s.fill[Id(g)] = 0
    <2>1. g \in ToSet(chain.placed) /\ Id(g) \notin s.removed /\ g \in ToSet(chain'.placed)
      BY <1>1 DEF Settling
    <2>2. g \in Hashes /\ IsStateful(g)
      BY <2>1 DEF QueueOK, StateOK, ChainOK, Chains, ToSet
    <2>3. Id(g) \in Ids /\ Order(g).size \in Nat
      BY <2>2, OrderTypes
    <2>4. PreexistingOp(Id(g)) \in ToSet(mem.queue) \/ RemoveOp(Id(g)) \in ToSet(mem.queue)
            => g \in ToSet(pending')
      BY <1>2, <1>3, <1>4, <2>1, ReplayHas
    <2>5. \/ g \in ToSet(mem'.book) \/ Remaining(g, s.fill) = 0
          \/ Order(g).reduceOnly \/ g \in ToSet(pending')
      <3>1. CASE g \in ToSet(mem.book)
        <4>1. CASE g \in Preexisting(mem)
          <5>1. PreexistingOp(Id(g)) \in ToSet(mem.queue)
            BY <4>1 DEF Preexisting, InQueue, PreexistingOp, ToSet
          <5> QED
            BY <2>4, <5>1
        <4>2. CASE g \notin Preexisting(mem)
          <5>1. g \in ToSet(C.book)
            BY <2>2, <3>1, <4>2 DEF Blocked, Dropped
          <5>2. CASE g \in Purging(C, s, height + 1)
            <6>1. s.fill[Id(g)] >= Order(g).size
              BY <2>1, <2>2, <5>2 DEF Purging
            <6> QED
              BY <1>4, <2>2, <6>1, RemainingType
          <5>3. CASE g \notin Purging(C, s, height + 1)
            BY <5>1, <5>3 DEF Blocked, Purged
          <5> QED
            BY <5>2, <5>3
        <4> QED
          BY <4>1, <4>2
      <3>2. CASE Remaining(g, fill) = 0
        <4>1. CASE fill[Id(g)] # chain.fill[Id(g)]
          BY <2>2, <2>4, <4>1 DEF QueueOK, Tracks, Reflects, Named
        <4>2. CASE fill[Id(g)] = chain.fill[Id(g)]
          <5>1. s.fill[Id(g)] >= chain.fill[Id(g)]
            BY <1>1, <2>1, <2>3 DEF Settling
          <5>2. fill[Id(g)] >= Order(g).size
            BY <1>4, <2>2, <3>2, RemainingType
          <5>3. s.fill[Id(g)] \in Nat /\ chain.fill[Id(g)] \in Nat
            BY <1>4, <2>3 DEF Fillings
          <5>4. s.fill[Id(g)] >= Order(g).size
            BY <2>3, <4>2, <5>1, <5>2, <5>3
          <5> QED
            BY <1>4, <2>2, <5>4, RemainingType
        <4> QED
          BY <4>1, <4>2
      <3>3. CASE Id(g) \in mem.removals
        BY <2>3, <2>4, <3>3 DEF QueueOK, Tracks, Reflects, Named
      <3>4. \/ g \in ToSet(mem.book) \/ Remaining(g, fill) = 0 \/ Id(g) \in mem.removals
            \/ Order(g).reduceOnly
        BY <2>1 DEF QueueOK, Accounts, Blocked
      <3> QED
        BY <3>1, <3>2, <3>3, <3>4
    <2>6. RequiresImmediateExecution(g) => s.fill[Id(g)] = 0
      BY <2>1, CommitIOC
    <2> QED
      BY <2>5, <2>6
  <1> QED
    BY <1>1, <1>3, <1>5 DEF Accounts

\* What is pending after a block is untouched.
LEMMA CommitAwaits ==
  ASSUME QueueOK, NEW d, NEW leaving, NEW new, NEW l, NEW s, NEW C,
         Blocked(d, leaving, new, l, s, C), NEW e, e.liquidated = {}
  PROVE  Awaits(chain', mem', fill', pending', e)
  <1>1. /\ ToSet(chain'.placed) = ToSet(s.placed) \cup ToSet(new) /\ ChainOK(chain')
        /\ fill' = s.fill /\ chain'.fill = s.fill /\ Settling(chain, s)
        /\ \A h \in ToSet(new) : MayPlace(s, h)
    BY DEF Blocked, Committed
  <1>2. PICK R : R = ReplaySet(mem.queue, chain'.placed)
    OBVIOUS
  <1>3. /\ ToSet(pending') = ToSet(new) \cup R \cup ToSet(l)
        /\ ToSet(new) \cap R = {} => IsInjective(pending')
    BY <1>2 DEF Blocked, Todo
  <1>4. /\ chain'.placed \in Seq(Hashes) /\ IsInjective(chain'.placed)
        /\ MemOK(mem, fill) /\ ToSet(mem.book) \subseteq Hashes
    BY <1>1, BookType DEF QueueOK, StateOK, MemOK, ChainOK, Chains
  <1>5. ToSet(l) \cap Hashes = {}
    <2>1. ToSet(l) \subseteq Liquidations
      BY LiquidatableIs DEF ToSet, Blocked, Commits
    <2> QED
      BY <2>1, LiquidationTypes
  <1>6. \A h \in ToSet(new) : h \in Hashes /\ IsStateful(h)
    BY NewlyPlacedIs DEF ToSet, Blocked, Commits
  <1>7. ASSUME NEW g \in R, g \in Hashes, IsStateful(g)
        PROVE  PreexistingOp(Id(g)) \in ToSet(mem.queue) \/ RemoveOp(Id(g)) \in ToSet(mem.queue)
    BY <1>2, <1>4, <1>7, ReplayWas
  <1>8. ASSUME NEW g \in Hashes,
               PreexistingOp(Id(g)) \in ToSet(mem.queue) \/ RemoveOp(Id(g)) \in ToSet(mem.queue)
        PROVE  WithId(chain.placed, Id(g)) # {}
    <2>1. PICK x \in ToSet(mem.queue) : x.op \in {"preexisting", "remove"} /\ x.id = Id(g)
      BY <1>8 DEF PreexistingOp, RemoveOp
    <2> QED
      BY <2>1 DEF QueueOK, Tracks, Reflects, Named
  \* An order whose id was in state before the block is not newly placed.
  <1>9. ASSUME NEW g \in ToSet(new) PROVE WithId(chain.placed, Id(g)) = {}
    <2> SUFFICES ASSUME NEW f \in ToSet(chain.placed), Id(f) = Id(g) PROVE FALSE
      BY DEF WithId
    <2>1. f \notin ToSet(s.placed) /\ Id(f) \notin s.removed
      BY <1>1 DEF MayPlace, WithId
    <2> QED
      BY <1>1, <2>1 DEF Settling
  <1>10. ToSet(new) \cap R = {}
    BY <1>6, <1>7, <1>8, <1>9
  <1>11. ASSUME NEW g \in ToSet(pending'), g \in Hashes, IsStateful(g), g \in ToSet(mem'.book)
         PROVE  FALSE
    <2>1. g \in ToSet(C.book) /\ g \notin Purging(C, s, height + 1)
      BY <1>11 DEF Blocked, Purged
    <2>2. g \in ToSet(mem.book) /\ g \notin Preexisting(mem)
      BY <2>1 DEF Blocked, Dropped
    <2>3. g \in ToSet(chain.placed)
      BY <1>11, <2>2 DEF QueueOK, StateOK, InState
    <2>4. g \notin ToSet(new)
      BY <1>9, <2>3 DEF WithId
    <2>5. PreexistingOp(Id(g)) \in ToSet(mem.queue) \/ RemoveOp(Id(g)) \in ToSet(mem.queue)
      BY <1>3, <1>5, <1>7, <1>11, <2>4
    <2>6. PreexistingOp(Id(g)) \notin ToSet(mem.queue)
      BY <2>2 DEF Preexisting, InQueue, PreexistingOp, ToSet
    <2>7. Id(g) \in mem.removals
      BY <1>11, <2>5, <2>6, OrderTypes DEF QueueOK, Tracks, Reflects, Named
    <2> QED
      BY <1>11, <2>2, <2>7 DEF QueueOK, Tracks, Matchable
  <1>12. mem'.removals = {} /\ \A id \in Ids : mem'.matched[id] = None
    BY DEF Blocked, Purged, NothingMatched
  <1> QED
    BY <1>1, <1>3, <1>10, <1>11, <1>12, OrderTypes DEF Awaits

\* A block drops the queue; the orders it named are pending again.
LEMMA CommitQueue ==
  ASSUME QueueOK, StateOK', NEW d, NEW leaving, NEW new, NEW l, Commits(d, leaving, new, l)
  PROVE  QueueOK'
  <1>1. PICK s, C : Blocked(d, leaving, new, l, s, C)
    BY BlockedIs
  <1>2. /\ ChainOK(chain') /\ fill' = chain'.fill /\ MemOK(mem', fill')
        /\ InState(ToSet(mem'.book), chain')
    BY <1>1 DEF Blocked, Committed, StateOK
  <1>3. Fresh(mem')
    BY <1>1 DEF Blocked, Purged, Fresh
  <1>4. PICK e : e = DeliverAt(chain', height', mem'.queue)
    OBVIOUS
  <1>5. Reflects(chain', height', mem', fill') /\ e.liquidated = {}
    BY <1>2, <1>3, <1>4, FreshReflects
  <1>6. Matchable(height', mem')
    BY <1>1, CommitMatchable
  <1>7. Accounts(chain', mem', fill', pending')
    BY <1>1, CommitAccounts
  <1>8. Awaits(chain', mem', fill', pending', e)
    BY <1>1, <1>5, CommitAwaits
  <1>9. Tracks(chain', height', mem', fill')
    BY <1>2, <1>5, <1>6 DEF Tracks
  <1> QED
    BY <1>4, <1>7, <1>8, <1>9 DEF QueueOK

\* Every step keeps the queue proposable and the orders in state accounted for.
LEMMA QueueStep ==
  ASSUME QueueOK, [Next]_vars
  PROVE  QueueOK'
  <1>1. StateOK /\ StateOK'
    BY StepOK DEF QueueOK
  <1>2. ASSUME NEW h \in Hashes, NEW fate \in Fatings(mem, h), PlaceShortTermOrder(h, fate)
        PROVE  QueueOK'
    BY <1>1, <1>2, PlaceShortTermQueue
  <1>3. ASSUME NEW id \in ShortTermIds, NEW gtb \in 1 .. MaxHeight + ShortBlockWindow,
               CancelShortTermOrder(id, gtb)
        PROVE  QueueOK'
    <2>1. gtb \in Nat
      BY MemClobAssumption
    <2>2. Pruned(mem, mem')
      BY <1>1, <1>3, <2>1, CancelOK
    <2>3. UNCHANGED <<height, chain, fill, pending>>
      BY <1>3 DEF CancelShortTermOrder
    <2> QED
      BY <1>1, <2>2, <2>3, CancelQueue
  <1>4. ASSUME NEW d \in {Deliver(mem.queue)} \cup OthersOperations, NEW leaving \in Leaving(d),
               NEW new \in NewlyPlaced, NEW l \in Liquidatable, Commit(d, leaving, new, l)
        PROVE  QueueOK'
    <2>1. Commits(d, leaving, new, l)
      BY <1>4 DEF Commits
    <2> QED
      BY <1>1, <2>1, CommitQueue
  <1>5. ASSUME pending # <<>>, NEW fate \in Fatings(mem, Head(pending)),
               \/ \E hasPosition \in BOOLEAN : PlaceNext(fate, hasPosition)
               \/ Liquidate(fate)
        PROVE  QueueOK'
    BY <1>1, <1>5, PlaceNextQueue, LiquidateQueue
  <1>6. CASE Open
    BY <1>1, <1>6 DEF Open, QueueOK
  <1>7. CASE Restart
    BY <1>1, <1>7, RestartQueue
  <1>8. CASE UNCHANGED vars
    BY <1>1, <1>8 DEF vars, QueueOK
  <1> QED
    BY <1>2, <1>3, <1>4, <1>5, <1>6, <1>7, <1>8 DEF Next

\* The inductive invariant behind the two properties of the operations queue.
THEOREM QueueSound == Spec => []QueueOK
  <1>1. Init => QueueOK
    BY InitQueue
  <1>2. QueueOK /\ [Next]_vars => QueueOK'
    BY QueueStep
  <1> QED
    BY <1>1, <1>2, PTL DEF Spec

\* Whatever the node matched, the queue it would propose is one that DeliverTx
\* accepts, and it arrives at the fill amounts of the CheckTx state.
THEOREM QueueProposable == Spec => []Proposable
  <1>1. ASSUME QueueOK PROVE Proposable
    <2>1. PICK d : d = Deliver(mem.queue)
      OBVIOUS
    <2>2. d = DeliverAt(chain, height, mem.queue)
      BY <2>1, DeliverIs
    <2>3. Mirrors(mem, fill, d)
      BY <1>1, <2>2 DEF QueueOK, Tracks, Reflects
    <2>4. d.ok /\ \A id \in Ids : id \in d.removed \/ d.fill[id] = fill[id]
      BY <2>3 DEF Mirrors
    <2> QED
      BY <2>1, <2>4 DEF Proposable
  <1> QED
    BY <1>1, QueueSound, PTL

\* Once PrepareCheckState is done, each stateful order in state rests on the
\* book, is filled by the queue, or is removed by it.
THEOREM NoneForgotten == Spec => []StatefulAccounted
  <1>1. ASSUME QueueOK PROVE StatefulAccounted
    <2>1. phase = "open" => ToSet(pending) = {}
      BY <1>1 DEF QueueOK, StateOK, ToSet
    <2> QED
      BY <1>1, <2>1 DEF QueueOK, Accounts, StatefulAccounted
  <1> QED
    BY <1>1, QueueSound, PTL

=============================================================================

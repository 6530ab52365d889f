----------------------------- MODULE TwapProofs -----------------------------
(***************************************************************************)
(* A TWAP order never trades more than its size, whatever its size, legs   *)
(* and times, and however late blocks come.  What a suborder has left is   *)
(* what RemainingQuantums of its parent still allows, also when client ids *)
(* are used again; that there is a parent at all holds as long as they are *)
(* not.                                                                    *)
(***************************************************************************)
EXTENDS Twap, FiniteSetTheorems, TLAPS

TwapTypes ==
  /\ parent \in [Ids -> Parents \cup {None}]
  /\ suborder \in [Ids -> Suborders \cup {None}]
  /\ traded \in [Ids -> Nat]
  /\ triggers \subseteq Int \X Ids

\* What was traded for a parent and what is left of it add up to its size.
Ledger ==
  \A id \in Ids :
    /\ traded[id] <= Quantums
    /\ parent[id] # None => traded[id] + parent[id].remaining = Quantums

\* A suborder never has more left than its parent, if there is one.
LeftCovered ==
  \A id \in Ids :
    suborder[id] # None =>
      /\ suborder[id].filled <= suborder[id].quantums
      /\ parent[id] # None =>
           suborder[id].quantums - suborder[id].filled <= parent[id].remaining

LedgerInv == TwapTypes /\ Ledger /\ LeftCovered

\* With every client id used once, a parent has one trigger at most, which is
\* later than the end of the suborder in flight.
Apart ==
  /\ placements \in [Ids -> Nat]
  /\ \A e, f \in triggers : e[2] = f[2] => e = f
  /\ \A e \in triggers : suborder[e[2]] # None => suborder[e[2]].ttl < e[1]
  /\ \A id \in Ids :
       placements[id] = 0 => /\ parent[id] = None /\ suborder[id] = None
                             /\ \A e \in triggers : e[2] # id

OnceInv == LedgerInv /\ Apart /\ SuborderCovered
USE TwapAssumption

-----------------------------------------------------------------------------
(* Sizes.                                                                  *)

LEMMA DivCeilBound ==
  ASSUME NEW r \in Nat, NEW l \in Nat \ {0}
  PROVE  DivCeil(r, l) \in Nat /\ DivCeil(r, l) <= r
BY DEF DivCeil

\* Rounding down to a multiple of the step.
LEMMA StepBound ==
  ASSUME NEW q \in Nat
  PROVE  /\ (q \div StepBaseQuantums) * StepBaseQuantums \in Nat
         /\ (q \div StepBaseQuantums) * StepBaseQuantums <= q
<1>1. StepBaseQuantums \in Nat \ {0}
  OBVIOUS
<1> QED
  BY <1>1

\* A suborder is never larger than what is left of the parent.
LEMMA SuborderBound ==
  ASSUME NEW p \in Parents, p.legs > 0
  PROVE  SuborderQuantums(p) \in Nat /\ SuborderQuantums(p) <= p.remaining
<1> DEFINE perLeg == DivCeil(p.remaining, p.legs)
           most == DivCeil(Quantums, TotalLegs) * CatchupMultiple
           size == IF perLeg < most THEN perLeg ELSE most
<1>1. p.remaining \in Nat /\ p.legs \in Nat \ {0}
  BY DEF Parents
<1>2. perLeg \in Nat /\ perLeg <= p.remaining
  BY <1>1, DivCeilBound
<1>3. most \in Nat
  <2>1. Quantums \in Nat /\ TotalLegs \in Nat \ {0} /\ CatchupMultiple \in Nat
    OBVIOUS
  <2> QED
    BY <2>1, DivCeilBound
<1>4. size \in Nat /\ size <= p.remaining
  <2> HIDE DEF perLeg, most
  <2> QED
    BY <1>1, <1>2, <1>3
<1>5. SuborderQuantums(p) = (size \div StepBaseQuantums) * StepBaseQuantums
  BY DEF SuborderQuantums
<1> HIDE DEF size
<1> QED
  BY <1>1, <1>4, <1>5, StepBound

-----------------------------------------------------------------------------
(* What was traded.                                                        *)

\* What the proofs use of the records.
LEMMA Records ==
  ASSUME TwapTypes, NEW id \in Ids
  PROVE  /\ parent[id] # None => /\ parent[id] \in Parents
                                 /\ parent[id].legs \in 0 .. TotalLegs
                                 /\ parent[id].remaining \in 0 .. Uint64 - 1
         /\ suborder[id] # None => /\ suborder[id] \in Suborders
                                   /\ suborder[id].ttl \in Int
                                   /\ suborder[id].quantums \in 0 .. Quantums
                                   /\ suborder[id].filled \in 0 .. Quantums
BY DEF TwapTypes, Parents, Suborders

LEMMA InitLedger == Init => LedgerInv
BY DEF Init, LedgerInv, TwapTypes, Ledger, LeftCovered

LEMMA BeginLedger ==
  ASSUME LedgerInv, NEW elapsed \in 1 .. MaxGap, BeginBlock(elapsed)
  PROVE  LedgerInv'
<1>1. UNCHANGED <<parent, traded>>
  BY DEF BeginBlock
<1>2. triggers' \subseteq Int \X Ids
  BY DEF BeginBlock, Later, LedgerInv, TwapTypes
<1>3. suborder' = [id \in Ids |-> IF suborder[id] = None THEN None
                                  ELSE [suborder[id] EXCEPT !.ttl = @ - elapsed]]
  BY DEF BeginBlock
<1>4. ASSUME NEW id \in Ids, suborder[id] # None
      PROVE  /\ suborder'[id] \in Suborders
             /\ suborder'[id].filled = suborder[id].filled
             /\ suborder'[id].quantums = suborder[id].quantums
  BY <1>3, <1>4, Records DEF LedgerInv, Suborders
<1>5. ASSUME NEW id \in Ids, suborder[id] = None PROVE suborder'[id] = None
  BY <1>3, <1>5
<1>6. suborder' \in [Ids -> Suborders \cup {None}]
  BY <1>3, <1>4, <1>5
<1> QED
  BY <1>1, <1>2, <1>4, <1>5, <1>6 DEF LedgerInv, TwapTypes, Ledger, LeftCovered

\* A fill takes as much from the parent as from the suborder; as the parent
\* covers it, the subtraction does not wrap.
LEMMA FillLedger ==
  ASSUME LedgerInv, NEW id \in Ids, NEW amount \in 1 .. Quantums, FillSuborder(id, amount)
  PROVE  LedgerInv'
<1>1. /\ suborder[id] # None /\ parent[id] # None
      /\ suborder[id].filled + amount <= suborder[id].quantums
      /\ suborder' = [suborder EXCEPT ![id].filled = @ + amount]
      /\ parent' = [parent EXCEPT ![id].remaining = RemainingAfterFill(id, amount)]
      /\ traded' = [traded EXCEPT ![id] = @ + amount]
      /\ triggers' = triggers
  BY DEF FillSuborder
<1>2. /\ parent[id] \in Parents /\ suborder[id] \in Suborders
      /\ parent[id].remaining \in 0 .. Uint64 - 1
      /\ suborder[id].quantums \in 0 .. Quantums /\ suborder[id].filled \in 0 .. Quantums
      /\ traded[id] \in Nat
  BY <1>1, Records DEF LedgerInv, TwapTypes
<1>3. /\ suborder[id].quantums - suborder[id].filled <= parent[id].remaining
      /\ traded[id] + parent[id].remaining = Quantums
  BY <1>1 DEF LedgerInv, LeftCovered, Ledger
<1>4. amount <= parent[id].remaining
  BY <1>1, <1>2, <1>3
<1>5. RemainingAfterFill(id, amount) = parent[id].remaining - amount
  <2>1. parent[id].remaining - amount \in 0 .. Uint64 - 1 /\ Uint64 \in Nat
    BY <1>2, <1>4
  <2> QED
    BY <2>1 DEF RemainingAfterFill
<1>6. /\ parent'[id] = [parent[id] EXCEPT !.remaining = parent[id].remaining - amount]
      /\ suborder'[id] = [suborder[id] EXCEPT !.filled = suborder[id].filled + amount]
      /\ traded'[id] = traded[id] + amount
      /\ \A other \in Ids \ {id} : /\ parent'[other] = parent[other]
                                   /\ suborder'[other] = suborder[other]
                                   /\ traded'[other] = traded[other]
      /\ DOMAIN parent' = Ids /\ DOMAIN suborder' = Ids /\ DOMAIN traded' = Ids
  BY <1>1, <1>5 DEF LedgerInv, TwapTypes
<1>7. /\ parent'[id] \in Parents /\ suborder'[id] \in Suborders
      /\ parent'[id].remaining = parent[id].remaining - amount
      /\ suborder'[id].filled = suborder[id].filled + amount
      /\ suborder'[id].quantums = suborder[id].quantums
  <2>1. parent[id].remaining - amount \in 0 .. Uint64 - 1
    BY <1>2, <1>4
  <2>2. suborder[id].filled + amount \in 0 .. Quantums
    BY <1>1, <1>2
  <2> QED
    BY <1>2, <1>6, <2>1, <2>2 DEF Parents, Suborders
<1>8. TwapTypes'
  <2>1. /\ \A other \in Ids : parent'[other] \in Parents \cup {None}
        /\ \A other \in Ids : suborder'[other] \in Suborders \cup {None}
        /\ \A other \in Ids : traded'[other] \in Nat
    BY <1>2, <1>6, <1>7 DEF LedgerInv, TwapTypes
  <2>2. /\ parent' = [other \in Ids |-> parent'[other]]
        /\ suborder' = [other \in Ids |-> suborder'[other]]
        /\ traded' = [other \in Ids |-> traded'[other]]
    BY <1>1, <1>6 DEF LedgerInv, TwapTypes
  <2> QED
    BY <1>1, <2>1, <2>2 DEF LedgerInv, TwapTypes
<1>9. Ledger'
  <2>1. traded'[id] + parent'[id].remaining = Quantums /\ traded'[id] <= Quantums
    BY <1>2, <1>3, <1>4, <1>6, <1>7
  <2> QED
    BY <2>1, <1>6 DEF LedgerInv, Ledger
<1>10. LeftCovered'
  <2>1. /\ suborder'[id].filled <= suborder'[id].quantums
        /\ suborder'[id].quantums - suborder'[id].filled <= parent'[id].remaining
    BY <1>1, <1>2, <1>3, <1>7
  <2> QED
    BY <2>1, <1>6 DEF LedgerInv, LeftCovered
<1> QED
  BY <1>8, <1>9, <1>10 DEF LedgerInv

\* A suborder leaves, or is left as it is.
LEMMA GoneLedger ==
  ASSUME LedgerInv, UNCHANGED <<parent, triggers, traded>>,
         DOMAIN suborder' = Ids, suborder' = [id \in Ids |-> suborder'[id]],
         \A id \in Ids : suborder'[id] \in {None, suborder[id]}
  PROVE  LedgerInv'
<1>1. \A id \in Ids : suborder'[id] # None => suborder'[id] = suborder[id]
  OBVIOUS
<1>2. suborder' \in [Ids -> Suborders \cup {None}]
  BY DEF LedgerInv, TwapTypes
<1> QED
  BY <1>1, <1>2 DEF LedgerInv, TwapTypes, Ledger, LeftCovered

LEMMA RemoveLedger ==
  ASSUME LedgerInv, NEW id \in Ids, RemoveSuborder(id)
  PROVE  LedgerInv'
<1>1. suborder' = [suborder EXCEPT ![id] = None] /\ UNCHANGED <<parent, triggers, traded>>
  BY DEF RemoveSuborder, historyVars
<1> QED
  BY <1>1, GoneLedger DEF LedgerInv, TwapTypes

LEMMA EndOperationsLedger == ASSUME LedgerInv, EndOperations PROVE LedgerInv'
<1>1. /\ suborder' = [id \in Ids |-> IF id \in FullyFilled THEN None ELSE suborder[id]]
      /\ UNCHANGED <<parent, triggers, traded>>
  BY DEF EndOperations, historyVars
<1> QED
  BY <1>1, GoneLedger

\* A new parent, whatever is left under its id.
LEMMA PlaceLedger ==
  ASSUME LedgerInv, NEW id \in Ids, PlaceTwapOrder(id)
  PROVE  LedgerInv'
<1>1. /\ parent' = [parent EXCEPT ![id] = [legs |-> TotalLegs, remaining |-> Quantums]]
      /\ traded' = [traded EXCEPT ![id] = 0]
      /\ triggers' = triggers \cup {<<0, id>>}
      /\ suborder' = suborder
  BY DEF PlaceTwapOrder
<1>2. [legs |-> TotalLegs, remaining |-> Quantums] \in Parents
  BY DEF Parents
<1>3. TwapTypes'
  BY <1>1, <1>2 DEF LedgerInv, TwapTypes
<1>4. Ledger'
  BY <1>1 DEF LedgerInv, TwapTypes, Ledger
<1>5. ASSUME NEW other \in Ids, suborder[other] # None, parent'[other] # None
      PROVE  suborder[other].quantums - suborder[other].filled <= parent'[other].remaining
  <2>1. CASE other = id
    <3>1. parent'[other].remaining = Quantums
      BY <1>1, <2>1 DEF LedgerInv, TwapTypes
    <3> QED
      BY <3>1, <1>5, Records DEF LedgerInv
  <2>2. CASE other # id
    BY <1>1, <1>5, <2>2 DEF LedgerInv, TwapTypes, LeftCovered
  <2> QED
    BY <2>1, <2>2
<1> QED
  BY <1>1, <1>3, <1>4, <1>5 DEF LedgerInv, LeftCovered

LEMMA CancelLedger ==
  ASSUME LedgerInv, NEW id \in Ids, CancelTwapOrder(id)
  PROVE  LedgerInv'
<1>1. /\ parent' = [parent EXCEPT ![id] = None]
      /\ suborder' = [suborder EXCEPT ![id] = None]
      /\ UNCHANGED <<triggers, traded>>
  BY DEF CancelTwapOrder
<1> QED
  BY <1>1 DEF LedgerInv, TwapTypes, Ledger, LeftCovered

\* What EndBlock does to one id.
LEMMA EndBlockView ==
  ASSUME NEW accepted \in SUBSET Ids, EndBlock(accepted), TwapTypes, NEW id \in Ids
  PROVE  /\ \/ parent'[id] = None
            \/ /\ parent[id] # None /\ parent'[id] # None
               /\ parent'[id].remaining = parent[id].remaining
               /\ parent'[id] \in Parents
         /\ \/ suborder'[id] = None
            \/ suborder'[id] = suborder[id] /\ id \in InFlight
            \/ /\ id \in Placed(accepted)
               /\ parent[id] # None /\ parent[id].legs > 0
               /\ suborder'[id] = [ttl |-> GoodTilOffset,
                                   quantums |-> SuborderQuantums(parent[id]),
                                   filled |-> 0, stray |-> DueOf(id) \subseteq stray]
<1>1. /\ suborder' = [i \in Ids |->
            IF i \in Placed(accepted)
            THEN [ttl |-> GoodTilOffset, quantums |-> SuborderQuantums(parent[i]),
                  filled |-> 0, stray |-> DueOf(i) \subseteq stray]
            ELSE IF i \in InFlight THEN suborder[i] ELSE None]
      /\ parent' = [i \in Ids |->
            IF i \in Completed \cup Failed(accepted) THEN None
            ELSE IF i \in Open
            THEN [parent[i] EXCEPT !.legs = LegsAfterSuborder(parent[i])]
            ELSE parent[i]]
  BY DEF EndBlock
<1>2. id \in Placed(accepted) => parent[id] # None /\ parent[id].legs > 0
  BY DEF Placed, Open
<1>3. parent'[id] = None \/ (/\ parent[id] # None /\ parent'[id] # None
                             /\ parent'[id].remaining = parent[id].remaining
                             /\ parent'[id] \in Parents)
  <2>1. CASE id \in Completed \cup Failed(accepted)
    BY <1>1, <2>1
  <2>2. CASE id \notin Completed \cup Failed(accepted) /\ id \in Open
    <3>1. parent'[id] = [parent[id] EXCEPT !.legs = parent[id].legs - 1]
      BY <1>1, <2>2 DEF LegsAfterSuborder
    <3>2. parent[id] # None /\ parent[id].legs > 0
      BY <2>2 DEF Open
    <3>3. parent[id] \in Parents
      BY <3>2, Records
    <3> QED
      BY <3>1, <3>2, <3>3 DEF Parents
  <2>3. CASE id \notin Completed \cup Failed(accepted) /\ id \notin Open
    BY <1>1, <2>3, Records
  <2> QED
    BY <2>1, <2>2, <2>3
<1> QED
  BY <1>1, <1>2, <1>3

LEMMA EndBlockLedger ==
  ASSUME LedgerInv, NEW accepted \in SUBSET Ids, EndBlock(accepted)
  PROVE  LedgerInv'
<1>1. /\ traded' = traded
      /\ triggers' = (triggers \ DueTriggers) \cup Scheduled(accepted)
      /\ parent' = [id \in Ids |-> parent'[id]] /\ suborder' = [id \in Ids |-> suborder'[id]]
  BY DEF EndBlock
<1>2. TwapTypes
  BY DEF LedgerInv
<1>3. triggers' \subseteq Int \X Ids
  <2>1. Scheduled(accepted) \subseteq Int \X Ids
    BY <1>2 DEF Scheduled, Open, DueIds, DueTriggers, TwapTypes
  <2> QED
    BY <1>1, <1>2, <2>1 DEF TwapTypes
<1>4. ASSUME NEW id \in Ids
      PROVE  /\ parent'[id] \in Parents \cup {None}
             /\ parent'[id] # None => /\ parent[id] # None
                                      /\ parent'[id].remaining = parent[id].remaining
  BY <1>2, EndBlockView
<1>5. ASSUME NEW id \in Ids, suborder'[id] # None
      PROVE  /\ suborder'[id] \in Suborders
             /\ suborder'[id].filled <= suborder'[id].quantums
             /\ parent[id] # None =>
                  suborder'[id].quantums - suborder'[id].filled <= parent[id].remaining
  <2>1. CASE suborder'[id] = suborder[id]
    BY <1>2, <1>5, <2>1, Records DEF LedgerInv, LeftCovered
  <2>2. CASE /\ parent[id] # None /\ parent[id].legs > 0
             /\ suborder'[id] = [ttl |-> GoodTilOffset,
                                 quantums |-> SuborderQuantums(parent[id]),
                                 filled |-> 0, stray |-> DueOf(id) \subseteq stray]
    <3>1. parent[id] \in Parents /\ parent[id].remaining \in Nat
      BY <1>2, <2>2, Records
    <3>2. /\ SuborderQuantums(parent[id]) \in Nat
          /\ SuborderQuantums(parent[id]) <= parent[id].remaining
      BY <2>2, <3>1, SuborderBound
    <3>3. parent[id].remaining <= Quantums
      BY <1>2, <2>2, <3>1 DEF LedgerInv, Ledger, TwapTypes
    <3>4. SuborderQuantums(parent[id]) \in 0 .. Quantums
      BY <3>1, <3>2, <3>3
    <3>5. suborder'[id] \in Suborders
      BY <2>2, <3>4 DEF Suborders
    <3> QED
      BY <2>2, <3>1, <3>2, <3>5
  <2> QED
    BY <1>2, <1>5, <2>1, <2>2, EndBlockView
<1>6. TwapTypes'
  BY <1>1, <1>2, <1>3, <1>4, <1>5 DEF TwapTypes
<1>7. Ledger'
  BY <1>1, <1>4 DEF LedgerInv, Ledger
<1>8. LeftCovered'
  BY <1>4, <1>5 DEF LeftCovered
<1> QED
  BY <1>6, <1>7, <1>8 DEF LedgerInv

LEMMA NextLedger == LedgerInv /\ [Next]_vars => LedgerInv'
<1> SUFFICES ASSUME LedgerInv, [Next]_vars PROVE LedgerInv'
  OBVIOUS
<1>1. CASE Restart \/ UNCHANGED vars
  BY <1>1 DEF Restart, vars, storeVars, historyVars, LedgerInv, TwapTypes, Ledger, LeftCovered
<1> QED
  BY <1>1, BeginLedger, FillLedger, RemoveLedger, EndOperationsLedger, PlaceLedger,
     CancelLedger, EndBlockLedger DEF Next, BeginSomeBlock, EndSomeBlock

-----------------------------------------------------------------------------
(* Parents and triggers, when every client id is used once.                *)

LEMMA InitApart == Init => Apart /\ SuborderCovered
BY DEF Init, Apart, SuborderCovered

\* A step that schedules nothing and at most takes suborders and parents away,
\* a parent only together with its suborder.
LEMMA QuietApart ==
  ASSUME OnceInv, LedgerInv', UNCHANGED <<triggers, placements>>,
         \A id \in Ids : suborder'[id] # None =>
           /\ suborder[id] # None /\ suborder'[id].ttl = suborder[id].ttl
           /\ parent'[id] # None,
         \A id \in Ids : parent'[id] # None => parent[id] # None
  PROVE  Apart' /\ SuborderCovered'
<1>1. Apart'
  BY DEF OnceInv, LedgerInv, TwapTypes, Apart
<1>2. SuborderCovered'
  BY DEF LedgerInv, LeftCovered, SuborderCovered
<1> QED
  BY <1>1, <1>2

LEMMA FillApart ==
  ASSUME OnceInv, NEW id \in Ids, NEW amount \in 1 .. Quantums, FillSuborder(id, amount)
  PROVE  Apart' /\ SuborderCovered'
<1>1. LedgerInv' /\ LedgerInv
  BY FillLedger DEF OnceInv
<1>2. /\ suborder[id] # None /\ parent[id] # None
      /\ suborder' = [suborder EXCEPT ![id].filled = @ + amount]
      /\ parent' = [parent EXCEPT ![id].remaining = RemainingAfterFill(id, amount)]
      /\ UNCHANGED <<triggers, placements>>
  BY DEF FillSuborder
<1>3. suborder[id] \in Suborders /\ parent[id] \in Parents
  BY <1>1, <1>2, Records DEF LedgerInv
<1>4. /\ suborder'[id].ttl = suborder[id].ttl /\ parent'[id] # None
      /\ \A other \in Ids \ {id} : /\ suborder'[other] = suborder[other]
                                   /\ parent'[other] = parent[other]
  <2>1. suborder'[id] = [suborder[id] EXCEPT !.filled = suborder[id].filled + amount]
    BY <1>1, <1>2 DEF LedgerInv, TwapTypes
  <2>2. parent'[id] = [parent[id] EXCEPT !.remaining = RemainingAfterFill(id, amount)]
    BY <1>1, <1>2 DEF LedgerInv, TwapTypes
  <2>3. suborder'[id].ttl = suborder[id].ttl
    BY <1>3, <2>1 DEF Suborders
  <2>4. parent'[id] # None
    <3>1. RemainingAfterFill(id, amount) \in 0 .. Uint64 - 1
      <4>1. parent[id].remaining - amount \in Int /\ Uint64 \in Nat \ {0}
        BY <1>3 DEF Parents
      <4> QED
        BY <4>1 DEF RemainingAfterFill
    <3>2. parent'[id] \in Parents
      BY <1>3, <2>2, <3>1 DEF Parents
    <3> QED
      BY <3>2
  <2> QED
    BY <1>1, <1>2, <2>3, <2>4 DEF LedgerInv, TwapTypes
<1> QED
  BY <1>1, <1>2, <1>4, QuietApart DEF OnceInv, SuborderCovered

LEMMA BeginApart ==
  ASSUME OnceInv, NEW elapsed \in 1 .. MaxGap, BeginBlock(elapsed)
  PROVE  Apart' /\ SuborderCovered'
<1>1. LedgerInv' /\ LedgerInv /\ elapsed \in Int
  BY BeginLedger DEF OnceInv
<1>2. /\ UNCHANGED <<parent, placements>>
      /\ triggers' = {<<e[1] - elapsed, e[2]>> : e \in triggers}
      /\ suborder' = [id \in Ids |-> IF suborder[id] = None THEN None
                                     ELSE [suborder[id] EXCEPT !.ttl = @ - elapsed]]
  BY DEF BeginBlock, Later
<1>3. ASSUME NEW id \in Ids, suborder'[id] # None
      PROVE  /\ suborder[id] # None /\ suborder[id].ttl \in Int
             /\ suborder'[id].ttl = suborder[id].ttl - elapsed
  <2>1. suborder[id] # None
    BY <1>2, <1>3
  <2>2. suborder[id] \in Suborders
    BY <1>1, <2>1, Records DEF LedgerInv
  <2> QED
    BY <1>2, <2>1, <2>2 DEF Suborders
<1>4. triggers \subseteq Int \X Ids
  BY <1>1 DEF LedgerInv, TwapTypes
<1>5. ASSUME NEW e \in triggers'
      PROVE  \E d \in triggers : /\ e = <<d[1] - elapsed, d[2]>> /\ e[1] = d[1] - elapsed
                                 /\ e[2] = d[2] /\ d[1] \in Int /\ d[2] \in Ids
  BY <1>2, <1>4
<1>6. ASSUME NEW e \in triggers', NEW f \in triggers', e[2] = f[2] PROVE e = f
  BY <1>5, <1>6 DEF OnceInv, Apart
<1>7. ASSUME NEW e \in triggers', suborder'[e[2]] # None PROVE suborder'[e[2]].ttl < e[1]
  <2>1. PICK d \in triggers : /\ e[1] = d[1] - elapsed /\ e[2] = d[2]
                              /\ d[1] \in Int /\ d[2] \in Ids
    BY <1>5
  <2>2. /\ suborder[d[2]] # None /\ suborder[d[2]].ttl \in Int
        /\ suborder'[d[2]].ttl = suborder[d[2]].ttl - elapsed
    BY <1>3, <1>7, <2>1
  <2>3. suborder[d[2]].ttl < d[1]
    BY <2>2 DEF OnceInv, Apart
  <2> QED
    BY <1>1, <2>1, <2>2, <2>3
<1>8. ASSUME NEW id \in Ids, placements'[id] = 0
      PROVE  /\ parent'[id] = None /\ suborder'[id] = None
             /\ \A e \in triggers' : e[2] # id
  <2>1. parent[id] = None /\ suborder[id] = None /\ \A d \in triggers : d[2] # id
    BY <1>2, <1>8 DEF OnceInv, Apart
  <2> QED
    BY <1>2, <1>5, <2>1
<1>9. Apart'
  BY <1>2, <1>6, <1>7, <1>8 DEF OnceInv, Apart
<1>10. SuborderCovered'
  BY <1>1, <1>2, <1>3 DEF OnceInv, SuborderCovered, LedgerInv, LeftCovered
<1> QED
  BY <1>9, <1>10

LEMMA LeaveApart ==
  ASSUME OnceInv, (\E id \in Ids : RemoveSuborder(id)) \/ EndOperations
  PROVE  Apart' /\ SuborderCovered'
<1>1. LedgerInv'
  BY RemoveLedger, EndOperationsLedger DEF OnceInv
<1>2. /\ UNCHANGED <<parent, triggers, placements>>
      /\ \A id \in Ids : suborder'[id] \in {None, suborder[id]}
  BY DEF RemoveSuborder, EndOperations, historyVars, OnceInv, LedgerInv, TwapTypes
<1> QED
  BY <1>1, <1>2, QuietApart DEF OnceInv, SuborderCovered

LEMMA CancelApart ==
  ASSUME OnceInv, NEW id \in Ids, CancelTwapOrder(id)
  PROVE  Apart' /\ SuborderCovered'
<1>1. LedgerInv'
  BY CancelLedger DEF OnceInv
<1>2. /\ UNCHANGED <<triggers, placements>>
      /\ parent' = [parent EXCEPT ![id] = None]
      /\ suborder' = [suborder EXCEPT ![id] = None]
  BY DEF CancelTwapOrder
<1>3. /\ parent'[id] = None /\ suborder'[id] = None
      /\ \A other \in Ids \ {id} : /\ suborder'[other] = suborder[other]
                                   /\ parent'[other] = parent[other]
  BY <1>2 DEF OnceInv, LedgerInv, TwapTypes
<1> QED
  BY <1>1, <1>2, <1>3, QuietApart DEF OnceInv, SuborderCovered

\* The first placement under an id finds nothing of it.
LEMMA PlaceApart ==
  ASSUME OnceInv, MaxPlacements = 1, NEW id \in Ids, PlaceTwapOrder(id)
  PROVE  Apart' /\ SuborderCovered'
<1>1. LedgerInv' /\ LedgerInv
  BY PlaceLedger DEF OnceInv
<1>2. /\ placements[id] < MaxPlacements /\ suborder' = suborder
      /\ triggers' = triggers \cup {<<0, id>>}
      /\ placements' = [placements EXCEPT ![id] = @ + 1]
      /\ parent' = [parent EXCEPT ![id] = [legs |-> TotalLegs, remaining |-> Quantums]]
  BY DEF PlaceTwapOrder
<1>3. placements \in [Ids -> Nat]
  BY DEF OnceInv, Apart
<1>4. placements[id] = 0
  BY <1>2, <1>3
<1>5. suborder[id] = None /\ \A e \in triggers : e[2] # id
  BY <1>4 DEF OnceInv, Apart
<1>6. /\ placements' \in [Ids -> Nat] /\ placements'[id] # 0
      /\ \A other \in Ids \ {id} : placements'[other] = placements[other]
                                   /\ parent'[other] = parent[other]
  BY <1>1, <1>2, <1>3, <1>4 DEF LedgerInv, TwapTypes
<1>7. ASSUME NEW e \in triggers', NEW f \in triggers', e[2] = f[2] PROVE e = f
  BY <1>2, <1>5, <1>7 DEF OnceInv, Apart
<1>8. ASSUME NEW e \in triggers', suborder'[e[2]] # None PROVE suborder'[e[2]].ttl < e[1]
  BY <1>2, <1>5, <1>8 DEF OnceInv, Apart
<1>9. ASSUME NEW other \in Ids, placements'[other] = 0
      PROVE  /\ parent'[other] = None /\ suborder'[other] = None
             /\ \A e \in triggers' : e[2] # other
  BY <1>2, <1>6, <1>9 DEF OnceInv, Apart
<1>10. Apart'
  BY <1>6, <1>7, <1>8, <1>9 DEF Apart
<1>11. ASSUME NEW other \in Ids, suborder'[other] # None PROVE parent'[other] # None
  BY <1>2, <1>5, <1>6, <1>11 DEF OnceInv, SuborderCovered
<1> QED
  BY <1>1, <1>10, <1>11 DEF LedgerInv, LeftCovered, SuborderCovered

\* The suborder of a parent whose trigger is due has expired; so the parent
\* that fails or completes has none, and one that is given a suborder stays.
LEMMA EndBlockApart ==
  ASSUME OnceInv, NEW accepted \in SUBSET Ids, EndBlock(accepted)
  PROVE  Apart' /\ SuborderCovered'
<1>1. LedgerInv' /\ LedgerInv /\ TwapTypes
  BY EndBlockLedger DEF OnceInv, LedgerInv
<1>2. /\ placements' = placements
      /\ triggers' = (triggers \ DueTriggers) \cup Scheduled(accepted)
      /\ parent' = [i \in Ids |->
            IF i \in Completed \cup Failed(accepted) THEN None
            ELSE IF i \in Open
            THEN [parent[i] EXCEPT !.legs = LegsAfterSuborder(parent[i])]
            ELSE parent[i]]
  BY DEF EndBlock
<1>3. ASSUME NEW e \in DueTriggers
      PROVE  /\ e \in triggers /\ e[1] \in Int /\ e[1] <= 0 /\ e[2] \in Ids
             /\ e[2] \notin InFlight
             /\ \A f \in triggers : f[2] = e[2] => f = e
  <2>1. e \in triggers /\ e[1] \in Int /\ e[1] <= 0 /\ e[2] \in Ids
    BY <1>1 DEF DueTriggers, TwapTypes
  <2>2. ASSUME suborder[e[2]] # None PROVE e[2] \in Expired
    <3>1. suborder[e[2]].ttl < e[1]
      BY <2>1, <2>2 DEF OnceInv, Apart
    <3>2. suborder[e[2]].ttl \in Int
      BY <1>1, <2>1, <2>2, Records
    <3> QED
      BY <2>1, <2>2, <3>1, <3>2 DEF Expired
  <2>3. e[2] \notin InFlight
    BY <2>2 DEF InFlight
  <2> QED
    BY <2>1, <2>3 DEF OnceInv, Apart
<1>4. ASSUME NEW id \in DueIds
      PROVE  id \in Ids /\ id \notin InFlight /\ Cardinality(DueOf(id)) = 1
  <2>1. PICK e \in DueTriggers : id = e[2]
    BY DEF DueIds
  <2>2. DueOf(id) = {e}
    BY <1>3, <2>1 DEF DueOf
  <2> QED
    BY <1>3, <2>1, <2>2, FS_Singleton
<1>5. Failed(accepted) = Open \ Placed(accepted)
  BY <1>4 DEF Failed, Open
<1>6. Open \cap Completed = {} /\ Placed(accepted) \subseteq Open
  BY DEF Open, Completed, Placed
<1>7. ASSUME NEW id \in Ids, suborder'[id] # None
      PROVE  /\ parent'[id] # None
             /\ \/ id \in Placed(accepted) /\ suborder'[id].ttl = GoodTilOffset
                \/ id \notin DueIds /\ suborder'[id] = suborder[id]
  <2>1. CASE id \in Placed(accepted)
    <3>1. id \notin Completed \cup Failed(accepted) /\ id \in Open
      BY <1>5, <1>6, <2>1
    <3>2. parent'[id] = [parent[id] EXCEPT !.legs = parent[id].legs - 1]
      BY <1>2, <3>1 DEF LegsAfterSuborder
    <3>3. parent[id] # None /\ parent[id].legs > 0
      BY <3>1 DEF Open
    <3>4. parent[id] \in Parents
      BY <1>1, <3>3, Records
    <3>5. parent'[id] \in Parents
      BY <3>2, <3>3, <3>4 DEF Parents
    <3>6. suborder'[id].ttl = GoodTilOffset
      BY <2>1 DEF EndBlock
    <3> QED
      BY <2>1, <3>5, <3>6
  <2>2. CASE id \notin Placed(accepted)
    <3>1. id \in InFlight /\ suborder'[id] = suborder[id]
      BY <1>7, <2>2 DEF EndBlock
    <3>2. id \notin DueIds
      BY <1>4, <3>1
    <3>3. parent'[id] = parent[id]
      BY <1>2, <3>2 DEF Open, Completed, Failed
    <3> QED
      BY <1>7, <3>1, <3>2, <3>3 DEF OnceInv, SuborderCovered
  <2> QED
    BY <2>1, <2>2
<1>8. ASSUME NEW e \in Scheduled(accepted)
      PROVE  e[1] = Interval /\ e[2] \in Placed(accepted) /\ e[2] \in DueIds
             /\ e = <<Interval, e[2]>>
  BY <1>5, <1>6 DEF Scheduled, Open
<1>9. ASSUME NEW e \in triggers \ DueTriggers PROVE e[2] \notin DueIds /\ e[2] \in Ids
  BY <1>1, <1>3 DEF DueIds, TwapTypes
<1>10. ASSUME NEW e \in triggers', NEW f \in triggers', e[2] = f[2] PROVE e = f
  <2>1. CASE e \in Scheduled(accepted) /\ f \in Scheduled(accepted)
    BY <1>8, <1>10, <2>1
  <2>2. CASE e \in triggers \ DueTriggers /\ f \in triggers \ DueTriggers
    BY <1>10, <2>2 DEF OnceInv, Apart
  <2> QED
    BY <1>2, <1>8, <1>9, <1>10, <2>1, <2>2
<1>11. ASSUME NEW e \in triggers', suborder'[e[2]] # None PROVE suborder'[e[2]].ttl < e[1]
  <2>1. CASE e \in Scheduled(accepted)
    <3>1. suborder'[e[2]].ttl = GoodTilOffset
      BY <1>8, <2>1 DEF EndBlock, Placed, Open, DueIds, DueTriggers
    <3> QED
      BY <1>8, <2>1, <3>1
  <2>2. CASE e \in triggers \ DueTriggers
    <3>1. e[2] \notin Placed(accepted) /\ e[2] \in Ids
      BY <1>9, <1>6, <2>2 DEF Open
    <3>2. suborder'[e[2]] = suborder[e[2]]
      BY <1>7, <1>11, <3>1
    <3> QED
      BY <1>11, <2>2, <3>2 DEF OnceInv, Apart
  <2> QED
    BY <1>2, <2>1, <2>2
<1>12. ASSUME NEW id \in Ids, placements'[id] = 0
       PROVE  /\ parent'[id] = None /\ suborder'[id] = None
              /\ \A e \in triggers' : e[2] # id
  <2>1. parent[id] = None /\ suborder[id] = None /\ \A e \in triggers : e[2] # id
    BY <1>2, <1>12 DEF OnceInv, Apart
  <2>2. id \notin DueIds
    BY <2>1 DEF DueIds, DueTriggers
  <2>3. parent'[id] = None
    BY <1>2, <2>1, <2>2 DEF Open, Completed, Failed
  <2>4. suborder'[id] = None
    BY <1>6, <1>7, <2>1, <2>2 DEF Open
  <2>5. ASSUME NEW e \in triggers' PROVE e[2] # id
    <3>1. CASE e \in Scheduled(accepted)
      BY <1>8, <2>2, <3>1
    <3>2. CASE e \in triggers
      BY <2>1, <3>2
    <3> QED
      BY <1>2, <3>1, <3>2
  <2> QED
    BY <2>3, <2>4, <2>5
<1>13. Apart'
  BY <1>2, <1>10, <1>11, <1>12 DEF OnceInv, Apart
<1> QED
  BY <1>1, <1>7, <1>13 DEF LedgerInv, LeftCovered, SuborderCovered

LEMMA NextOnce ==
  ASSUME MaxPlacements = 1 PROVE OnceInv /\ [Next]_vars => OnceInv'
<1> SUFFICES ASSUME OnceInv, [Next]_vars PROVE Apart' /\ SuborderCovered'
  BY NextLedger DEF OnceInv
<1>1. CASE Restart \/ UNCHANGED vars
  BY <1>1 DEF Restart, vars, storeVars, historyVars, OnceInv, Apart, SuborderCovered
<1> QED
  BY <1>1, BeginApart, FillApart, LeaveApart, PlaceApart, CancelApart, EndBlockApart
     DEF Next, BeginSomeBlock, EndSomeBlock

-----------------------------------------------------------------------------

\* The inductive invariant: fills and RemainingQuantums add up to the size of
\* the parent, and a suborder has no more left than its parent, ids used again
\* or not.  So RemainingQuantums, a uint64, never wraps.
THEOREM LedgerInvHolds == Spec => []LedgerInv
BY InitLedger, NextLedger, PTL DEF Spec

\* The legs of a TWAP order (calculateSuborderQuantums), each sized anew from
\* what is left, never trade more than the size of the parent.
THEOREM Undertraded == Spec => []NeverOvertraded
<1>1. LedgerInv => NeverOvertraded
  BY DEF LedgerInv, Ledger, NeverOvertraded
<1> QED
  BY <1>1, LedgerInvHolds, PTL

\* When no client id is used twice, a suborder in flight has its parent in the
\* store, so that no match of it is refused (UpdateTWAPOrderRemainingQuantityOnFill).
THEOREM CoveredOnce ==
  ASSUME MaxPlacements = 1
  PROVE  Spec => []SuborderCovered
<1>1. Init => OnceInv
  BY InitLedger, InitApart DEF OnceInv
<1>2. OnceInv /\ [Next]_vars => OnceInv'
  BY NextOnce
<1>3. OnceInv => SuborderCovered
  BY DEF OnceInv
<1> QED
  BY <1>1, <1>2, <1>3, PTL DEF Spec
=============================================================================

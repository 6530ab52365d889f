--------------------------- MODULE CheckTxProofs ----------------------------
(***************************************************************************)
(* What stands between a transaction and a trade, for every number of     *)
(* orders, accounts and price levels: the uncommitted orders are what the  *)
(* mempool holds, the levels and the indexes of the book agree and the     *)
(* search over its ticks finds the next level, no short-term order trades  *)
(* more than its owner signed for, and no time-stamp nonce is accepted     *)
(* twice.  The four share no state: a step of the composition (CheckTx) is *)
(* a step of one of them and leaves the others alone, so that what holds   *)
(* of a part holds of the whole.                                           *)
(***************************************************************************)
EXTENDS CheckTx, FiniteSetTheorems, WellFoundedInduction, TLAPS

(***************************************************************************)
(* Every behaviour of the whole is one of each part.                       *)
(***************************************************************************)

LEMMA PartsUncommitted == PartsSpec => Uncommitted!Spec
<1>1. PartsInit => Uncommitted!Init
  BY DEF PartsInit
<1>2. [PartsNext]_<<part, vars, uncommitted, book, fills>>
        => [Uncommitted!Next]_(Uncommitted!vars)
  <2> SUFFICES ASSUME [PartsNext]_<<part, vars, uncommitted, book, fills>>
               PROVE  Uncommitted!Next \/ UNCHANGED uncommitted
    BY DEF uncommitted, Uncommitted!vars, Uncommitted!transient
  <2> QED
    BY DEF PartsNext
<1> QED
  BY <1>1, <1>2, PTL DEF PartsSpec, Uncommitted!Spec

LEMMA PartsBook == PartsSpec => Book!Spec
<1>1. PartsInit => Book!Init
  BY DEF PartsInit
<1>2. [PartsNext]_<<part, vars, uncommitted, book, fills>>
        => [Book!Next]_(Book!vars)
  <2> SUFFICES ASSUME [PartsNext]_<<part, vars, uncommitted, book, fills>>
               PROVE  Book!Next \/ UNCHANGED book
    BY DEF book, Book!vars, Book!bookVars, Book!cancelVars
  <2> QED
    BY DEF PartsNext
<1> QED
  BY <1>1, <1>2, PTL DEF PartsSpec, Book!Spec

LEMMA PartsFills == PartsSpec => Fills!Spec
<1>1. PartsInit => Fills!Init
  BY DEF PartsInit
<1>2. [PartsNext]_<<part, vars, uncommitted, book, fills>>
        => [Fills!Next]_(Fills!vars)
  <2> SUFFICES ASSUME [PartsNext]_<<part, vars, uncommitted, book, fills>>
               PROVE  Fills!Next \/ UNCHANGED fills
    BY DEF fills, Fills!vars
  <2> QED
    BY DEF PartsNext
<1> QED
  BY <1>1, <1>2, PTL DEF PartsSpec, Fills!Spec

(***************************************************************************)
(* The uncommitted orders.                                                 *)
(***************************************************************************)

\* What is visited again are transactions, and the transient store is finite.
UncommittedTypes ==
  /\ mempool \in Seq(Uncommitted!Tx) /\ toRecheck \in Seq(Uncommitted!Tx)
  /\ IsFiniteSet(DOMAIN placements) /\ IsFiniteSet(cancels)

\* A transaction of the mempool finds what the ones before it left.
Follows(k) ==
  /\ mempool[k].goodTil > time
  /\ mempool[k].type = "place" =>
       /\ mempool[k].id \notin DOMAIN committed
       /\ \A j \in 1 .. k - 1 : mempool[j].id # mempool[k].id
  /\ mempool[k].type # "place" =>
       /\ \A j \in 1 .. k - 1 : mempool[j].id = mempool[k].id => mempool[j].type = "place"
       /\ \/ mempool[k].id \in DOMAIN committed
          \/ \E j \in 1 .. k - 1 : mempool[j].id = mempool[k].id

\* They do from Commit on: only a block changes what they were valid against.
Sequenced == phase # "block" => \A k \in DOMAIN mempool : Follows(k)

UncommittedInv == UncommittedTypes /\ Uncommitted!UncommittedExact

\* The module is an instance; what it counts with is the library's Cardinality.
LEMMA SameCardinality == \A S : Uncommitted!Cardinality(S) = Cardinality(S)
BY DEF Cardinality, Uncommitted!Cardinality

\* What the indexes of a longer mempool select.
LEMMA AdmittedIds ==
  ASSUME mempool \in Seq(Uncommitted!Tx), NEW tx \in Uncommitted!Tx,
         mempool' = Append(mempool, tx)
  PROVE  /\ mempool' \in Seq(Uncommitted!Tx)
         /\ {id \in StatefulIds : Uncommitted!Placing(id) # {}}' =
              {id \in StatefulIds : Uncommitted!Placing(id) # {}}
                \cup (IF tx.type = "place" THEN {tx.id} ELSE {})
         /\ {id \in StatefulIds : Uncommitted!Cancelling(id) # {}}' =
              {id \in StatefulIds : Uncommitted!Cancelling(id) # {}}
                \cup (IF tx.type = "place" THEN {} ELSE {tx.id})
<1> DEFINE n == Len(mempool)
           T == Uncommitted!Tx
<1>1. tx.id \in StatefulIds /\ tx.type \in {"place", "cancel"}
  BY DEF Uncommitted!Tx
<1>2. /\ n \in Nat /\ DOMAIN mempool = 1 .. n /\ DOMAIN mempool' = 1 .. n + 1
      /\ mempool'[n + 1] = tx /\ \A k \in 1 .. n : mempool'[k] = mempool[k]
      /\ mempool' \in Seq(T)
  <2> HIDE DEF T
  <2> QED
    BY DEF T
<1> HIDE DEF n
<1>3. \A id : Uncommitted!Placing(id)' =
        Uncommitted!Placing(id) \cup
          (IF tx.type = "place" /\ tx.id = id THEN {n + 1} ELSE {})
  BY <1>2 DEF Uncommitted!Placing
<1>4. \A id : Uncommitted!Cancelling(id)' =
        Uncommitted!Cancelling(id) \cup
          (IF tx.type = "cancel" /\ tx.id = id THEN {n + 1} ELSE {})
  BY <1>2 DEF Uncommitted!Cancelling
<1>5. {id \in StatefulIds : Uncommitted!Placing(id) # {}}' =
              {id \in StatefulIds : Uncommitted!Placing(id) # {}}
                \cup (IF tx.type = "place" THEN {tx.id} ELSE {})
  BY <1>1, <1>3
<1>6. {id \in StatefulIds : Uncommitted!Cancelling(id) # {}}' =
              {id \in StatefulIds : Uncommitted!Cancelling(id) # {}}
                \cup (IF tx.type = "place" THEN {} ELSE {tx.id})
  BY <1>1, <1>4
<1> QED
  BY <1>2, <1>5, <1>6

\* A valid transaction enters the mempool and the transient store together.
LEMMA Admitted ==
  ASSUME UncommittedInv, NEW tx \in Uncommitted!Tx,
         Uncommitted!Valid(tx, placements, cancels), Uncommitted!AddUncommitted(tx),
         mempool' = Append(mempool, tx)
  PROVE  /\ mempool' \in Seq(Uncommitted!Tx)
         /\ IsFiniteSet(DOMAIN placements') /\ IsFiniteSet(cancels')
         /\ Uncommitted!UncommittedExact'
<1>1. /\ mempool \in Seq(Uncommitted!Tx) /\ IsFiniteSet(DOMAIN placements)
      /\ IsFiniteSet(cancels)
  BY DEF UncommittedInv, UncommittedTypes
<1>2. /\ DOMAIN placements = {id \in StatefulIds : Uncommitted!Placing(id) # {}}
      /\ cancels = {id \in StatefulIds : Uncommitted!Cancelling(id) # {}}
      /\ count = Cardinality(DOMAIN placements) - Cardinality(cancels)
  BY SameCardinality DEF UncommittedInv, Uncommitted!UncommittedExact
<1>3. Cardinality(DOMAIN placements) \in Nat /\ Cardinality(cancels) \in Nat
  BY <1>1, FS_CardinalityType
<1>4. CASE tx.type = "place"
  <2>1. /\ DOMAIN placements' = DOMAIN placements \cup {tx.id}
        /\ count' = count + 1 /\ cancels' = cancels
    BY <1>4 DEF Uncommitted!AddUncommitted, Uncommitted!With
  <2>2. tx.id \notin DOMAIN placements
    BY <1>4 DEF Uncommitted!Valid, Uncommitted!ValidPlacement
  <2>3. /\ IsFiniteSet(DOMAIN placements')
        /\ Cardinality(DOMAIN placements') = Cardinality(DOMAIN placements) + 1
    BY <1>1, <2>1, <2>2, FS_AddElement
  <2>4. count' = Cardinality(DOMAIN placements') - Cardinality(cancels')
    BY <1>2, <1>3, <2>1, <2>3
  <2> QED
    BY <1>1, <1>2, <1>4, <2>1, <2>3, <2>4, AdmittedIds, SameCardinality
       DEF Uncommitted!UncommittedExact
<1>5. CASE tx.type # "place"
  <2>1. /\ placements' = placements
        /\ count' = count - 1 /\ cancels' = cancels \cup {tx.id}
    BY <1>5 DEF Uncommitted!AddUncommitted
  <2>2. tx.id \notin cancels
    BY <1>5 DEF Uncommitted!Valid, Uncommitted!ValidCancellation
  <2>3. IsFiniteSet(cancels') /\ Cardinality(cancels') = Cardinality(cancels) + 1
    BY <1>1, <2>1, <2>2, FS_AddElement
  <2>4. count' = Cardinality(DOMAIN placements') - Cardinality(cancels')
    BY <1>2, <1>3, <2>1, <2>3
  <2> QED
    BY <1>1, <1>2, <1>5, <2>1, <2>3, <2>4, AdmittedIds, SameCardinality
       DEF Uncommitted!UncommittedExact
<1> QED
  BY <1>4, <1>5

\* An empty mempool and an empty transient store agree.
LEMMA EmptyAgrees ==
  ASSUME mempool = <<>>, placements = Uncommitted!NoOrders, cancels = {}, count = 0
  PROVE  /\ Uncommitted!UncommittedExact /\ mempool \in Seq(Uncommitted!Tx)
         /\ IsFiniteSet(DOMAIN placements) /\ IsFiniteSet(cancels)
<1>1. DOMAIN placements = {}
  BY DEF Uncommitted!NoOrders
<1>2. \A id : Uncommitted!Placing(id) = {} /\ Uncommitted!Cancelling(id) = {}
  BY DEF Uncommitted!Placing, Uncommitted!Cancelling
<1>3. IsFiniteSet({}) /\ Cardinality({}) = 0
  BY FS_EmptySet
<1> QED
  BY <1>1, <1>2, <1>3, SameCardinality DEF Uncommitted!UncommittedExact

\* A node starts with an empty mempool.
LEMMA UncommittedInit == Uncommitted!Init => UncommittedInv
BY EmptyAgrees DEF Uncommitted!Init, UncommittedInv, UncommittedTypes

\* Every step changes the mempool and the transient store together.
LEMMA UncommittedStep ==
  UncommittedInv /\ [Uncommitted!Next]_(Uncommitted!vars) => UncommittedInv'
<1> SUFFICES ASSUME UncommittedInv, [Uncommitted!Next]_(Uncommitted!vars)
             PROVE  UncommittedInv'
  OBVIOUS
<1>1. ASSUME UNCHANGED <<mempool, placements, cancels, count>>,
             toRecheck' \in Seq(Uncommitted!Tx)
      PROVE  UncommittedInv'
  BY <1>1 DEF UncommittedInv, UncommittedTypes, Uncommitted!UncommittedExact,
              Uncommitted!Placing, Uncommitted!Cancelling
<1>2. mempool \in Seq(Uncommitted!Tx) /\ toRecheck \in Seq(Uncommitted!Tx)
  BY DEF UncommittedInv, UncommittedTypes
<1>3. ASSUME mempool' = <<>>, Uncommitted!ResetTransient, toRecheck' \in Seq(Uncommitted!Tx)
      PROVE  UncommittedInv'
  <2>1. /\ Uncommitted!UncommittedExact' /\ mempool' \in Seq(Uncommitted!Tx)
        /\ IsFiniteSet(DOMAIN placements') /\ IsFiniteSet(cancels')
    <3>1. mempool' = <<>> /\ placements' = Uncommitted!NoOrders /\ cancels' = {} /\ count' = 0
      BY <1>3 DEF Uncommitted!ResetTransient
    <3>2. DOMAIN placements' = {}
      BY <3>1 DEF Uncommitted!NoOrders
    <3>3. \A id : Uncommitted!Placing(id)' = {} /\ Uncommitted!Cancelling(id)' = {}
      BY <3>1 DEF Uncommitted!Placing, Uncommitted!Cancelling
    <3>4. IsFiniteSet({}) /\ Cardinality({}) = 0
      BY FS_EmptySet
    <3> QED
      BY <3>1, <3>2, <3>3, <3>4, SameCardinality DEF Uncommitted!UncommittedExact
  <2> QED
    BY <1>3, <2>1 DEF UncommittedInv, UncommittedTypes
<1>4. ASSUME NEW tx \in Uncommitted!Tx, Uncommitted!CheckTx(tx) PROVE UncommittedInv'
  BY <1>2, <1>4, Admitted DEF Uncommitted!CheckTx, UncommittedInv, UncommittedTypes
<1>5. ASSUME NEW tx \in Uncommitted!Tx, Uncommitted!DeliverTx(tx) PROVE UncommittedInv'
  BY <1>1, <1>2, <1>5 DEF Uncommitted!DeliverTx, Uncommitted!transient
<1>6. ASSUME NEW id \in StatefulIds, Uncommitted!Fill(id) PROVE UncommittedInv'
  BY <1>1, <1>2, <1>6 DEF Uncommitted!Fill, Uncommitted!transient
<1>7. CASE Uncommitted!Commit
  BY <1>2, <1>3, <1>7 DEF Uncommitted!Commit
<1>8. CASE Uncommitted!ReCheckTx
  <2> DEFINE T == Uncommitted!Tx
             tx == Head(toRecheck)
  <2>1. tx \in T /\ toRecheck' \in Seq(T)
    <3>1. toRecheck \in Seq(T) /\ toRecheck # <<>> /\ toRecheck' = Tail(toRecheck)
      BY <1>2, <1>8 DEF Uncommitted!ReCheckTx
    <3> HIDE DEF T
    <3> QED
      BY <3>1
  <2>2. CASE ~Uncommitted!InBlock(tx) /\ Uncommitted!Valid(tx, placements, cancels)
    <3>1. mempool' = Append(mempool, tx) /\ Uncommitted!AddUncommitted(tx)
      BY <1>8, <2>2 DEF Uncommitted!ReCheckTx
    <3> HIDE DEF tx
    <3> QED
      BY <2>1, <2>2, <3>1, Admitted DEF UncommittedInv, UncommittedTypes
  <2>3. CASE ~(~Uncommitted!InBlock(tx) /\ Uncommitted!Valid(tx, placements, cancels))
    BY <1>1, <1>8, <2>1, <2>3 DEF Uncommitted!ReCheckTx, Uncommitted!transient
  <2> QED
    BY <2>2, <2>3
<1>9. CASE Uncommitted!RecheckDone
  BY <1>1, <1>2, <1>9 DEF Uncommitted!RecheckDone, Uncommitted!transient
<1>10. CASE Uncommitted!Restart
  BY <1>2, <1>3, <1>10 DEF Uncommitted!Restart
<1>11. CASE UNCHANGED Uncommitted!vars
  BY <1>1, <1>2, <1>11 DEF Uncommitted!vars, Uncommitted!transient
<1> QED
  BY <1>4, <1>5, <1>6, <1>7, <1>8, <1>9, <1>10, <1>11 DEF Uncommitted!Next

\* The transient store is what the mempool holds, for any orders, limit and
\* blocks: across the blocks of any proposer, rechecks and restarts.
THEOREM StoreIsMempool == PartsSpec => []UncommittedExact
<1>1. UncommittedInv => UncommittedExact
  BY DEF UncommittedInv, UncommittedExact
<1> QED
  BY <1>1, UncommittedInit, UncommittedStep, PartsUncommitted, PTL DEF Uncommitted!Spec

\* A valid transaction follows on the ones in the mempool.
LEMMA AdmittedInOrder ==
  ASSUME UncommittedInv, Sequenced, phase # "block", NEW tx \in Uncommitted!Tx,
         Uncommitted!Valid(tx, placements, cancels), mempool' = Append(mempool, tx),
         UNCHANGED <<time, committed>>
  PROVE  Sequenced'
<1> DEFINE T == Uncommitted!Tx
<1>1. PICK n : n = Len(mempool)
  OBVIOUS
<1>2. /\ n \in Nat /\ DOMAIN mempool = 1 .. n /\ DOMAIN mempool' = 1 .. n + 1
      /\ mempool'[n + 1] = tx /\ \A k \in 1 .. n : mempool'[k] = mempool[k]
      /\ \A k \in 1 .. n : mempool[k] \in T
  <2>1. mempool \in Seq(T)
    BY DEF UncommittedInv, UncommittedTypes
  <2> HIDE DEF T
  <2> QED
    BY <1>1, <2>1
<1>3. /\ \A k \in 1 .. n : mempool[k].id \in StatefulIds /\ mempool[k].type \in {"place", "cancel"}
      /\ tx.type \in {"place", "cancel"} /\ tx.id \in StatefulIds
  BY <1>2 DEF Uncommitted!Tx
<1> HIDE DEF T
<1>4. /\ DOMAIN placements =
           {id \in StatefulIds : \E k \in 1 .. n : mempool[k].type = "place" /\ mempool[k].id = id}
      /\ cancels =
           {id \in StatefulIds : \E k \in 1 .. n : mempool[k].type = "cancel" /\ mempool[k].id = id}
  BY <1>2 DEF UncommittedInv, Uncommitted!UncommittedExact, Uncommitted!Placing,
              Uncommitted!Cancelling
<1>5. ASSUME NEW k \in 1 .. n PROVE Follows(k)'
  <2>1. Follows(k)
    BY <1>2 DEF Sequenced
  <2>2. mempool'[k] = mempool[k] /\ \A j \in 1 .. k - 1 : mempool'[j] = mempool[j]
    BY <1>2
  <2> QED
    BY <2>1, <2>2 DEF Follows
<1>6. /\ tx.goodTil > time
      /\ tx.type = "place" =>
           /\ tx.id \notin DOMAIN committed
           /\ \A j \in 1 .. n : mempool[j].id # tx.id
      /\ tx.type # "place" =>
           /\ \A j \in 1 .. n : mempool[j].id = tx.id => mempool[j].type = "place"
           /\ tx.id \in DOMAIN committed \/ \E j \in 1 .. n : mempool[j].id = tx.id
  <2>1. CASE tx.type = "place"
    <3>1. /\ tx.goodTil > time /\ tx.id \notin DOMAIN committed
          /\ tx.id \notin DOMAIN placements /\ tx.id \notin cancels
      BY <2>1 DEF Uncommitted!Valid, Uncommitted!ValidPlacement
    <3> QED
      BY <1>3, <1>4, <2>1, <3>1
  <2>2. CASE tx.type # "place"
    <3>1. /\ tx.goodTil > time /\ tx.id \notin cancels
          /\ tx.id \in DOMAIN committed \cup DOMAIN placements
      BY <2>2 DEF Uncommitted!Valid, Uncommitted!ValidCancellation
    <3> QED
      BY <1>3, <1>4, <2>2, <3>1
  <2> QED
    BY <2>1, <2>2
<1>7. Follows(n + 1)'
  <2>1. 1 .. (n + 1) - 1 = 1 .. n
    BY <1>2
  <2> QED
    BY <1>2, <1>6, <2>1 DEF Follows
<1>8. \A k \in DOMAIN mempool' : k \in 1 .. n \/ k = n + 1
  BY <1>2
<1> QED
  BY <1>5, <1>7, <1>8 DEF Sequenced

\* Every step leaves a mempool that can be delivered in order.
LEMMA SequencedStep ==
  UncommittedInv /\ Sequenced /\ [Uncommitted!Next]_(Uncommitted!vars) => Sequenced'
<1> SUFFICES ASSUME UncommittedInv, Sequenced, [Uncommitted!Next]_(Uncommitted!vars)
             PROVE  Sequenced'
  OBVIOUS
<1>1. ASSUME UNCHANGED <<mempool, time, committed>>, phase # "block" PROVE Sequenced'
  BY <1>1 DEF Sequenced, Follows
<1>2. ASSUME mempool' = <<>> PROVE Sequenced'
  BY <1>2 DEF Sequenced
<1>3. ASSUME phase' = "block" PROVE Sequenced'
  BY <1>3 DEF Sequenced
<1>4. ASSUME NEW tx \in Uncommitted!Tx, Uncommitted!CheckTx(tx) PROVE Sequenced'
  BY <1>4, AdmittedInOrder DEF Uncommitted!CheckTx
<1>5. ASSUME NEW tx \in Uncommitted!Tx, Uncommitted!DeliverTx(tx) PROVE Sequenced'
  BY <1>3, <1>5 DEF Uncommitted!DeliverTx
<1>6. ASSUME NEW id \in StatefulIds, Uncommitted!Fill(id) PROVE Sequenced'
  BY <1>3, <1>6 DEF Uncommitted!Fill
<1>7. CASE Uncommitted!Commit
  BY <1>2, <1>7 DEF Uncommitted!Commit
<1>8. CASE Uncommitted!ReCheckTx
  <2> DEFINE T == Uncommitted!Tx
             tx == Head(toRecheck)
  <2>1. tx \in T
    <3>1. toRecheck \in Seq(T) /\ toRecheck # <<>>
      BY <1>8 DEF Uncommitted!ReCheckTx, UncommittedInv, UncommittedTypes
    <3> HIDE DEF T
    <3> QED
      BY <3>1
  <2>2. phase # "block" /\ UNCHANGED <<time, committed>>
    BY <1>8 DEF Uncommitted!ReCheckTx
  <2>3. CASE ~Uncommitted!InBlock(tx) /\ Uncommitted!Valid(tx, placements, cancels)
    <3>1. mempool' = Append(mempool, tx)
      BY <1>8, <2>3 DEF Uncommitted!ReCheckTx
    <3> HIDE DEF tx
    <3> QED
      BY <2>1, <2>2, <2>3, <3>1, AdmittedInOrder
  <2>4. CASE ~(~Uncommitted!InBlock(tx) /\ Uncommitted!Valid(tx, placements, cancels))
    BY <1>1, <1>8, <2>2, <2>4 DEF Uncommitted!ReCheckTx
  <2> QED
    BY <2>3, <2>4
<1>9. CASE Uncommitted!RecheckDone
  BY <1>1, <1>9 DEF Uncommitted!RecheckDone
<1>10. CASE Uncommitted!Restart
  BY <1>2, <1>10 DEF Uncommitted!Restart
<1>11. CASE UNCHANGED Uncommitted!vars
  BY <1>11 DEF Uncommitted!vars, Sequenced, Follows
<1> QED
  BY <1>4, <1>5, <1>6, <1>7, <1>8, <1>9, <1>10, <1>11 DEF Uncommitted!Next

\* What CheckTx and ReCheckTx admitted can be delivered in the order of the
\* mempool: a transaction finds the order it cancels, and none under the id it
\* places.
THEOREM MempoolDeliverable == PartsSpec => []DeliverableInOrder
<1>1. UncommittedInv /\ Sequenced => Uncommitted!DeliverableInOrder
  <2> SUFFICES ASSUME UncommittedInv, Sequenced, phase = "check", NEW k \in DOMAIN mempool
               PROVE  /\ mempool[k].goodTil > time
                      /\ \A id \in {mempool[k].id} :
                           LET earlierPlaced == \E j \in Uncommitted!Placing(id) : j < k
                               earlierCancelled == \E j \in Uncommitted!Cancelling(id) : j < k
                               there == (id \in DOMAIN committed \/ earlierPlaced)
                                          /\ ~earlierCancelled
                           IN  IF mempool[k].type = "place" THEN ~there ELSE there
    BY DEF Uncommitted!DeliverableInOrder
  <2> DEFINE n == Len(mempool)
             T == Uncommitted!Tx
             id == mempool[k].id
  <2>1. n \in Nat /\ DOMAIN mempool = 1 .. n
    <3>1. mempool \in Seq(T)
      BY DEF UncommittedInv, UncommittedTypes
    <3> HIDE DEF T
    <3> QED
      BY <3>1
  <2> HIDE DEF n
  <2>2. /\ k \in 1 .. n /\ \A j \in 1 .. n : j < k <=> j \in 1 .. k - 1
        /\ \A j \in 1 .. k - 1 : j \in 1 .. n
    BY <2>1
  <2>3. /\ \A j : j \in Uncommitted!Placing(id) /\ j < k <=>
               j \in 1 .. k - 1 /\ mempool[j].type = "place" /\ mempool[j].id = id
        /\ \A j : j \in Uncommitted!Cancelling(id) /\ j < k <=>
               j \in 1 .. k - 1 /\ mempool[j].type = "cancel" /\ mempool[j].id = id
    BY <2>1, <2>2 DEF Uncommitted!Placing, Uncommitted!Cancelling
  <2>4. mempool[k].goodTil > time
    BY DEF Sequenced, Follows
  <2>5. CASE mempool[k].type = "place"
    <3>1. id \notin DOMAIN committed /\ \A j \in 1 .. k - 1 : mempool[j].id # id
      BY <2>5 DEF Sequenced, Follows
    <3>2. ~\E j \in Uncommitted!Placing(id) : j < k
      BY <2>3, <3>1
    <3> QED
      BY <2>4, <2>5, <3>1, <3>2
  <2>6. CASE mempool[k].type # "place"
    <3>1. /\ \A j \in 1 .. k - 1 : mempool[j].id = id => mempool[j].type = "place"
          /\ id \in DOMAIN committed \/ \E j \in 1 .. k - 1 : mempool[j].id = id
      BY <2>6 DEF Sequenced, Follows
    <3>2. ~\E j \in Uncommitted!Cancelling(id) : j < k
      BY <2>3, <3>1
    <3>3. id \in DOMAIN committed \/ \E j \in Uncommitted!Placing(id) : j < k
      BY <2>3, <3>1
    <3> QED
      BY <2>4, <2>6, <3>2, <3>3
  <2> QED
    BY <2>5, <2>6
<1>2. Uncommitted!Init => Sequenced
  BY DEF Uncommitted!Init, Sequenced
<1> QED
  <2>1. Uncommitted!DeliverableInOrder => DeliverableInOrder
    BY DEF DeliverableInOrder
  <2> QED
    BY <1>1, <1>2, <2>1, UncommittedInit, UncommittedStep, SequencedStep, PartsUncommitted,
       PTL DEF Uncommitted!Spec

(***************************************************************************)
(* The search for the next price level.                                    *)
(***************************************************************************)

\* What the module counts with is the library's Cardinality.
LEMMA BookCardinality == \A S : Book!Cardinality(S) = Cardinality(S)
BY DEF Cardinality, Book!Cardinality

\* A nonempty set of naturals has a least element.
LEMMA LeastNat ==
  ASSUME NEW S \in SUBSET Nat, S # {}
  PROVE  \E n \in S : \A m \in S : n <= m
<1> DEFINE R == OpToRel(<, Nat)
<1>1. IsWellFoundedOn(R, Nat)
  BY NatLessThanWellFounded
<1>2. R = {ss \in Nat \X Nat : ss[1] < ss[2]}
  BY DEF OpToRel
<1> HIDE DEF R
<1>3. \E x \in S : \A y \in S : ~(<<y, x>> \in R)
  BY <1>1, WFMin
<1>4. \A x, y \in S : y < x => <<y, x>> \in R
  BY <1>2
<1>5. PICK n \in S : \A m \in S : ~(m < n)
  BY <1>3, <1>4
<1>6. \A m \in S : n <= m
  BY <1>5
<1> QED
  BY <1>6

\* The prices on a tick.
TickPrices == {p \in 1 .. Book!MaxSubticks : p % tick = 0}

\* The number of ticks of a price, and of the largest one.
TicksOf(p) == p \div tick
Ticks == TicksOf(Book!MaxSubticks)

\* There is a largest price.
LEMMA MaxSubticksType ==
  ASSUME Book!WellFormed
  PROVE  /\ 2 ^ Width \in Nat \ {0} /\ Book!MaxSubticks = 2 ^ Width - 1
         /\ Book!MaxSubticks \in Nat
<1>1. Width \in Nat
  BY DEF Book!WellFormed
<1>2. 2 ^ Width \in Nat \ {0}
  <2>1. IsFiniteSet(1 .. Width) /\ Cardinality(1 .. Width) = Width
    BY <1>1, FS_Interval
  <2>2. IsFiniteSet(SUBSET (1 .. Width)) /\ Cardinality(SUBSET (1 .. Width)) = 2 ^ Width
    BY <2>1, FS_SUBSET
  <2>3. SUBSET (1 .. Width) # {}
    OBVIOUS
  <2> QED
    BY <2>2, <2>3, FS_CardinalityType, FS_EmptySet
<1> QED
  BY <1>1, <1>2 DEF Book!MaxSubticks

\* Prices are positive, and not above the largest.
LEMMA PriceRange ==
  ASSUME Book!WellFormed, NEW p \in Prices
  PROVE  p \in Nat /\ p >= 1 /\ p <= Book!MaxSubticks
<1>1. Book!MaxSubticks \in Nat
  BY MaxSubticksType
<1>2. p \in 1 .. Book!MaxSubticks
  BY DEF Book!WellFormed
<1> QED
  BY <1>1, <1>2

\* A price on a tick is a positive number of ticks, not above the largest.
LEMMA PriceInTicks ==
  ASSUME Book!WellFormed, tick \in Nat \ {0}, NEW p \in TickPrices
  PROVE  /\ p \in Nat /\ p >= 1 /\ p <= Book!MaxSubticks
         /\ TicksOf(p) \in 1 .. Ticks /\ p = TicksOf(p) * tick
         /\ Ticks \in Nat /\ Ticks * tick <= Book!MaxSubticks
<1> DEFINE d == tick
           m == Book!MaxSubticks
<1>1. d \in Nat \ {0} /\ m \in Nat
  BY MaxSubticksType
<1>2. p \in 1 .. m /\ p % d = 0
  BY DEF TickPrices
<1> HIDE DEF d, m
<1>3. \A x \in Nat : x \div d \in Nat /\ (x \div d) * d <= x /\ x = (x \div d) * d + (x % d)
  BY <1>1
<1>4. p \in Nat /\ p = (p \div d) * d /\ p \div d \in Nat /\ m \div d \in Nat
  BY <1>1, <1>2, <1>3
<1>5. p \div d >= 1
  <2>1. p \div d # 0
    BY <1>1, <1>2, <1>4
  <2> QED
    BY <1>4, <2>1
<1>6. p \div d <= m \div d
  <2>1. \A x, y \in Nat : x <= y => x \div d <= y \div d
    BY <1>1
  <2> QED
    BY <1>1, <1>2, <1>4, <2>1
<1> QED
  BY <1>1, <1>2, <1>3, <1>4, <1>5, <1>6 DEF TicksOf, Ticks, d, m

\* Multiples of the tick compare as their numbers of ticks do.
LEMMA TicksCompare ==
  ASSUME tick \in Nat \ {0}, NEW a \in Int, NEW b \in Int
  PROVE  /\ a * tick \in Int
         /\ a < b <=> a * tick < b * tick
         /\ a = b <=> a * tick = b * tick
OBVIOUS

\* The i-th price of the scan, as long as it has not wrapped around.
Unwrapped(start, isBuy, i) ==
  IF isBuy THEN start - i * tick ELSE start + i * tick

\* uint64 arithmetic is exact as long as the result is in range.
LEMMA StepUnwrapped ==
  ASSUME Book!WellFormed, NEW start \in Int, NEW isBuy \in BOOLEAN, NEW i \in Int,
         Unwrapped(start, isBuy, i) \in 0 .. Book!MaxSubticks
  PROVE  Book!Step(start, isBuy, i) = Unwrapped(start, isBuy, i)
<1> DEFINE u == Unwrapped(start, isBuy, i)
           w == 2 ^ Width
<1>1. w \in Nat \ {0} /\ Book!MaxSubticks = w - 1
  BY MaxSubticksType
<1>2. Book!Step(start, isBuy, i) = u % w
  BY DEF Book!Step, Unwrapped
<1> HIDE DEF u, w
<1>3. u \in 0 .. w - 1
  BY <1>1 DEF u
<1>4. u % w = u
  BY <1>1, <1>3
<1> QED
  BY <1>2, <1>4 DEF u

\* The scan moves away from its start by a tick at a time ...
LEMMA ScanMovesAway ==
  ASSUME tick \in Nat \ {0}, NEW start \in Int, NEW isBuy \in BOOLEAN,
         NEW i \in Nat, NEW j \in Nat
  PROVE  /\ Unwrapped(start, isBuy, i) \in Int
         /\ i < j <=> Book!Better(isBuy, Unwrapped(start, isBuy, i), Unwrapped(start, isBuy, j))
         /\ i >= 1 => Book!Better(isBuy, start, Unwrapped(start, isBuy, i))
<1> DEFINE x == i * tick
           y == j * tick
<1>1. x \in Int /\ y \in Int /\ (i < j <=> x < y) /\ (i >= 1 => x > 0)
  <2>2. i >= 1 => x > 0
    OBVIOUS
  <2> QED
    BY <2>2, TicksCompare
<1> HIDE DEF x, y
<1>2. CASE isBuy
  <2>1. Unwrapped(start, isBuy, i) = start - x /\ Unwrapped(start, isBuy, j) = start - y
    BY <1>2 DEF Unwrapped, x, y
  <2>2. /\ start - x \in Int /\ x < y <=> start - x > start - y
        /\ x > 0 => start > start - x
    BY <1>1
  <2>3. \A p, q : Book!Better(isBuy, p, q) <=> p > q
    BY <1>2 DEF Book!Better
  <2> QED
    BY <1>1, <2>1, <2>2, <2>3
<1>3. CASE ~isBuy
  <2>1. Unwrapped(start, isBuy, i) = start + x /\ Unwrapped(start, isBuy, j) = start + y
    BY <1>3 DEF Unwrapped, x, y
  <2> QED
    BY <1>1, <1>3, <2>1 DEF Book!Better
<1> QED
  BY <1>2, <1>3

\* ... and comes by every worse price.
LEMMA ScanComesBy ==
  ASSUME Book!WellFormed, tick \in Nat \ {0}, NEW start \in TickPrices, NEW isBuy \in BOOLEAN,
         NEW q \in TickPrices, Book!Better(isBuy, start, q)
  PROVE  \E j \in Nat \ {0} : Unwrapped(start, isBuy, j) = q
<1> DEFINE a == TicksOf(start)
           b == TicksOf(q)
           d == tick
<1>1. /\ a \in Nat /\ b \in Nat /\ d \in Nat \ {0}
      /\ start = a * d /\ q = b * d
  BY PriceInTicks, MaxSubticksType
<1> HIDE DEF a, b, d
<1>2. CASE isBuy
  <2>1. q < start
    BY <1>2, PriceInTicks DEF Book!Better
  <2>2. b < a
    BY <1>1, <2>1, TicksCompare DEF d
  <2>3. a - b \in Nat \ {0} /\ (a - b) * d = a * d - b * d
    BY <1>1, <2>2
  <2>4. Unwrapped(start, isBuy, a - b) = start - (a - b) * d
    BY <1>2 DEF Unwrapped, d
  <2>5. a * d \in Int /\ b * d \in Int
    BY <1>1
  <2> QED
    BY <1>1, <2>3, <2>4, <2>5
<1>3. CASE ~isBuy
  <2>1. start < q
    BY <1>3, PriceInTicks DEF Book!Better
  <2>2. a < b
    BY <1>1, <2>1, TicksCompare DEF d
  <2>3. b - a \in Nat \ {0} /\ (b - a) * d = b * d - a * d
    BY <1>1, <2>2
  <2>4. Unwrapped(start, isBuy, b - a) = start + (b - a) * d
    BY <1>3 DEF Unwrapped, d
  <2>5. a * d \in Int /\ b * d \in Int
    BY <1>1
  <2> QED
    BY <1>1, <2>3, <2>4, <2>5
<1> QED
  BY <1>2, <1>3

\* There is a best price among any.
LEMMA BestAmong ==
  ASSUME Book!WellFormed, NEW isBuy \in BOOLEAN, NEW S \in SUBSET Prices, S # {}
  PROVE  \E p \in S : \A q \in S : p = q \/ Book!Better(isBuy, p, q)
<1>1. /\ S \subseteq Nat /\ Book!MaxSubticks \in Nat
      /\ \A p \in S : p <= Book!MaxSubticks
  BY PriceRange, MaxSubticksType
<1>2. CASE isBuy
  <2> DEFINE D == {Book!MaxSubticks - p : p \in S}
  <2>1. D \subseteq Nat
    <3> SUFFICES ASSUME NEW p \in S PROVE Book!MaxSubticks - p \in Nat
      OBVIOUS
    <3>1. p \in Nat /\ Book!MaxSubticks \in Nat /\ p <= Book!MaxSubticks
      BY <1>1
    <3> QED
      BY <3>1
  <2>2. PICK n \in D : \A m \in D : n <= m
    <3>1. D # {}
      OBVIOUS
    <3> QED
      BY <2>1, <3>1, LeastNat
  <2>3. PICK p \in S : n = Book!MaxSubticks - p
    OBVIOUS
  <2>4. \A q \in S : n <= Book!MaxSubticks - q
    BY <2>2
  <2>5. \A q \in S : p = q \/ p > q
    <3> SUFFICES ASSUME NEW q \in S PROVE p = q \/ p > q
      OBVIOUS
    <3>1. p \in Nat /\ q \in Nat /\ Book!MaxSubticks \in Nat
      BY <1>1
    <3>2. Book!MaxSubticks - p <= Book!MaxSubticks - q
      BY <2>3, <2>4
    <3> QED
      BY <3>1, <3>2
  <2> QED
    BY <1>2, <2>5 DEF Book!Better
<1>3. CASE ~isBuy
  <2>1. PICK p \in S : \A q \in S : p <= q
    BY <1>1, LeastNat
  <2>2. \A q \in S : p = q \/ p < q
    BY <1>1, <2>1
  <2> QED
    BY <1>3, <2>2 DEF Book!Better
<1> QED
  BY <1>2, <1>3

\* There are finitely many levels.
LEMMA PopulatedFinite ==
  ASSUME Book!WellFormed, NEW side
  PROVE  /\ Book!Populated(side) \subseteq Prices
         /\ IsFiniteSet(Book!Populated(side)) /\ Cardinality(Book!Populated(side)) \in Nat
<1>1. Book!Populated(side) \subseteq Prices
  BY DEF Book!Populated
<1>2. Prices \subseteq 1 .. Book!MaxSubticks /\ Book!MaxSubticks \in Nat
  BY MaxSubticksType DEF Book!WellFormed
<1>3. IsFiniteSet(1 .. Book!MaxSubticks)
  BY <1>2, FS_Interval
<1>4. IsFiniteSet(Book!Populated(side))
  BY <1>1, <1>2, <1>3, FS_Subset
<1> QED
  BY <1>1, <1>4, FS_CardinalityType

\* The search finds the best of the worse levels, when no price that the scan
\* comes by has wrapped around.
LEMMA FindsNext ==
  ASSUME Book!WellFormed, tick \in Nat \ {0}, NEW side, Book!Populated(side) \subseteq TickPrices,
         NEW start \in TickPrices, NEW isBuy \in BOOLEAN,
         \A i \in Book!Scanned(side, start, isBuy) :
           Book!Step(start, isBuy, i) = Unwrapped(start, isBuy, i),
         NEW next, next = Book!FindNextBestSubticks(side, start, isBuy),
         NEW worse, worse = Book!Worse(side, start, isBuy)
  PROVE  /\ IF worse = {} THEN next.subticks = Book!NoSubticks(isBuy)
            ELSE /\ next.subticks \in worse
                 /\ \A q \in worse : ~Book!Better(isBuy, q, next.subticks)
         /\ next.found => worse # {}
         /\ worse \ {Book!NoSubticks(isBuy)} # {} => next.found
<1> DEFINE pop == Book!Populated(side)
           scan == Book!Scanned(side, start, isBuy)
           rest == Book!Remaining(side, start, isBuy)
<1>0. worse = {q \in pop : Book!Better(isBuy, start, q)}
  BY DEF Book!Worse
<1>1. pop \subseteq TickPrices /\ pop \subseteq Prices /\ Cardinality(pop) \in Nat
  BY PopulatedFinite
<1>10. PICK s : s = next.subticks
  OBVIOUS
<1>2. scan = {i \in 1 .. Cardinality(pop) : Book!Step(start, isBuy, i) \in pop}
  BY BookCardinality DEF Book!Scanned
<1>3. \A p \in TickPrices : p \in Nat /\ p \in 0 .. Book!MaxSubticks
  BY PriceInTicks
<1>4. start \in Nat
  BY <1>3
<1>5. CASE scan # {}
  <2> DEFINE first == CHOOSE i \in scan : \A j \in scan : i <= j
  <2>1. scan \subseteq Nat
    BY <1>1, <1>2
  <2>2. first \in scan /\ \A j \in scan : first <= j
    BY <1>5, <2>1, LeastNat
  <2>3. s = Book!Step(start, isBuy, first) /\ next.found
    BY <1>5, <1>10 DEF Book!FindNextBestSubticks
  <2> HIDE DEF first
  <2>4. /\ first \in Nat /\ first >= 1 /\ first <= Cardinality(pop)
        /\ s = Unwrapped(start, isBuy, first) /\ s \in pop
    BY <1>1, <1>2, <2>2, <2>3
  <2>5. s \in worse
    BY <1>0, <1>4, <2>4, ScanMovesAway
  <2>6. ASSUME NEW q \in worse, Book!Better(isBuy, q, s) PROVE FALSE
    <3>1. q \in pop /\ q \in TickPrices /\ Book!Better(isBuy, start, q)
      BY <1>0, <1>1
    <3>2. PICK j \in Nat \ {0} : Unwrapped(start, isBuy, j) = q
      BY <3>1, ScanComesBy
    <3>3. j < first
      BY <1>4, <2>4, <2>6, <3>2, ScanMovesAway
    <3>4. Book!Step(start, isBuy, j) = q
      BY <1>3, <1>4, <3>1, <3>2, StepUnwrapped
    <3>5. j \in scan
      BY <1>1, <1>2, <2>4, <3>1, <3>2, <3>3, <3>4
    <3> QED
      BY <2>2, <2>4, <3>2, <3>3, <3>5
  <2> QED
    BY <1>10, <2>3, <2>5, <2>6
<1>6. rest \subseteq worse /\ worse \subseteq Prices /\ rest \subseteq Prices
  BY <1>0, <1>1 DEF Book!Remaining
<1>7. \A q \in worse : q \in rest \/ q = Book!NoSubticks(isBuy)
  <2> SUFFICES ASSUME NEW q \in worse
               PROVE  q \in rest \/ q = Book!NoSubticks(isBuy)
    OBVIOUS
  <2>1. q \in Nat /\ q >= 1 /\ q <= Book!MaxSubticks /\ Book!MaxSubticks \in Nat
    BY <1>6, PriceRange, MaxSubticksType
  <2>2. Book!Better(isBuy, q, Book!NoSubticks(isBuy)) \/ q = Book!NoSubticks(isBuy)
    BY <2>1 DEF Book!Better, Book!NoSubticks
  <2> QED
    BY <1>0, <2>2 DEF Book!Remaining
<1>8. CASE scan = {} /\ rest # {}
  <2> DEFINE B(p) == \A q \in rest : p = q \/ Book!Better(isBuy, p, q)
  <2>1. s = (CHOOSE p \in rest : B(p)) /\ next.found
    BY <1>8, <1>10 DEF Book!FindNextBestSubticks, Book!BestOf
  <2>2. \E p \in rest : B(p)
    BY <1>6, <1>8, BestAmong
  <2>3. s \in rest /\ B(s)
    BY <2>1, <2>2
  <2>4. ASSUME NEW q \in worse PROVE ~Book!Better(isBuy, q, s)
    <3>1. s \in Nat /\ q \in Nat /\ s <= Book!MaxSubticks /\ Book!MaxSubticks \in Nat
      BY <1>6, <2>3, <2>4, PriceRange, MaxSubticksType
    <3>2. CASE q \in rest
      BY <2>3, <3>1, <3>2 DEF Book!Better
    <3>3. CASE q = Book!NoSubticks(isBuy)
      BY <3>1, <3>3 DEF Book!Better, Book!NoSubticks
    <3> QED
      BY <1>7, <2>4, <3>2, <3>3
  <2> QED
    BY <1>6, <1>10, <2>1, <2>3, <2>4
<1>9. CASE scan = {} /\ rest = {}
  <2>1. s = Book!NoSubticks(isBuy) /\ ~next.found
    BY <1>9, <1>10 DEF Book!FindNextBestSubticks
  <2>2. \A q \in worse : q = s
    BY <1>7, <1>9, <2>1
  <2>3. \A q \in worse : ~Book!Better(isBuy, q, s)
    <3>1. \A q \in worse : q \in Nat
      BY <1>6, PriceRange
    <3> QED
      BY <2>2, <3>1 DEF Book!Better
  <2> QED
    BY <1>10, <2>1, <2>2, <2>3
<1> QED
  BY <1>5, <1>8, <1>9

\* There are no more prices than ticks.
LEMMA PricesCounted ==
  ASSUME Book!WellFormed, tick \in Nat \ {0}, NEW S \in SUBSET TickPrices,
         NEW a \in Int, NEW b \in Int,
         \A p \in S : TicksOf(p) \in a .. b
  PROVE  Cardinality(S) <= IF a > b THEN 0 ELSE b - a + 1
<1> DEFINE f == [p \in S |-> TicksOf(p)]
<1>1. \A p, q \in S : TicksOf(p) = TicksOf(q) => p = q
  BY PriceInTicks
<1> HIDE DEF TicksOf
<1>2. f \in Injection(S, a .. b)
  BY <1>1 DEF Injection, IsInjective
<1>3. IsFiniteSet(a .. b) /\ Cardinality(a .. b) = IF a > b THEN 0 ELSE b - a + 1
  BY FS_Interval
<1>4. Cardinality(S) <= Cardinality(a .. b)
  BY <1>2, <1>3, FS_Injection
<1> QED
  BY <1>3, <1>4

\* From the best level on, the scan stays among the prices: there are at least
\* as many ticks ahead as there are levels.
LEMMA NoWrapFromBest ==
  ASSUME Book!WellFormed, tick \in Nat \ {0}, NEW side, Book!Populated(side) \subseteq TickPrices,
         NEW start \in TickPrices, NEW isBuy \in BOOLEAN,
         \A p \in Book!Populated(side) : Book!Better(isBuy, start, p),
         NEW i \in Book!Scanned(side, start, isBuy)
  PROVE  Book!Step(start, isBuy, i) = Unwrapped(start, isBuy, i)
<1> DEFINE s == TicksOf(start)
           d == tick
           pop == Book!Populated(side)
           n == Cardinality(pop)
<1>1. /\ s \in 1 .. Ticks /\ start = s * d /\ d \in Nat \ {0} /\ Ticks \in Nat
      /\ Book!MaxSubticks \in Nat /\ Ticks * d <= Book!MaxSubticks
  BY PriceInTicks, MaxSubticksType
<1>2. pop \subseteq TickPrices /\ n \in Nat
  BY PopulatedFinite
<1>3. i \in 1 .. n
  BY BookCardinality DEF Book!Scanned
<1>4. \A p \in pop : TicksOf(p) \in 1 .. Ticks /\ p = TicksOf(p) * d /\ p \in Nat
  BY <1>2, PriceInTicks
<1>5. start \in Nat
  BY PriceInTicks
<1> HIDE DEF s, d, pop, n
<1>6. CASE isBuy
  <2>1. ASSUME NEW p \in pop PROVE TicksOf(p) \in 1 .. s - 1
    <3>1. p < start
      BY <1>4, <1>5, <1>6, <2>1 DEF Book!Better, pop
    <3>2. TicksOf(p) \in Int /\ s \in Int /\ TicksOf(p) * d < s * d
      BY <1>1, <1>4, <2>1, <3>1
    <3>3. TicksOf(p) < s
      BY <3>2, TicksCompare DEF d
    <3> QED
      BY <1>1, <1>4, <2>1, <3>3
  <2>2. n <= IF 1 > s - 1 THEN 0 ELSE s - 1 - 1 + 1
    BY <1>1, <1>2, <2>1, PricesCounted DEF n
  <2>3. s - i \in Nat
    BY <1>1, <1>2, <1>3, <2>2
  <2>4. (s - i) * d = s * d - i * d /\ (s - i) * d >= 0 /\ i * d >= 0
    BY <1>1, <1>2, <1>3, <2>3
  <2>5. Unwrapped(start, isBuy, i) = start - i * d
    BY <1>6 DEF Unwrapped, d
  <2>6. start <= Book!MaxSubticks
    BY PriceInTicks
  <2>7. i * d \in Int /\ s * d \in Int
    BY <1>1, <1>2, <1>3
  <2>8. start - i * d \in 0 .. Book!MaxSubticks
    BY <1>1, <1>5, <2>4, <2>6, <2>7
  <2> QED
    BY <1>2, <1>3, <1>5, <2>5, <2>8, StepUnwrapped
<1>7. CASE ~isBuy
  <2>1. ASSUME NEW p \in pop PROVE TicksOf(p) \in s + 1 .. Ticks
    <3>1. start < p
      BY <1>4, <1>5, <1>7, <2>1 DEF Book!Better, pop
    <3>2. TicksOf(p) \in Int /\ s \in Int /\ s * d < TicksOf(p) * d
      BY <1>1, <1>4, <2>1, <3>1
    <3>3. s < TicksOf(p)
      BY <3>2, TicksCompare DEF d
    <3> QED
      BY <1>1, <1>4, <2>1, <3>3
  <2>2. n <= IF s + 1 > Ticks THEN 0 ELSE Ticks - (s + 1) + 1
    BY <1>1, <1>2, <2>1, PricesCounted DEF n
  <2>3. s + i \in Nat /\ s + i <= Ticks
    BY <1>1, <1>2, <1>3, <2>2
  <2>4. (s + i) * d = s * d + i * d /\ (s + i) * d <= Ticks * d /\ (s + i) * d >= 0
    BY <1>1, <1>2, <1>3, <2>3
  <2>5. Unwrapped(start, isBuy, i) = start + i * d
    BY <1>7 DEF Unwrapped, d
  <2>6. i * d \in Int /\ s * d \in Int /\ Ticks * d \in Int
    BY <1>1, <1>2, <1>3
  <2>7. start + i * d \in 0 .. Book!MaxSubticks
    BY <1>1, <1>5, <2>4, <2>6
  <2> QED
    BY <1>2, <1>3, <1>5, <2>5, <2>7, StepUnwrapped
<1> QED
  BY <1>6, <1>7

\* From any other level, if the tick does not divide 2^Width, a price that has
\* wrapped around is not a multiple of the tick: no level is found there.
LEMMA NoLevelBeyond ==
  ASSUME Book!WellFormed, tick \in Nat \ {0}, 2 ^ Width % tick # 0,
         NEW side, Book!Populated(side) \subseteq TickPrices, NEW start \in TickPrices,
         NEW isBuy \in BOOLEAN, NEW i \in Book!Scanned(side, start, isBuy)
  PROVE  Book!Step(start, isBuy, i) = Unwrapped(start, isBuy, i)
<1> DEFINE s == TicksOf(start)
           d == tick
           w == 2 ^ Width
           pop == Book!Populated(side)
           n == Cardinality(pop)
           u == Unwrapped(start, isBuy, i)
           t == Book!Step(start, isBuy, i)
<1>1. /\ s \in 1 .. Ticks /\ start = s * d /\ d \in Nat \ {0} /\ Ticks \in Nat
      /\ w \in Nat \ {0} /\ Book!MaxSubticks = w - 1 /\ Ticks * d <= w - 1 /\ w % d # 0
  BY PriceInTicks, MaxSubticksType
<1>2. pop \subseteq TickPrices /\ n \in Nat
  BY PopulatedFinite
<1>3. i \in 1 .. n /\ t \in pop
  BY BookCardinality DEF Book!Scanned
<1>4. \A p \in pop : TicksOf(p) \in 1 .. Ticks
  BY <1>2, PriceInTicks
<1>5. t = TicksOf(t) * d /\ TicksOf(t) \in Nat
  BY <1>2, <1>3, PriceInTicks
<1>6. t = u % w
  BY DEF Book!Step, Unwrapped
<1>7. u = IF isBuy THEN start - i * d ELSE start + i * d
  BY DEF Unwrapped
<1> HIDE DEF s, d, w, pop, n, u, t
<1>8. n <= Ticks
  <2>1. n <= IF 1 > Ticks THEN 0 ELSE Ticks - 1 + 1
    BY <1>1, <1>2, <1>4, PricesCounted DEF n
  <2> QED
    BY <1>1, <1>2, <2>1
<1>9. i \in Nat /\ i <= Ticks
  BY <1>1, <1>2, <1>3, <1>8
<1>10. /\ i * d \in Nat /\ i * d <= Ticks * d /\ s * d \in Nat /\ s * d <= Ticks * d
       /\ Ticks * d \in Nat
  BY <1>1, <1>9
<1>11. \A k \in Int : w = k * d => w % d = 0
  BY <1>1
<1>12. CASE isBuy
  <2>1. u = s * d - i * d
    BY <1>1, <1>7, <1>12
  <2>2. u \in Int /\ u < w /\ u > -w
    BY <1>1, <1>10, <2>1
  <2>3. CASE u >= 0
    BY <1>1, <1>6, <2>2, <2>3 DEF t, u
  <2>4. CASE u < 0
    <3>1. t = u + w
      BY <1>1, <1>6, <2>2, <2>4
    <3>2. w = TicksOf(t) * d - s * d + i * d
      BY <1>1, <1>5, <1>10, <2>1, <3>1
    <3>3. TicksOf(t) * d - s * d + i * d = (TicksOf(t) - s + i) * d
      BY <1>1, <1>5, <1>9
    <3>4. TicksOf(t) - s + i \in Int
      BY <1>1, <1>5, <1>9
    <3> QED
      BY <1>1, <1>11, <3>2, <3>3, <3>4
  <2> QED
    BY <2>2, <2>3, <2>4
<1>13. CASE ~isBuy
  <2>1. u = s * d + i * d
    BY <1>1, <1>7, <1>13
  <2>2. u \in Int /\ u >= 0 /\ u < w + w
    BY <1>1, <1>10, <2>1
  <2>3. CASE u < w
    BY <1>1, <1>6, <2>2, <2>3 DEF t, u
  <2>4. CASE u >= w
    <3>1. t = u - w
      BY <1>1, <1>6, <2>2, <2>4
    <3>2. w = s * d + i * d - TicksOf(t) * d
      BY <1>1, <1>5, <1>10, <2>1, <3>1
    <3>3. s * d + i * d - TicksOf(t) * d = (s + i - TicksOf(t)) * d
      BY <1>1, <1>5, <1>9
    <3>4. s + i - TicksOf(t) \in Int
      BY <1>1, <1>5, <1>9
    <3> QED
      BY <1>1, <1>11, <3>2, <3>3, <3>4
  <2> QED
    BY <1>1, <2>2, <2>3, <2>4
<1> QED
  BY <1>12, <1>13

\* A scan that stays in range does not wrap around.
LEMMA NoWrapInRange ==
  ASSUME Book!WellFormed, tick \in Nat \ {0}, NEW side, NEW start \in TickPrices,
         NEW isBuy \in BOOLEAN, NEW i \in Book!Scanned(side, start, isBuy),
         IF isBuy THEN Cardinality(Book!Populated(side)) * tick <= start
         ELSE start + Cardinality(Book!Populated(side)) * tick <= Book!MaxSubticks
  PROVE  Book!Step(start, isBuy, i) = Unwrapped(start, isBuy, i)
<1> DEFINE n == Cardinality(Book!Populated(side))
           d == tick
<1>1. n \in Nat /\ i \in 1 .. n
  BY PopulatedFinite, BookCardinality DEF Book!Scanned
<1>2. /\ start \in Nat /\ start <= Book!MaxSubticks /\ Book!MaxSubticks \in Nat
      /\ d \in Nat \ {0}
  BY PriceInTicks, MaxSubticksType
<1>3. IF isBuy THEN n * d <= start ELSE start + n * d <= Book!MaxSubticks
  OBVIOUS
<1> HIDE DEF n
<1>4. /\ i \in Nat /\ i * d \in Nat /\ n * d \in Nat /\ i * d <= n * d
  <2>1. \A x, y \in Nat : x <= y => x * d <= y * d /\ x * d \in Nat /\ y * d \in Nat
    BY <1>2
  <2> QED
    BY <1>1, <2>1
<1>5. Unwrapped(start, isBuy, i) = IF isBuy THEN start - i * d ELSE start + i * d
  BY DEF Unwrapped
<1> HIDE DEF d
<1>6. Unwrapped(start, isBuy, i) \in 0 .. Book!MaxSubticks
  <2> DEFINE x == i * d
             y == n * d
  <2>1. x \in Nat /\ y \in Nat /\ x <= y
    BY <1>4
  <2> HIDE DEF x, y
  <2>2. CASE isBuy
    BY <1>2, <1>3, <1>5, <2>1, <2>2 DEF x, y
  <2>3. CASE ~isBuy
    BY <1>2, <1>3, <1>5, <2>1, <2>3 DEF x, y
  <2> QED
    BY <2>2, <2>3
<1> QED
  BY <1>2, <1>4, <1>6, StepUnwrapped

(***************************************************************************)
(* The indexes of the book.                                                *)
(***************************************************************************)

\* The orders of a level, and that none is there twice.
Ids(level) == {level[k] : k \in DOMAIN level}
Distinct(level) == \A j, k \in DOMAIN level : level[j] = level[k] => j = k

\* A level holds the orders at its price, each of them once.
LevelHolds(isBuy, p) ==
  /\ levels[isBuy][p] \in Seq(OrderIds)
  /\ Distinct(levels[isBuy][p])
  /\ Ids(levels[isBuy][p]) =
       {id \in DOMAIN orderOf : orderOf[id].isBuy = isBuy /\ orderOf[id].subticks = p}

\* The types of the book: an order is listed under its own id.
BookTypes ==
  /\ levels \in [BOOLEAN -> [Prices -> Seq(OrderIds)]]
  /\ best \in [BOOLEAN -> Int]
  /\ \A id \in DOMAIN orderOf : orderOf[id] \in Book!Order /\ orderOf[id].id = id
  /\ IsFiniteSet(DOMAIN orderOf)

\* Every order is on a tick, also after the tick has changed.
OnTick == tick \in Nat \ {0} /\ \A id \in DOMAIN orderOf : orderOf[id].subticks % tick = 0

\* The indexes say what the orders by id say ...
IndexSets ==
  /\ openOrders = {<<Owner[id], orderOf[id].isBuy, id>> : id \in DOMAIN orderOf}
  /\ reduceOnly = UNION {Book!ReduceOnlyEntry(orderOf[id]) : id \in DOMAIN orderOf}
  /\ expirations = UNION {Book!ExpiryOf(orderOf[id]) : id \in DOMAIN orderOf}
  /\ total = Cardinality(DOMAIN orderOf)

\* ... and so do the two maps of cancels.
CancelSets == cancelsAt = {<<cancelExpiry[id], id>> : id \in DOMAIN cancelExpiry}

LevelsHold == \A isBuy \in BOOLEAN, p \in Prices : LevelHolds(isBuy, p)

BookInv == BookTypes /\ OnTick /\ LevelsHold /\ Book!BestExact /\ IndexSets /\ CancelSets

\* A list with one order more at its front ...
LEMMA PushedFront ==
  ASSUME NEW S, NEW level \in Seq(S), NEW x \in S, Distinct(level), x \notin Ids(level)
  PROVE  /\ (<<x>> \o level) \in Seq(S) /\ Distinct(<<x>> \o level)
         /\ Ids(<<x>> \o level) = Ids(level) \cup {x} /\ (<<x>> \o level) # <<>>
<1> DEFINE longer == <<x>> \o level
<1>1. /\ longer \in Seq(S) /\ Len(longer) = Len(level) + 1 /\ longer[1] = x
      /\ \A k \in 1 .. Len(level) : longer[k + 1] = level[k]
  OBVIOUS
<1> HIDE DEF longer
<1>2. DOMAIN level = 1 .. Len(level) /\ DOMAIN longer = 1 .. Len(level) + 1
      /\ Len(level) \in Nat
  BY <1>1
<1>3. \A k \in 1 .. Len(level) + 1 : k = 1 \/ (k - 1 \in 1 .. Len(level) /\ longer[k] = level[k - 1])
  BY <1>1, <1>2
<1>4. Ids(longer) = Ids(level) \cup {x}
  <2>1. Ids(longer) \subseteq Ids(level) \cup {x}
    <3> SUFFICES ASSUME NEW k \in 1 .. Len(level) + 1 PROVE longer[k] \in Ids(level) \cup {x}
      BY <1>2 DEF Ids
    <3>1. CASE k = 1
      BY <1>1, <3>1
    <3>2. CASE k # 1
      <4>1. k - 1 \in DOMAIN level /\ longer[k] = level[k - 1]
        BY <1>2, <1>3, <3>2
      <4> QED
        BY <4>1 DEF Ids
    <3> QED
      BY <3>1, <3>2
  <2>2. Ids(level) \subseteq Ids(longer)
    <3> SUFFICES ASSUME NEW k \in 1 .. Len(level) PROVE level[k] \in Ids(longer)
      BY <1>2 DEF Ids
    <3>1. k + 1 \in DOMAIN longer /\ longer[k + 1] = level[k]
      BY <1>1, <1>2
    <3> QED
      BY <3>1 DEF Ids
  <2>3. x \in Ids(longer)
    BY <1>1, <1>2 DEF Ids
  <2> QED
    BY <2>1, <2>2, <2>3
<1>5. Distinct(longer)
  <2> SUFFICES ASSUME NEW j \in 1 .. Len(level) + 1, NEW k \in 1 .. Len(level) + 1,
                      longer[j] = longer[k]
               PROVE  j = k
    BY <1>2 DEF Distinct
  <2>1. \A i \in 1 .. Len(level) + 1 : i # 1 =>
          /\ i - 1 \in DOMAIN level /\ longer[i] = level[i - 1] /\ longer[i] # x
    <3> SUFFICES ASSUME NEW i \in 1 .. Len(level) + 1, i # 1
                 PROVE  i - 1 \in DOMAIN level /\ longer[i] = level[i - 1] /\ longer[i] # x
      OBVIOUS
    <3>1. i - 1 \in DOMAIN level /\ longer[i] = level[i - 1]
      BY <1>2, <1>3
    <3> QED
      BY <3>1 DEF Ids
  <2>2. CASE j = 1 \/ k = 1
    BY <1>1, <2>1, <2>2
  <2>3. CASE j # 1 /\ k # 1
    <3>1. j - 1 = k - 1
      BY <2>1, <2>3 DEF Distinct
    <3> QED
      BY <1>2, <3>1
  <2> QED
    BY <2>2, <2>3
<1>6. longer # <<>>
  BY <1>2
<1> QED
  BY <1>1, <1>4, <1>5, <1>6 DEF longer

\* ... and at its end.
LEMMA PushedBack ==
  ASSUME NEW S, NEW level \in Seq(S), NEW x \in S, Distinct(level), x \notin Ids(level)
  PROVE  /\ Append(level, x) \in Seq(S) /\ Distinct(Append(level, x))
         /\ Ids(Append(level, x)) = Ids(level) \cup {x} /\ Append(level, x) # <<>>
<1> DEFINE longer == Append(level, x)
<1>1. /\ longer \in Seq(S) /\ DOMAIN longer = 1 .. Len(level) + 1
      /\ longer[Len(level) + 1] = x /\ DOMAIN level = 1 .. Len(level) /\ Len(level) \in Nat
      /\ \A k \in 1 .. Len(level) : longer[k] = level[k]
  OBVIOUS
<1> HIDE DEF longer
<1>2. \A k \in DOMAIN longer : k \in 1 .. Len(level) \/ k = Len(level) + 1
  BY <1>1
<1>3. Ids(longer) = Ids(level) \cup {x}
  BY <1>1, <1>2 DEF Ids
<1>4. Distinct(longer)
  BY <1>1, <1>2 DEF Distinct, Ids
<1> QED
  BY <1>1, <1>3, <1>4 DEF longer

\* A list without one of its orders.
LEMMA UnlinkedHolds ==
  ASSUME NEW S, NEW level \in Seq(S), NEW x \in Ids(level), Distinct(level),
         NEW shorter, shorter = Book!Unlinked(level, x)
  PROVE  /\ shorter \in Seq(S) /\ Distinct(shorter) /\ Ids(shorter) = Ids(level) \ {x}
<1> DEFINE n == Len(level)
           node == CHOOSE k \in DOMAIN level : level[k] = x
<1>1. DOMAIN level = 1 .. n /\ n \in Nat /\ \A k \in 1 .. n : level[k] \in S
  OBVIOUS
<1>2. node \in 1 .. n /\ level[node] = x
  BY <1>1 DEF Ids
<1>3. shorter = [k \in 1 .. n - 1 |-> IF k < node THEN level[k] ELSE level[k + 1]]
  BY DEF Book!Unlinked
<1> HIDE DEF n, node
<1>4. DOMAIN shorter = 1 .. n - 1 /\ n - 1 \in Nat
  BY <1>1, <1>2, <1>3
<1>5. \A k \in 1 .. n - 1 :
        /\ k < node => shorter[k] = level[k] /\ k \in 1 .. n
        /\ k >= node => shorter[k] = level[k + 1] /\ k + 1 \in 1 .. n
  BY <1>1, <1>2, <1>3
<1>6. shorter \in Seq(S)
  <2>1. \A k \in 1 .. n - 1 : shorter[k] \in S
    BY <1>1, <1>2, <1>5
  <2> QED
    BY <1>3, <1>4, <2>1
<1>7. \A j, k \in 1 .. n : level[j] = level[k] => j = k
  BY <1>1 DEF Distinct
<1>8. Distinct(shorter)
  <2> SUFFICES ASSUME NEW j \in 1 .. n - 1, NEW k \in 1 .. n - 1, shorter[j] = shorter[k]
               PROVE  j = k
    BY <1>4 DEF Distinct
  <2>1. j \in Nat /\ k \in Nat /\ node \in Nat
    BY <1>1, <1>2
  <2>2. CASE j < node /\ k < node
    BY <1>5, <1>7, <2>2
  <2>3. CASE j < node /\ k >= node
    <3>1. j = k + 1
      BY <1>5, <1>7, <2>3
    <3> QED
      BY <2>1, <2>3, <3>1
  <2>4. CASE j >= node /\ k < node
    <3>1. j + 1 = k
      BY <1>5, <1>7, <2>4
    <3> QED
      BY <2>1, <2>4, <3>1
  <2>5. CASE j >= node /\ k >= node
    <3>1. j + 1 = k + 1
      BY <1>5, <1>7, <2>5
    <3> QED
      BY <2>1, <3>1
  <2> QED
    BY <2>1, <2>2, <2>3, <2>4, <2>5
<1>9. Ids(shorter) \subseteq Ids(level) \ {x}
  <2> SUFFICES ASSUME NEW k \in 1 .. n - 1 PROVE shorter[k] \in Ids(level) \ {x}
    BY <1>4 DEF Ids
  <2>1. k \in Nat /\ node \in Nat
    BY <1>1, <1>2
  <2>2. CASE k < node
    <3>1. shorter[k] = level[k] /\ k \in 1 .. n /\ k # node
      BY <1>5, <2>1, <2>2
    <3> QED
      BY <1>1, <1>2, <1>7, <3>1 DEF Ids
  <2>3. CASE k >= node
    <3>1. shorter[k] = level[k + 1] /\ k + 1 \in 1 .. n /\ k + 1 # node
      BY <1>5, <2>1, <2>3
    <3> QED
      BY <1>1, <1>2, <1>7, <3>1 DEF Ids
  <2> QED
    BY <2>1, <2>2, <2>3
<1>10. Ids(level) \ {x} \subseteq Ids(shorter)
  <2> SUFFICES ASSUME NEW k \in 1 .. n, level[k] # x PROVE level[k] \in Ids(shorter)
    BY <1>1 DEF Ids
  <2>1. k \in Nat /\ node \in Nat /\ k # node
    BY <1>1, <1>2
  <2>2. CASE k < node
    <3>1. k \in 1 .. n - 1
      BY <1>1, <1>2, <2>1, <2>2
    <3> QED
      BY <1>4, <1>5, <2>2, <3>1 DEF Ids
  <2>3. CASE k > node
    <3>1. k - 1 \in 1 .. n - 1 /\ k - 1 >= node /\ (k - 1) + 1 = k
      BY <1>1, <1>2, <2>1, <2>3
    <3>2. shorter[k - 1] = level[k]
      BY <1>5, <3>1
    <3> QED
      BY <1>4, <3>1, <3>2 DEF Ids
  <2> QED
    BY <2>1, <2>2, <2>3
<1> QED
  BY <1>6, <1>8, <1>9, <1>10

\* What the best price of some levels is.
IsBest(isBuy, prices, x) ==
  IF prices = {} THEN x = Book!NoSubticks(isBuy)
  ELSE x \in prices /\ \A p \in prices : ~Book!Better(isBuy, p, x)

\* The cached best prices are the best of their sides.
LEMMA BestExactIs ==
  Book!BestExact <=>
    \A isBuy \in BOOLEAN : IsBest(isBuy, Book!Populated(levels[isBuy]), best[isBuy])
BY DEF Book!BestExact, IsBest

\* mustAddOrderToOrderbook compares with the best price only.
LEMMA BestOfMore ==
  ASSUME Book!WellFormed, NEW isBuy \in BOOLEAN, NEW prices \in SUBSET Prices, NEW x,
         IsBest(isBuy, prices, x), NEW p \in Prices
  PROVE  IsBest(isBuy, prices \cup {p}, IF Book!Better(isBuy, p, x) THEN p ELSE x)
<1>1. \A q \in prices \cup {p} : q \in Nat /\ q >= 1 /\ q <= Book!MaxSubticks
  BY PriceRange
<1>2. Book!MaxSubticks \in Nat
  BY MaxSubticksType
<1>3. CASE prices = {}
  <2>1. x = Book!NoSubticks(isBuy)
    BY <1>3 DEF IsBest
  <2>2. ~Book!Better(isBuy, p, p)
    BY <1>1 DEF Book!Better
  <2>3. Book!Better(isBuy, p, x) \/ p = x
    BY <1>1, <1>2, <2>1 DEF Book!Better, Book!NoSubticks
  <2> QED
    BY <1>3, <2>2, <2>3 DEF IsBest
<1>4. CASE prices # {}
  <2>1. x \in prices /\ \A q \in prices : ~Book!Better(isBuy, q, x)
    BY <1>4 DEF IsBest
  <2>2. CASE Book!Better(isBuy, p, x)
    <3>1. \A q \in prices \cup {p} : ~Book!Better(isBuy, q, p)
      BY <1>1, <2>1, <2>2 DEF Book!Better
    <3> QED
      BY <2>2, <3>1 DEF IsBest
  <2>3. CASE ~Book!Better(isBuy, p, x)
    BY <2>1, <2>3 DEF IsBest
  <2> QED
    BY <2>2, <2>3
<1> QED
  BY <1>3, <1>4

\* Below the best price a level may go.
LEMMA BestOfRest ==
  ASSUME NEW isBuy \in BOOLEAN, NEW prices, NEW x, IsBest(isBuy, prices, x),
         NEW p \in prices, p # x
  PROVE  IsBest(isBuy, prices \ {p}, x)
BY DEF IsBest

\* The level of the best price has gone: the search finds the best of the others.
LEMMA BestFound ==
  ASSUME Book!WellFormed, tick \in Nat \ {0}, NEW isBuy \in BOOLEAN, NEW side,
         Book!Populated(side) \subseteq TickPrices, NEW start \in TickPrices,
         \A p \in Book!Populated(side) : Book!Better(isBuy, start, p)
  PROVE  IsBest(isBuy, Book!Populated(side),
                Book!FindNextBestSubticks(side, start, isBuy).subticks)
<1>1. \A i \in Book!Scanned(side, start, isBuy) :
        Book!Step(start, isBuy, i) = Unwrapped(start, isBuy, i)
  BY NoWrapFromBest
<1>2. PICK next, worse :
        /\ next = Book!FindNextBestSubticks(side, start, isBuy)
        /\ worse = Book!Worse(side, start, isBuy)
  OBVIOUS
<1>3. IF worse = {} THEN next.subticks = Book!NoSubticks(isBuy)
      ELSE next.subticks \in worse /\ \A q \in worse : ~Book!Better(isBuy, q, next.subticks)
  BY <1>1, <1>2, FindsNext
<1>4. worse = Book!Populated(side)
  BY <1>2 DEF Book!Worse
<1> QED
  BY <1>2, <1>3, <1>4 DEF IsBest

\* The fields of an order that the book looks at.
LEMMA OrderFields ==
  ASSUME Book!WellFormed, NEW order \in Book!Order
  PROVE  order.id \in OrderIds /\ order.isBuy \in BOOLEAN /\ order.subticks \in Prices
BY DEF Book!Order, Book!WellFormed

\* Every level is on a tick: there is an order at its price.
LEMMA LevelsOnTick ==
  ASSUME Book!WellFormed, BookInv, NEW isBuy \in BOOLEAN
  PROVE  tick \in Nat \ {0} /\ Book!Populated(levels[isBuy]) \subseteq TickPrices
<1>1. tick \in Nat \ {0}
  BY DEF BookInv, OnTick
<1>2. ASSUME NEW p \in Book!Populated(levels[isBuy]) PROVE p \in TickPrices
  <2>1. p \in Prices /\ levels[isBuy][p] # <<>>
    BY DEF Book!Populated
  <2>2. LevelHolds(isBuy, p)
    BY <2>1 DEF BookInv, LevelsHold
  <2>3. PICK k \in DOMAIN levels[isBuy][p] : TRUE
    <3>1. levels[isBuy][p] \in Seq(OrderIds)
      BY <2>2 DEF LevelHolds
    <3>2. PICK level : level = levels[isBuy][p]
      OBVIOUS
    <3>3. level \in Seq(OrderIds) /\ level # <<>>
      BY <2>1, <3>1, <3>2
    <3>4. 1 \in DOMAIN level
      <4>1. Len(level) \in Nat /\ DOMAIN level = 1 .. Len(level) /\ Len(level) # 0
        BY <3>3
      <4> QED
        BY <4>1
    <3> QED
      BY <3>2, <3>4
  <2>4. PICK id \in DOMAIN orderOf : orderOf[id].subticks = p
    BY <2>2, <2>3 DEF LevelHolds, Ids
  <2>5. p % tick = 0
    BY <2>4 DEF BookInv, OnTick
  <2>6. p \in 1 .. Book!MaxSubticks
    BY <2>1 DEF Book!WellFormed
  <2> QED
    BY <2>5, <2>6 DEF TickPrices
<1> QED
  BY <1>1, <1>2

\* mustAddOrderToOrderbook keeps the levels, the best prices and the indexes.
LEMMA AddKeeps ==
  ASSUME Book!WellFormed, BookInv, NEW order \in Book!Order, NEW front \in BOOLEAN,
         Book!MustAddOrderToOrderbook(order, front)
  PROVE  BookInv'
<1>1. PICK id, b, s, level, longer :
        /\ id = order.id /\ b = order.isBuy /\ s = order.subticks /\ level = levels[b][s]
        /\ longer = IF front THEN <<id>> \o level ELSE Append(level, id)
  OBVIOUS
<1>2. id \in OrderIds /\ b \in BOOLEAN /\ s \in Prices
  BY <1>1, OrderFields
<1>3. /\ levels \in [BOOLEAN -> [Prices -> Seq(OrderIds)]] /\ best \in [BOOLEAN -> Int]
      /\ \A o \in DOMAIN orderOf : orderOf[o] \in Book!Order /\ orderOf[o].id = o
      /\ IsFiniteSet(DOMAIN orderOf)
  BY DEF BookInv, BookTypes
<1>4. /\ id \notin DOMAIN orderOf
      /\ levels' = [levels EXCEPT ![b][s] = longer]
      /\ orderOf' = [o \in DOMAIN orderOf \cup {id} |-> IF o = id THEN order ELSE orderOf[o]]
      /\ best' = [best EXCEPT ![b] = Book!BestWith(order)]
  BY <1>1 DEF Book!MustAddOrderToOrderbook
<1>5. /\ DOMAIN orderOf' = DOMAIN orderOf \cup {id} /\ orderOf'[id] = order
      /\ \A o \in DOMAIN orderOf : o # id /\ orderOf'[o] = orderOf[o]
  BY <1>4
<1>6. /\ level \in Seq(OrderIds) /\ Distinct(level)
      /\ Ids(level) = {o \in DOMAIN orderOf : orderOf[o].isBuy = b /\ orderOf[o].subticks = s}
  BY <1>1, <1>2 DEF BookInv, LevelsHold, LevelHolds
<1>7. /\ longer \in Seq(OrderIds) /\ Distinct(longer) /\ Ids(longer) = Ids(level) \cup {id}
      /\ longer # <<>>
  <2>1. id \notin Ids(level)
    BY <1>4, <1>6
  <2>2. level \in Seq(OrderIds) /\ Distinct(level) /\ id \in OrderIds
    BY <1>2, <1>6
  <2>3. CASE longer = <<id>> \o level
    BY <2>1, <2>2, <2>3, PushedFront
  <2>4. CASE longer = Append(level, id)
    BY <2>1, <2>2, <2>4, PushedBack
  <2>5. longer = <<id>> \o level \/ longer = Append(level, id)
    BY <1>1
  <2> QED
    BY <2>3, <2>4, <2>5
<1>8. /\ levels' \in [BOOLEAN -> [Prices -> Seq(OrderIds)]]
      /\ levels'[b][s] = longer
      /\ \A c \in BOOLEAN, p \in Prices : c # b \/ p # s => levels'[c][p] = levels[c][p]
  BY <1>2, <1>3, <1>4, <1>7
<1>9. LevelsHold'
  <2> SUFFICES ASSUME NEW c \in BOOLEAN, NEW p \in Prices PROVE LevelHolds(c, p)'
    BY DEF LevelsHold
  <2>1. CASE c = b /\ p = s
    <3>1. Ids(longer) = {o \in DOMAIN orderOf' : orderOf'[o].isBuy = b /\ orderOf'[o].subticks = s}
      BY <1>1, <1>5, <1>6, <1>7
    <3> QED
      BY <1>7, <1>8, <2>1, <3>1 DEF LevelHolds, Ids, Distinct
  <2>2. CASE c # b \/ p # s
    <3>1. LevelHolds(c, p) /\ levels'[c][p] = levels[c][p]
      BY <1>8, <2>2 DEF BookInv, LevelsHold
    <3>2. {o \in DOMAIN orderOf' : orderOf'[o].isBuy = c /\ orderOf'[o].subticks = p} =
            {o \in DOMAIN orderOf : orderOf[o].isBuy = c /\ orderOf[o].subticks = p}
      BY <1>1, <1>5, <2>2
    <3> QED
      BY <3>1, <3>2 DEF LevelHolds, Ids, Distinct
  <2> QED
    BY <2>1, <2>2
<1>10. /\ Book!Populated(levels'[b]) = Book!Populated(levels[b]) \cup {s}
       /\ \A c \in BOOLEAN : c # b => Book!Populated(levels'[c]) = Book!Populated(levels[c])
  BY <1>2, <1>7, <1>8 DEF Book!Populated
<1>11. Book!BestWith(order) = IF Book!Better(b, s, best[b]) THEN s ELSE best[b]
  BY <1>1 DEF Book!BestWith
<1>12. Book!BestExact'
  <2>1. \A c \in BOOLEAN : IsBest(c, Book!Populated(levels[c]), best[c])
    BY BestExactIs DEF BookInv
  <2>2. ASSUME NEW c \in BOOLEAN PROVE IsBest(c, Book!Populated(levels'[c]), best'[c])
    <3>1. CASE c = b
      <4>1. PICK pop, x, y : pop = Book!Populated(levels[b]) /\ x = best[b] /\ y = best'[b]
        OBVIOUS
      <4>2. pop \in SUBSET Prices /\ IsBest(b, pop, x)
        BY <1>2, <2>1, <4>1, PopulatedFinite
      <4>3. y = IF Book!Better(b, s, x) THEN s ELSE x
        BY <1>2, <1>3, <1>4, <1>11, <4>1
      <4>4. IsBest(b, pop \cup {s}, y)
        BY <1>2, <4>2, <4>3, BestOfMore
      <4> QED
        BY <1>10, <3>1, <4>1, <4>4
    <3>2. CASE c # b
      BY <1>3, <1>4, <1>10, <2>1, <3>2
    <3> QED
      BY <3>1, <3>2
  <2> QED
    BY <2>2 DEF Book!BestExact, IsBest, Book!Populated, Book!NoSubticks, Book!Better
<1>13. BookTypes'
  <2>1. best' \in [BOOLEAN -> Int]
    <3>1. s \in Int /\ best[b] \in Int
      BY <1>2, <1>3, PriceRange
    <3> QED
      BY <1>2, <1>3, <1>4, <1>11, <3>1
  <2>2. IsFiniteSet(DOMAIN orderOf')
    BY <1>3, <1>5, FS_AddElement
  <2>3. \A o \in DOMAIN orderOf' : orderOf'[o] \in Book!Order /\ orderOf'[o].id = o
    BY <1>1, <1>3, <1>5
  <2> QED
    BY <1>8, <2>1, <2>2, <2>3 DEF BookTypes, Book!Order
<1>14. IndexSets'
  <2>1. /\ openOrders' = openOrders \cup {<<Owner[id], b, id>>}
        /\ expirations' = expirations \cup Book!ExpiryOf(order)
        /\ reduceOnly' = reduceOnly \cup Book!ReduceOnlyEntry(order)
        /\ total' = total + 1
    BY <1>1 DEF Book!MustAddOrderToOrderbook
  <2>2. IndexSets
    BY DEF BookInv
  <2>3. openOrders' = {<<Owner[o], orderOf'[o].isBuy, o>> : o \in DOMAIN orderOf'}
    BY <1>1, <1>5, <2>1, <2>2 DEF IndexSets
  <2>4. reduceOnly' = UNION {Book!ReduceOnlyEntry(orderOf'[o]) : o \in DOMAIN orderOf'}
    BY <1>5, <2>1, <2>2 DEF IndexSets
  <2>5. expirations' = UNION {Book!ExpiryOf(orderOf'[o]) : o \in DOMAIN orderOf'}
    BY <1>5, <2>1, <2>2 DEF IndexSets
  <2>6. total' = Cardinality(DOMAIN orderOf')
    <3>1. Cardinality(DOMAIN orderOf') = Cardinality(DOMAIN orderOf) + 1
      BY <1>3, <1>4, <1>5, FS_AddElement
    <3> QED
      BY <2>1, <2>2, <3>1 DEF IndexSets
  <2> QED
    BY <2>3, <2>4, <2>5, <2>6 DEF IndexSets, Book!ReduceOnlyEntry, Book!ExpiryOf
<1>15. CancelSets'
  BY DEF Book!MustAddOrderToOrderbook, Book!cancelVars, BookInv, CancelSets
<1>16. OnTick'
  <2>1. tick' = tick /\ s % tick = 0
    BY <1>1 DEF Book!MustAddOrderToOrderbook, Book!ValidSubticks
  <2> QED
    BY <1>1, <1>5, <2>1 DEF BookInv, OnTick
<1> QED
  BY <1>9, <1>12, <1>13, <1>14, <1>15, <1>16 DEF BookInv

\* mustRemoveOrder does; when the level of the best price has become empty,
\* because the search finds the next one.
LEMMA RemoveKeeps ==
  ASSUME Book!WellFormed, BookInv, NEW id \in DOMAIN orderOf, Book!MustRemoveOrder(id)
  PROVE  BookInv'
<1>1. PICK order, b, s, level, shorter, side :
        /\ order = orderOf[id] /\ b = order.isBuy /\ s = order.subticks
        /\ level = levels[b][s] /\ shorter = Book!Unlinked(level, id)
        /\ side = [levels[b] EXCEPT ![s] = shorter]
  OBVIOUS
<1>2. /\ levels \in [BOOLEAN -> [Prices -> Seq(OrderIds)]] /\ best \in [BOOLEAN -> Int]
      /\ \A o \in DOMAIN orderOf : orderOf[o] \in Book!Order /\ orderOf[o].id = o
      /\ IsFiniteSet(DOMAIN orderOf)
  BY DEF BookInv, BookTypes
<1>3. b \in BOOLEAN /\ s \in Prices /\ order \in Book!Order /\ order.id = id
  BY <1>1, <1>2, OrderFields
<1>4. /\ levels' = [levels EXCEPT ![b] = side]
      /\ best' = [best EXCEPT ![b] = Book!BestWithout(order, side)]
      /\ orderOf' = [o \in DOMAIN orderOf \ {id} |-> orderOf[o]]
  BY <1>1, <1>2, <1>3 DEF Book!MustRemoveOrder
<1>5. /\ DOMAIN orderOf' = DOMAIN orderOf \ {id}
      /\ \A o \in DOMAIN orderOf' : o # id /\ orderOf'[o] = orderOf[o]
  BY <1>4
<1>6. /\ level \in Seq(OrderIds) /\ Distinct(level)
      /\ Ids(level) = {o \in DOMAIN orderOf : orderOf[o].isBuy = b /\ orderOf[o].subticks = s}
  BY <1>1, <1>3 DEF BookInv, LevelsHold, LevelHolds
<1>7. /\ shorter \in Seq(OrderIds) /\ Distinct(shorter) /\ Ids(shorter) = Ids(level) \ {id}
  <2>1. id \in Ids(level)
    BY <1>1, <1>6
  <2>2. shorter = Book!Unlinked(level, id)
    BY <1>1
  <2> QED
    BY <1>6, <2>1, <2>2, UnlinkedHolds
<1>8. /\ side \in [Prices -> Seq(OrderIds)] /\ side[s] = shorter
      /\ \A p \in Prices : p # s => side[p] = levels[b][p]
  BY <1>1, <1>2, <1>3, <1>7
<1>9. /\ levels' \in [BOOLEAN -> [Prices -> Seq(OrderIds)]]
      /\ levels'[b] = side
      /\ \A c \in BOOLEAN : c # b => levels'[c] = levels[c]
  BY <1>2, <1>3, <1>4, <1>8
<1>10. LevelsHold'
  <2> SUFFICES ASSUME NEW c \in BOOLEAN, NEW p \in Prices PROVE LevelHolds(c, p)'
    BY DEF LevelsHold
  <2>1. CASE c = b /\ p = s
    <3>1. Ids(shorter) =
            {o \in DOMAIN orderOf' : orderOf'[o].isBuy = b /\ orderOf'[o].subticks = s}
      BY <1>5, <1>6, <1>7
    <3>2. levels'[c][p] = shorter
      BY <1>8, <1>9, <2>1
    <3> QED
      BY <1>7, <2>1, <3>1, <3>2 DEF LevelHolds, Ids, Distinct
  <2>2. CASE c # b \/ p # s
    <3>1. LevelHolds(c, p) /\ levels'[c][p] = levels[c][p]
      BY <1>8, <1>9, <2>2 DEF BookInv, LevelsHold
    <3>2. {o \in DOMAIN orderOf' : orderOf'[o].isBuy = c /\ orderOf'[o].subticks = p} =
            {o \in DOMAIN orderOf : orderOf[o].isBuy = c /\ orderOf[o].subticks = p}
      BY <1>1, <1>5, <2>2
    <3> QED
      BY <3>1, <3>2 DEF LevelHolds, Ids, Distinct
  <2> QED
    BY <2>1, <2>2
<1>11. PICK pop, x, y : pop = Book!Populated(levels[b]) /\ x = best[b] /\ y = best'[b]
  OBVIOUS
<1>12. /\ y = IF shorter = <<>> /\ x = s THEN Book!FindNextBestSubticks(side, s, b).subticks
              ELSE x
       /\ Book!Populated(side) = IF shorter = <<>> THEN pop \ {s} ELSE pop
       /\ s \in pop /\ pop \subseteq Prices /\ IsBest(b, pop, x)
  <2>1. y = Book!BestWithout(order, side)
    BY <1>2, <1>3, <1>4, <1>11
  <2>2. level # <<>>
    BY <1>1, <1>6 DEF Ids
  <2>3. s \in pop
    BY <1>1, <1>3, <1>11, <2>2 DEF Book!Populated
  <2>4. Book!Populated(side) = IF shorter = <<>> THEN pop \ {s} ELSE pop
    BY <1>3, <1>8, <1>11, <2>3 DEF Book!Populated
  <2>5. IsBest(b, pop, x) /\ pop \subseteq Prices
    BY <1>3, <1>11, BestExactIs, PopulatedFinite DEF BookInv
  <2> QED
    BY <1>1, <1>8, <1>11, <2>1, <2>3, <2>4, <2>5 DEF Book!BestWithout
<1>13. IsBest(b, Book!Populated(side), y)
  <2>1. CASE shorter # <<>>
    BY <1>12, <2>1
  <2>2. CASE shorter = <<>> /\ x # s
    BY <1>3, <1>12, <2>2, BestOfRest
  <2>3. CASE shorter = <<>> /\ x = s
    <3>1. \A p \in pop \ {s} : Book!Better(b, s, p)
      <4>1. \A p \in pop : p \in Nat /\ ~Book!Better(b, p, s)
        BY <1>12, <2>3, PriceRange DEF IsBest
      <4>2. s \in Nat
        BY <1>3, PriceRange
      <4> QED
        BY <1>3, <4>1, <4>2 DEF Book!Better
    <3>2. \A p \in Book!Populated(side) : Book!Better(b, s, p)
      BY <1>12, <2>3, <3>1
    <3>3. tick \in Nat \ {0} /\ pop \subseteq TickPrices
      BY <1>3, <1>11, LevelsOnTick
    <3>4. s \in TickPrices /\ Book!Populated(side) \subseteq TickPrices
      BY <1>12, <2>3, <3>3
    <3> QED
      BY <1>3, <1>12, <2>3, <3>2, <3>3, <3>4, BestFound
  <2> QED
    BY <2>1, <2>2, <2>3
<1>14. Book!BestExact'
  <2>1. ASSUME NEW c \in BOOLEAN PROVE IsBest(c, Book!Populated(levels'[c]), best'[c])
    <3>1. CASE c = b
      BY <1>9, <1>11, <1>13, <3>1
    <3>2. CASE c # b
      <4>1. IsBest(c, Book!Populated(levels[c]), best[c])
        BY BestExactIs DEF BookInv
      <4> QED
        BY <1>2, <1>4, <1>9, <3>2, <4>1
    <3> QED
      BY <3>1, <3>2
  <2> QED
    BY <2>1 DEF Book!BestExact, IsBest, Book!Populated, Book!NoSubticks, Book!Better
<1>15. BookTypes'
  <2>1. y \in Int
    <3>1. Book!Populated(side) \subseteq Int /\ Book!NoSubticks(b) \in Int
      <4>1. Book!Populated(side) \subseteq Prices /\ Book!MaxSubticks \in Nat
        BY PopulatedFinite, MaxSubticksType
      <4> QED
        BY <4>1, PriceRange DEF Book!NoSubticks
    <3> QED
      BY <1>13, <3>1 DEF IsBest
  <2>2. best' \in [BOOLEAN -> Int]
    BY <1>2, <1>3, <1>4, <1>11, <2>1
  <2>3. IsFiniteSet(DOMAIN orderOf')
    BY <1>2, <1>5, FS_RemoveElement
  <2>4. \A o \in DOMAIN orderOf' : orderOf'[o] \in Book!Order /\ orderOf'[o].id = o
    BY <1>2, <1>5
  <2> QED
    BY <1>9, <2>2, <2>3, <2>4 DEF BookTypes, Book!Order
<1>16. IndexSets'
  <2>1. /\ openOrders' = openOrders \ {<<Owner[id], b, id>>}
        /\ expirations' = expirations \ Book!ExpiryOf(order)
        /\ reduceOnly' = reduceOnly \ Book!ReduceOnlyEntry(order)
        /\ total' = total - 1
    BY <1>1 DEF Book!MustRemoveOrder, Book!ExpirationsWithout, Book!ReduceOnlyWithout
  <2>2. IndexSets
    BY DEF BookInv
  <2>3. openOrders' = {<<Owner[o], orderOf'[o].isBuy, o>> : o \in DOMAIN orderOf'}
    BY <1>1, <1>5, <2>1, <2>2 DEF IndexSets
  <2>4. \A o \in DOMAIN orderOf' :
          /\ Book!ReduceOnlyEntry(orderOf'[o]) \cap Book!ReduceOnlyEntry(order) = {}
          /\ Book!ExpiryOf(orderOf'[o]) \cap Book!ExpiryOf(order) = {}
    <3>1. \A o \in DOMAIN orderOf' : orderOf'[o].id = o /\ o # id
      BY <1>2, <1>5
    <3> QED
      BY <1>3, <3>1 DEF Book!ReduceOnlyEntry, Book!ExpiryOf
  <2>5. reduceOnly' = UNION {Book!ReduceOnlyEntry(orderOf'[o]) : o \in DOMAIN orderOf'}
    BY <1>1, <1>5, <2>1, <2>2, <2>4 DEF IndexSets
  <2>6. expirations' = UNION {Book!ExpiryOf(orderOf'[o]) : o \in DOMAIN orderOf'}
    BY <1>1, <1>5, <2>1, <2>2, <2>4 DEF IndexSets
  <2>7. total' = Cardinality(DOMAIN orderOf')
    <3>1. Cardinality(DOMAIN orderOf') = Cardinality(DOMAIN orderOf) - 1
      BY <1>2, <1>5, FS_RemoveElement
    <3> QED
      BY <2>1, <2>2, <3>1 DEF IndexSets
  <2> QED
    BY <2>3, <2>5, <2>6, <2>7 DEF IndexSets, Book!ReduceOnlyEntry, Book!ExpiryOf
<1>17. CancelSets'
  BY DEF Book!MustRemoveOrder, Book!cancelVars, BookInv, CancelSets
<1>18. OnTick'
  <2>1. tick' = tick
    BY DEF Book!MustRemoveOrder
  <2> QED
    BY <1>5, <2>1 DEF BookInv, OnTick
<1> QED
  BY <1>10, <1>14, <1>15, <1>16, <1>17, <1>18 DEF BookInv

\* Cancels and a new tick leave the book alone.
LEMMA CancelsKeep ==
  ASSUME BookInv, UNCHANGED Book!bookVars, CancelSets', OnTick' PROVE BookInv'
<1>1. /\ levels' = levels /\ best' = best /\ orderOf' = orderOf /\ openOrders' = openOrders
      /\ reduceOnly' = reduceOnly /\ expirations' = expirations /\ total' = total
  BY DEF Book!bookVars
<1>2. BookTypes'
  BY <1>1 DEF BookInv, BookTypes, Book!Order
<1>3. LevelsHold'
  BY <1>1 DEF BookInv, LevelsHold, LevelHolds, Ids, Distinct
<1>4. Book!BestExact'
  BY <1>1 DEF BookInv, Book!BestExact, Book!Populated, Book!NoSubticks, Book!Better
<1>5. IndexSets'
  BY <1>1 DEF BookInv, IndexSets, Book!ReduceOnlyEntry, Book!ExpiryOf
<1> QED
  BY <1>2, <1>3, <1>4, <1>5 DEF BookInv

\* mustRemoveCancel and removeAllCancelsAtBlock take from both maps.
LEMMA RemoveCancelsKeeps ==
  ASSUME BookInv, NEW ids, Book!RemoveCancels(ids) PROVE BookInv'
<1>1. /\ DOMAIN cancelExpiry' = DOMAIN cancelExpiry \ ids
      /\ \A id \in DOMAIN cancelExpiry' : cancelExpiry'[id] = cancelExpiry[id]
      /\ cancelsAt' = {c \in cancelsAt : c[2] \notin ids}
  BY DEF Book!RemoveCancels, Book!CancelsAtWithout
<1>2. CancelSets'
  BY <1>1 DEF BookInv, CancelSets
<1>3. OnTick'
  BY DEF BookInv, OnTick, Book!RemoveCancels, Book!bookVars
<1> QED
  BY <1>2, <1>3, CancelsKeep DEF Book!RemoveCancels

\* A multiple of the tick is one of each divisor of the tick.
LEMMA MultipleOfDivisor ==
  ASSUME NEW a \in Nat, NEW b \in Nat \ {0}, NEW c \in Nat \ {0}, a % b = 0, b % c = 0
  PROVE  a % c = 0
<1>1. PICK x \in Nat : a = x * b
  <2>1. a \div b \in Nat /\ a = (a \div b) * b
    OBVIOUS
  <2> QED
    BY <2>1
<1>2. PICK y \in Nat : b = y * c
  <2>1. b \div c \in Nat /\ b = (b \div c) * c
    OBVIOUS
  <2> QED
    BY <2>1
<1>3. a = (x * y) * c /\ x * y \in Nat
  BY <1>1, <1>2
<1>4. \A k \in Nat : (k * c) % c = 0
  OBVIOUS
<1> QED
  BY <1>3, <1>4

\* SyncOrderbookState goes to a divisor of the tick.
LEMMA SyncKeeps ==
  ASSUME Book!WellFormed, BookInv, NEW t \in 1 .. tick, Book!SyncOrderbookState(t)
  PROVE  BookInv'
<1>1. /\ tick' = t /\ tick % t = 0 /\ UNCHANGED Book!bookVars /\ orderOf' = orderOf
      /\ cancelExpiry' = cancelExpiry /\ cancelsAt' = cancelsAt
  BY DEF Book!SyncOrderbookState, Book!bookVars, Book!cancelVars
<1>2. tick \in Nat \ {0} /\ t \in Nat \ {0}
  BY DEF BookInv, OnTick
<1>3. ASSUME NEW id \in DOMAIN orderOf PROVE orderOf[id].subticks % t = 0
  <2>1. orderOf[id].subticks \in Nat
    BY OrderFields, PriceRange DEF BookInv, BookTypes
  <2>2. orderOf[id].subticks % tick = 0
    BY DEF BookInv, OnTick
  <2> QED
    BY <1>1, <1>2, <2>1, <2>2, MultipleOfDivisor
<1>4. OnTick'
  BY <1>1, <1>2, <1>3 DEF OnTick
<1>5. CancelSets'
  BY <1>1 DEF BookInv, CancelSets
<1> QED
  BY <1>1, <1>4, <1>5, CancelsKeep

\* An empty book agrees with itself.
LEMMA BookInit == Book!WellFormed /\ Book!Init => BookInv
<1> SUFFICES ASSUME Book!WellFormed, Book!Init PROVE BookInv
  OBVIOUS
<1>1. /\ \A c \in BOOLEAN, p \in Prices : levels[c][p] = <<>>
      /\ levels \in [BOOLEAN -> [Prices -> Seq(OrderIds)]]
      /\ DOMAIN orderOf = {} /\ DOMAIN cancelExpiry = {}
  BY DEF Book!Init
<1>2. BookTypes
  <2>1. \A c \in BOOLEAN : Book!NoSubticks(c) \in Int
    BY MaxSubticksType DEF Book!NoSubticks
  <2>2. best \in [BOOLEAN -> Int]
    BY <2>1 DEF Book!Init
  <2> QED
    BY <1>1, <2>2, FS_EmptySet DEF BookTypes
<1>3. LevelsHold
  BY <1>1 DEF LevelsHold, LevelHolds, Ids, Distinct
<1>4. Book!BestExact
  <2>1. \A c \in BOOLEAN : Book!Populated(levels[c]) = {}
    BY <1>1 DEF Book!Populated
  <2>2. \A c \in BOOLEAN : best[c] = Book!NoSubticks(c)
    BY DEF Book!Init
  <2> QED
    BY <2>1, <2>2 DEF Book!BestExact
<1>5. IndexSets
  BY <1>1, FS_EmptySet DEF Book!Init, IndexSets
<1>6. CancelSets
  BY <1>1 DEF Book!Init, CancelSets
<1>7. OnTick
  BY <1>1 DEF Book!Init, Book!WellFormed, OnTick
<1> QED
  BY <1>2, <1>3, <1>4, <1>5, <1>6, <1>7 DEF BookInv

\* Every step of the book keeps the invariant.
LEMMA BookStep ==
  Book!WellFormed /\ BookInv /\ [Book!Next]_(Book!vars) => BookInv'
<1> SUFFICES ASSUME Book!WellFormed, BookInv, [Book!Next]_(Book!vars) PROVE BookInv'
  OBVIOUS
<1>1. ASSUME NEW id \in ShortTermIds, NEW tilBlock \in Blocks,
             Book!AddShortTermCancel(id, tilBlock)
      PROVE  BookInv'
  <2>1. /\ DOMAIN cancelExpiry' = DOMAIN cancelExpiry \cup {id} /\ cancelExpiry'[id] = tilBlock
        /\ \A other \in DOMAIN cancelExpiry :
             other # id /\ cancelExpiry'[other] = cancelExpiry[other]
        /\ cancelsAt' = cancelsAt \cup {<<tilBlock, id>>}
    BY <1>1 DEF Book!AddShortTermCancel
  <2>2. CancelSets'
    BY <2>1 DEF BookInv, CancelSets
  <2>3. OnTick'
    BY <1>1 DEF BookInv, OnTick, Book!AddShortTermCancel, Book!bookVars
  <2> QED
    BY <1>1, <2>2, <2>3, CancelsKeep DEF Book!AddShortTermCancel
<1>2. ASSUME NEW id \in DOMAIN cancelExpiry, Book!MustRemoveCancel(id) PROVE BookInv'
  BY <1>2, RemoveCancelsKeeps DEF Book!MustRemoveCancel
<1>3. ASSUME NEW block \in Blocks, Book!RemoveAllCancelsAtBlock(block) PROVE BookInv'
  BY <1>3, RemoveCancelsKeeps DEF Book!RemoveAllCancelsAtBlock
<1>4. CASE UNCHANGED Book!vars
  <2>1. OnTick'
    BY <1>4 DEF BookInv, OnTick, Book!vars, Book!bookVars
  <2> QED
    BY <1>4, <2>1, CancelsKeep DEF Book!vars, Book!cancelVars, BookInv, CancelSets
<1>5. ASSUME NEW t \in 1 .. tick, Book!SyncOrderbookState(t) PROVE BookInv'
  BY <1>5, SyncKeeps
<1> QED
  BY <1>1, <1>2, <1>3, <1>4, <1>5, AddKeeps, RemoveKeeps DEF Book!Next

\* The levels, the cached best prices and the indexes of the book agree, for
\* every tick, width and set of orders, after any sequence of additions,
\* removals, cancels and changes of the tick.
THEOREM BookConsistent ==
  ASSUME Book!WellFormed PROVE PartsSpec => []IndexesAgree
<1>1. BookInv => Book!IndexesAgree
  <2> SUFFICES ASSUME BookInv PROVE Book!IndexesAgree
    OBVIOUS
  <2>1. \A id \in DOMAIN orderOf :
          orderOf[id].isBuy \in BOOLEAN /\ orderOf[id].subticks \in Prices
    BY OrderFields DEF BookInv, BookTypes
  <2>2. ASSUME NEW id \in DOMAIN orderOf
        PROVE  LET level == levels[orderOf[id].isBuy][orderOf[id].subticks]
               IN  Book!Cardinality({k \in DOMAIN level : level[k] = id}) = 1
    <3>1. PICK level : level = levels[orderOf[id].isBuy][orderOf[id].subticks]
      OBVIOUS
    <3>2. Distinct(level) /\ id \in Ids(level)
      BY <2>1, <3>1 DEF BookInv, LevelsHold, LevelHolds
    <3>3. PICK k \in DOMAIN level : level[k] = id
      BY <3>2 DEF Ids
    <3>4. {j \in DOMAIN level : level[j] = id} = {k}
      BY <3>2, <3>3 DEF Distinct
    <3>5. Cardinality({j \in DOMAIN level : level[j] = id}) = 1
      BY <3>4, FS_Singleton
    <3> QED
      BY <3>1, <3>5, BookCardinality
  <2>3. ASSUME NEW isBuy \in BOOLEAN, NEW p \in Prices, NEW k \in DOMAIN levels[isBuy][p]
        PROVE  /\ levels[isBuy][p][k] \in DOMAIN orderOf
               /\ orderOf[levels[isBuy][p][k]].isBuy = isBuy
               /\ orderOf[levels[isBuy][p][k]].subticks = p
    <3>1. levels[isBuy][p][k] \in Ids(levels[isBuy][p])
      BY DEF Ids
    <3> QED
      BY <3>1 DEF BookInv, LevelsHold, LevelHolds
  <2>4. IndexSets /\ CancelSets /\ Book!BestExact
    BY DEF BookInv
  <2> QED
    BY <2>2, <2>3, <2>4, BookCardinality DEF Book!IndexesAgree, IndexSets, CancelSets
<1>2. Book!Init => BookInv
  BY BookInit
<1>3. BookInv /\ [Book!Next]_(Book!vars) => BookInv'
  BY BookStep
<1> QED
  <2>1. Book!IndexesAgree => IndexesAgree
    BY DEF IndexesAgree
  <2> QED
    BY <1>1, <1>2, <1>3, <2>1, PartsBook, PTL DEF Book!Spec

\* From every level of the book the search finds the next one, for every width and
\* tick and through every change of the tick: a scan that wraps around finds
\* nothing there, unless the tick divides 2^Width and the scan leaves the range;
\* only an ask at the largest price may be missed.
THEOREM ScanFindsNext ==
  ASSUME Book!WellFormed PROVE PartsSpec => []NextBestExact
<1>1. BookInv => Book!NextBestExact
  <2> SUFFICES ASSUME BookInv, NEW isBuy \in BOOLEAN, NEW p \in Book!Populated(levels[isBuy]),
                      Book!ScanInRange(levels[isBuy], p, isBuy),
                      NEW next, next = Book!FindNextBestSubticks(levels[isBuy], p, isBuy),
                      NEW worse, worse = Book!Worse(levels[isBuy], p, isBuy)
               PROVE  /\ next.found =>
                           /\ next.subticks \in worse
                           /\ \A q \in worse : ~Book!Better(isBuy, q, next.subticks)
                      /\ worse \ {Book!NoSubticks(isBuy)} # {} => next.found
    BY DEF Book!NextBestExact
  <2>1. PICK side : side = levels[isBuy]
    OBVIOUS
  <2>2. tick \in Nat \ {0} /\ Book!Populated(side) \subseteq TickPrices /\ p \in TickPrices
    BY <2>1, LevelsOnTick
  <2>3. \A i \in Book!Scanned(side, p, isBuy) :
          Book!Step(p, isBuy, i) = Unwrapped(p, isBuy, i)
    <3>1. CASE 2 ^ Width % tick # 0
      BY <2>2, <3>1, NoLevelBeyond
    <3>2. CASE 2 ^ Width % tick = 0
      <4>1. IF isBuy THEN Cardinality(Book!Populated(side)) * tick <= p
            ELSE p + Cardinality(Book!Populated(side)) * tick <= Book!MaxSubticks
        BY <2>1, <3>2, BookCardinality DEF Book!ScanInRange
      <4> QED
        BY <2>2, <4>1, NoWrapInRange
    <3> QED
      BY <3>1, <3>2
  <2>4. /\ IF worse = {} THEN next.subticks = Book!NoSubticks(isBuy)
           ELSE /\ next.subticks \in worse
                /\ \A q \in worse : ~Book!Better(isBuy, q, next.subticks)
        /\ next.found => worse # {}
        /\ worse \ {Book!NoSubticks(isBuy)} # {} => next.found
    BY <2>1, <2>2, <2>3, FindsNext
  <2> QED
    BY <2>4
<1>2. Book!Init => BookInv
  BY BookInit
<1>3. BookInv /\ [Book!Next]_(Book!vars) => BookInv'
  BY BookStep
<1> QED
  <2>1. Book!NextBestExact => NextBestExact
    BY DEF NextBestExact
  <2> QED
    BY <1>1, <1>2, <1>3, <2>1, PartsBook, PTL DEF Book!Spec

(***************************************************************************)
(* The fills of short-term orders.                                         *)
(*                                                                         *)
(* NoOverfill is not inductive: it says what was traded and not what the   *)
(* fill amounts remember of it.  FillsInv adds that a fill amount covers   *)
(* every order that is not a window past its GoodTilBlock (Covered) and    *)
(* every two of them together (PairCovered), and that it is kept that long *)
(* (KeptFor).  A match adds to both sides alike; a pruned amount is one    *)
(* nothing relies on.                                                      *)
(***************************************************************************)

Remembered(o) == height =< o.goodTilBlock + ShortBlockWindow

PlacedGood ==
  \A id \in SignedIds : placed[id] # None => height =< placed[id].goodTilBlock

Covered ==
  \A o \in SignedOrders : Remembered(o) => filledBy[o] =< fillState[o.id].fillAmount

PairCovered ==
  \A a, b \in SignedOrders :
    a # b /\ a.id = b.id /\ Remembered(a) /\ Remembered(b) =>
      filledBy[a] + filledBy[b] =< fillState[a.id].fillAmount

KeptFor ==
  \A o \in SignedOrders :
    filledBy[o] > 0 /\ fillState[o.id].fillAmount > 0 =>
      fillState[o.id].prunable >= o.goodTilBlock + ShortBlockWindow

FillsInv ==
  Fills!TypeOK /\ PlacedGood /\ Covered /\ PairCovered /\ KeptFor /\ Fills!PruneListed
    /\ Fills!NoOverfill


\* The fields of a signed order.
LEMMA SignedFields ==
  ASSUME Fills!WellFormed, NEW o \in SignedOrders
  PROVE  /\ o.id \in SignedIds
         /\ o.goodTilBlock \in Nat
         /\ o.hash \in Nat
         /\ o.isBuy \in BOOLEAN
         /\ o.quantums \in Nat \ {0}
  BY DEF Fills!WellFormed

\* Nothing is filled in the initial state.
LEMMA FillsInit ==
  ASSUME Fills!WellFormed, Fills!Init
  PROVE  FillsInv
  <1>1. Fills!TypeOK
    BY DEF Fills!WellFormed, Fills!Init, Fills!TypeOK, Fills!NonePlaced, Fills!NoFill, Fills!FillStates
  <1>2. PlacedGood /\ Covered /\ PairCovered /\ KeptFor /\ Fills!PruneListed
    BY SignedFields
    DEF Fills!Init, PlacedGood, Covered, PairCovered, KeptFor, Fills!PruneListed,
        Fills!NonePlaced, Fills!NoFill
  <1>3. Fills!NoOverfill
    BY SignedFields DEF Fills!Init, Fills!NoOverfill, Fills!LargerSize
  <1> QED BY <1>1, <1>2, <1>3 DEF FillsInv

\* Placing an order in the queue fills nothing.
LEMMA PlacedKeeps ==
  ASSUME Fills!WellFormed, FillsInv, NEW o \in SignedOrders, Fills!PlaceShortTermOrder(o)
  PROVE  FillsInv'
  <1> USE DEF FillsInv
  <1>1. Fills!TypeOK'
    <2>1. placed' \in [SignedIds -> SignedOrders \cup {None}]
      BY SignedFields DEF Fills!PlaceShortTermOrder, Fills!TypeOK
    <2>2. \A id \in SignedIds : placed'[id] # None => placed'[id].id = id
      BY SignedFields DEF Fills!PlaceShortTermOrder, Fills!TypeOK
    <2> QED BY <2>1, <2>2 DEF Fills!PlaceShortTermOrder, Fills!TypeOK
  <1>2. PlacedGood'
    BY SignedFields
    DEF Fills!PlaceShortTermOrder, Fills!TypeOK, PlacedGood, Fills!ValidGoodTilBlock
  <1>3. (Covered /\ PairCovered /\ KeptFor /\ Fills!PruneListed /\ Fills!NoOverfill)'
    BY DEF Fills!PlaceShortTermOrder, Covered, PairCovered, KeptFor, Fills!PruneListed,
           Fills!NoOverfill, Remembered
  <1> QED BY <1>1, <1>2, <1>3

\* What one step of setOrderFillAmountsAndPruning leaves behind, per order of S.
LEMMA FillEffect ==
  ASSUME Fills!WellFormed, Fills!TypeOK, NEW S \in SUBSET SignedOrders, NEW amount \in Nat \ {0},
         \A o, p \in S : o.id = p.id => o = p,
         Fills!SetOrderFillAmounts(S, amount)
  PROVE  /\ fillState' \in [SignedIds -> Fills!FillStates]
         /\ filledBy' \in [SignedOrders -> Nat]
         /\ pruneIndex' \subseteq Nat \X SignedIds
         /\ \A o \in S :
              /\ fillState'[o.id].fillAmount
                   = fillState[o.id].fillAmount + amount
              /\ fillState'[o.id].prunable = Fills!PrunableHeight(o)
              /\ <<Fills!PrunableHeight(o), o.id>> \in pruneIndex'
              /\ filledBy'[o] = filledBy[o] + amount
         /\ \A id \in SignedIds :
              (\A o \in S : o.id # id) => fillState'[id] = fillState[id]
         /\ \A o \in SignedOrders \ S : filledBy'[o] = filledBy[o]
         /\ pruneIndex \subseteq pruneIndex'
  <1>1. \A o \in S : /\ Fills!PrunableHeight(o) \in Nat
                     /\ Fills!PrunableHeight(o) >= fillState[o.id].prunable
                     /\ Fills!PrunableHeight(o) >= o.goodTilBlock + ShortBlockWindow
    <2> SUFFICES ASSUME NEW o \in S
                 PROVE  /\ Fills!PrunableHeight(o) \in Nat
                        /\ Fills!PrunableHeight(o) >= fillState[o.id].prunable
                        /\ Fills!PrunableHeight(o)
                             >= o.goodTilBlock + ShortBlockWindow
      OBVIOUS
    <2>1. /\ o.id \in SignedIds /\ o.goodTilBlock \in Nat
          /\ ShortBlockWindow \in Nat
      BY SignedFields DEF Fills!WellFormed
    <2>2. fillState[o.id].prunable \in Nat
      BY <2>1 DEF Fills!TypeOK, Fills!FillStates
    <2> QED BY <2>1, <2>2 DEF Fills!PrunableHeight
  <1>2. \A o \in S : (CHOOSE p \in S : p.id = o.id) = o
    OBVIOUS
  <1>3. \A o \in S :
          fillState'[o.id]
            = [fillAmount |-> fillState[o.id].fillAmount + amount,
               prunable |-> Fills!PrunableHeight(o)]
    BY <1>2, SignedFields DEF Fills!SetOrderFillAmounts
  <1>4. \A id \in SignedIds :
          (\A o \in S : o.id # id) => fillState'[id] = fillState[id]
    BY DEF Fills!SetOrderFillAmounts
  <1>5. fillState' \in [SignedIds -> Fills!FillStates]
    <2>1. DOMAIN fillState' = SignedIds /\ fillState' = [id \in SignedIds |-> fillState'[id]]
      BY DEF Fills!SetOrderFillAmounts
    <2>2. ASSUME NEW id \in SignedIds PROVE fillState'[id] \in Fills!FillStates
      <3>1. CASE \E o \in S : o.id = id
        <4>1. PICK o \in S : o.id = id
          BY <3>1
        <4>2. fillState[id].fillAmount + amount \in Nat
          BY DEF Fills!TypeOK, Fills!FillStates
        <4>3. fillState'[id] = [fillAmount |-> fillState[id].fillAmount + amount,
                                prunable |-> Fills!PrunableHeight(o)]
          BY <4>1, <1>3
        <4>4. Fills!PrunableHeight(o) \in Nat
          BY <4>1, <1>1
        <4> QED BY <4>2, <4>3, <4>4 DEF Fills!FillStates
      <3>2. CASE \A o \in S : o.id # id
        BY <3>2, <1>4 DEF Fills!TypeOK
      <3> QED BY <3>1, <3>2
    <2> QED BY <2>1, <2>2
  <1>6. filledBy' \in [SignedOrders -> Nat]
    BY DEF Fills!SetOrderFillAmounts, Fills!TypeOK
  <1>7. pruneIndex' \subseteq Nat \X SignedIds
    BY <1>1, SignedFields DEF Fills!SetOrderFillAmounts, Fills!AddedForPruning, Fills!TypeOK
  <1>8. \A o \in S : <<Fills!PrunableHeight(o), o.id>> \in pruneIndex'
    BY DEF Fills!SetOrderFillAmounts, Fills!AddedForPruning
  <1>9. /\ \A o \in S : filledBy'[o] = filledBy[o] + amount
        /\ \A o \in SignedOrders \ S : filledBy'[o] = filledBy[o]
        /\ pruneIndex \subseteq pruneIndex'
    BY DEF Fills!SetOrderFillAmounts
  <1>10. \A o \in S :
           /\ fillState'[o.id].fillAmount = fillState[o.id].fillAmount + amount
           /\ fillState'[o.id].prunable = Fills!PrunableHeight(o)
    <2> SUFFICES ASSUME NEW o \in S
                 PROVE  /\ fillState'[o.id].fillAmount
                             = fillState[o.id].fillAmount + amount
                        /\ fillState'[o.id].prunable = Fills!PrunableHeight(o)
      OBVIOUS
    <2>1. fillState'[o.id]
            = [fillAmount |-> fillState[o.id].fillAmount + amount,
               prunable |-> Fills!PrunableHeight(o)]
      BY <1>3
    <2> QED BY <2>1
  <1> QED BY <1>4, <1>5, <1>6, <1>7, <1>8, <1>9, <1>10

\* A match keeps the invariant, with one order (the other side is not a
\* short-term order) or with two.
LEMMA MatchKeeps ==
  ASSUME Fills!WellFormed, FillsInv, NEW S \in SUBSET SignedOrders, NEW amount \in Nat \ {0},
         \A o, p \in S : o.id = p.id => o = p,
         \A o \in S : placed[o.id] = o /\ Fills!FillFits(o, amount),
         Fills!SetOrderFillAmounts(S, amount),
         UNCHANGED <<height, placed>>
  PROVE  FillsInv'
  <1> USE DEF FillsInv
  <1>1. /\ fillState' \in [SignedIds -> Fills!FillStates]
        /\ filledBy' \in [SignedOrders -> Nat]
        /\ pruneIndex' \subseteq Nat \X SignedIds
        /\ \A o \in S :
             /\ fillState'[o.id].fillAmount = fillState[o.id].fillAmount + amount
             /\ fillState'[o.id].prunable = Fills!PrunableHeight(o)
             /\ <<Fills!PrunableHeight(o), o.id>> \in pruneIndex'
             /\ filledBy'[o] = filledBy[o] + amount
        /\ \A id \in SignedIds :
             (\A o \in S : o.id # id) => fillState'[id] = fillState[id]
        /\ \A o \in SignedOrders \ S : filledBy'[o] = filledBy[o]
        /\ pruneIndex \subseteq pruneIndex'
    BY FillEffect
  <1>2. \A o \in S :
          /\ o \in SignedOrders
          /\ o.id \in SignedIds
          /\ height =< o.goodTilBlock
          /\ fillState[o.id].fillAmount + amount =< o.quantums
          /\ Fills!PrunableHeight(o) \in Nat
          /\ Fills!PrunableHeight(o) >= fillState[o.id].prunable
          /\ Fills!PrunableHeight(o) >= o.goodTilBlock + ShortBlockWindow
    BY SignedFields
    DEF Fills!WellFormed, PlacedGood, Fills!FillFits, Fills!TypeOK, Fills!FillStates, Fills!PrunableHeight
  <1>3. \A id \in SignedIds : fillState[id].fillAmount \in Nat /\ fillState[id].prunable \in Nat
    BY DEF Fills!TypeOK, Fills!FillStates
  <1>4. height \in Nat /\ height' = height /\ placed' = placed
        /\ ShortBlockWindow \in Nat
    BY DEF Fills!WellFormed, Fills!TypeOK
  <1>5. \A o \in SignedOrders : filledBy[o] \in Nat
    BY DEF Fills!TypeOK
  <1>5a. /\ amount \in Nat
         /\ \A o \in S :
              /\ filledBy'[o] = filledBy[o] + amount
              /\ fillState'[o.id].fillAmount
                   = fillState[o.id].fillAmount + amount
    BY <1>1
  <1>6. Fills!TypeOK'
    <2>1. ASSUME NEW id \in SignedIds, fillState'[id].fillAmount > 0
          PROVE  \E o \in SignedOrders :
                   o.id = id /\ fillState'[id].fillAmount =< o.quantums
      <3>1. CASE \E o \in S : o.id = id
        <4>1. PICK o \in S : o.id = id
          BY <3>1
        <4>2. fillState'[id].fillAmount =< o.quantums
          BY <4>1, <1>1, <1>2
        <4> QED BY <4>1, <4>2
      <3>2. CASE \A o \in S : o.id # id
        BY <3>2, <2>1, <1>1 DEF Fills!TypeOK
      <3> QED BY <3>1, <3>2
    <2> QED BY <2>1, <1>1, <1>4 DEF Fills!TypeOK
  <1>7. PlacedGood'
    BY <1>4 DEF PlacedGood
  <1>8. Covered'
    <2> SUFFICES ASSUME NEW o \in SignedOrders, height =< o.goodTilBlock + ShortBlockWindow
                 PROVE  filledBy'[o] =< fillState'[o.id].fillAmount
      BY <1>4 DEF Covered, Remembered
    <2>1. filledBy[o] =< fillState[o.id].fillAmount
      BY DEF Covered, Remembered
    <2>2. CASE o \in S
      BY <2>1, <2>2, <1>5a, <1>3, <1>5, SignedFields
    <2>3. CASE o \notin S /\ \E p \in S : p.id = o.id
      <3>1. fillState'[o.id].fillAmount = fillState[o.id].fillAmount + amount
        BY <2>3, <1>5a
      <3>2. filledBy'[o] = filledBy[o]
        BY <2>3, <1>1
      <3> QED BY <3>1, <3>2, <2>1, <1>3, <1>5, SignedFields
    <2>4. CASE \A p \in S : p.id # o.id
      BY <2>1, <2>4, <1>1, SignedFields
    <2> QED BY <2>2, <2>3, <2>4
  <1>9. PairCovered'
    <2> SUFFICES ASSUME NEW a \in SignedOrders, NEW b \in SignedOrders,
                        a # b, a.id = b.id,
                        height =< a.goodTilBlock + ShortBlockWindow,
                        height =< b.goodTilBlock + ShortBlockWindow
                 PROVE  filledBy'[a] + filledBy'[b] =< fillState'[a.id].fillAmount
      BY <1>4 DEF PairCovered, Remembered
    <2>1. filledBy[a] + filledBy[b] =< fillState[a.id].fillAmount
      BY DEF PairCovered, Remembered
    <2>2. CASE a \in S
      <3>1. b \notin S
        BY <2>2
      <3>2. filledBy'[b] = filledBy[b]
        BY <3>1, <1>1
      <3> QED BY <3>2, <2>1, <2>2, <1>5a, <1>3, <1>5, SignedFields
    <2>3. CASE b \in S
      <3>1. a \notin S
        BY <2>3
      <3>2. filledBy'[a] = filledBy[a]
        BY <3>1, <1>1
      <3> QED BY <3>2, <2>1, <2>3, <1>5a, <1>3, <1>5, SignedFields
    <2>4. CASE a \notin S /\ b \notin S
      <3>1. filledBy'[a] = filledBy[a] /\ filledBy'[b] = filledBy[b]
        BY <2>4, <1>1
      <3>2. fillState'[a.id].fillAmount >= fillState[a.id].fillAmount
        <4>1. CASE \E p \in S : p.id = a.id
          BY <4>1, <1>5a, <1>3, SignedFields
        <4>2. CASE \A p \in S : p.id # a.id
          BY <4>2, <1>1, <1>3, SignedFields
        <4> QED BY <4>1, <4>2
      <3> QED BY <3>1, <3>2, <2>1, <1>1, <1>3, <1>5, SignedFields DEF Fills!FillStates
    <2> QED BY <2>2, <2>3, <2>4
  <1>10. KeptFor'
    <2> SUFFICES ASSUME NEW o \in SignedOrders, filledBy'[o] > 0,
                        fillState'[o.id].fillAmount > 0
                 PROVE  fillState'[o.id].prunable
                          >= o.goodTilBlock + ShortBlockWindow
      BY DEF KeptFor
    <2>0. o.id \in SignedIds /\ o.goodTilBlock \in Nat
      BY SignedFields
    <2>1. CASE o \in S
      BY <2>1, <1>1, <1>2
    <2>2. CASE o \notin S /\ \E p \in S : p.id = o.id
      <3>1. PICK p \in S : p.id = o.id
        BY <2>2
      <3>2. filledBy[o] > 0
        BY <2>2, <1>1
      <3>3. fillState'[o.id].prunable = Fills!PrunableHeight(p)
        BY <3>1, <1>1
      <3>4. CASE fillState[o.id].fillAmount > 0
        <4>1. fillState[o.id].prunable >= o.goodTilBlock + ShortBlockWindow
          BY <3>2, <3>4 DEF KeptFor
        <4> QED BY <4>1, <3>1, <3>3, <1>2, <1>3, <1>4, <2>0
      <3>5. CASE fillState[o.id].fillAmount = 0
        <4>1. height > o.goodTilBlock + ShortBlockWindow
          BY <3>2, <3>5, <1>4, <1>5, <2>0 DEF Covered, Remembered
        <4>2. p.goodTilBlock \in Nat /\ p.goodTilBlock >= height
          BY <3>1, <1>2, SignedFields
        <4> QED BY <4>1, <4>2, <3>3, <1>2, <1>4, <2>0
      <3> QED BY <3>4, <3>5, <1>3, <2>0
    <2>3. CASE \A p \in S : p.id # o.id
      <3>1. fillState'[o.id] = fillState[o.id] /\ filledBy'[o] = filledBy[o]
        BY <2>3, <2>0, <1>1
      <3> QED BY <3>1 DEF KeptFor
    <2> QED BY <2>1, <2>2, <2>3
  <1>11. Fills!PruneListed'
    <2> SUFFICES ASSUME NEW id \in SignedIds, fillState'[id].fillAmount > 0
                 PROVE  /\ <<fillState'[id].prunable, id>> \in pruneIndex'
                        /\ fillState'[id].prunable >= height
      BY <1>4 DEF Fills!PruneListed
    <2>1. CASE \E o \in S : o.id = id
      <3>1. PICK o \in S : o.id = id
        BY <2>1
      <3>2. o.goodTilBlock \in Nat
        BY <1>2, SignedFields
      <3>3. /\ fillState'[id].prunable = Fills!PrunableHeight(o)
            /\ <<Fills!PrunableHeight(o), id>> \in pruneIndex'
        BY <3>1, <1>1
      <3>4. Fills!PrunableHeight(o) >= height
        BY <3>2, <1>2, <1>4
      <3> QED BY <3>3, <3>4
    <2>2. CASE \A o \in S : o.id # id
      BY <2>2, <1>1 DEF Fills!PruneListed
    <2> QED BY <2>1, <2>2
  <1>12. Fills!NoOverfill'
    <2>1. ASSUME NEW o \in SignedOrders PROVE filledBy'[o] =< o.quantums
      <3>1. CASE o \in S
        <4>1. filledBy[o] =< fillState[o.id].fillAmount
          BY <3>1, <1>2, <1>4, SignedFields DEF Covered, Remembered
        <4>2. fillState[o.id].fillAmount + amount =< o.quantums
          BY <3>1, <1>2
        <4> QED BY <3>1, <4>1, <4>2, <1>5a, <1>3, <1>5, SignedFields
      <3>2. CASE o \notin S
        BY <3>2, <1>1 DEF Fills!NoOverfill
      <3> QED BY <3>1, <3>2
    <2>2. ASSUME NEW a \in SignedOrders, NEW b \in SignedOrders, Fills!Replaceable(a, b)
          PROVE  filledBy'[a] + filledBy'[b] =< Fills!LargerSize(a, b)
      <3>1. ASSUME NEW s \in S, NEW t \in SignedOrders, Fills!Replaceable(s, t)
            PROVE  filledBy'[s] + filledBy'[t] =< s.quantums
        <4>1. t \notin S /\ t.id = s.id
          BY <3>1 DEF Fills!Replaceable
        <4>2. Remembered(s) /\ Remembered(t)
          BY <3>1, <1>2, <1>4, SignedFields DEF Fills!Replaceable, Remembered
        <4>3. filledBy[s] + filledBy[t] =< fillState[s.id].fillAmount
          BY <4>2, <3>1, <1>2 DEF PairCovered, Fills!Replaceable
        <4>4. s.quantums \in Nat
          BY <1>2, SignedFields
        <4>5. filledBy'[s] = filledBy[s] + amount /\ filledBy'[t] = filledBy[t]
          BY <4>1, <1>1, <1>5a
        <4>6. fillState[s.id].fillAmount + amount =< s.quantums
          BY <1>2
        <4> QED BY <4>3, <4>4, <4>5, <4>6, <1>2, <1>3, <1>5
      <3>2. a.quantums =< Fills!LargerSize(a, b) /\ b.quantums =< Fills!LargerSize(a, b)
            /\ Fills!LargerSize(a, b) \in Nat /\ a.quantums \in Nat /\ b.quantums \in Nat
        BY SignedFields DEF Fills!LargerSize
      <3>3. filledBy'[a] \in Nat /\ filledBy'[b] \in Nat
        BY <1>1
      <3>4. CASE a \in S
        <4>1. filledBy'[a] + filledBy'[b] =< a.quantums
          BY <3>1, <3>4, <2>2
        <4> QED BY <4>1, <3>2, <3>3
      <3>5. CASE b \in S
        <4>1. Fills!Replaceable(b, a)
          BY <2>2 DEF Fills!Replaceable
        <4>2. filledBy'[b] + filledBy'[a] =< b.quantums
          BY <3>1, <3>5, <4>1
        <4> QED BY <4>2, <3>2, <3>3
      <3>6. CASE a \notin S /\ b \notin S
        BY <3>6, <2>2, <1>1 DEF Fills!NoOverfill
      <3> QED BY <3>4, <3>5, <3>6
    <2> QED BY <2>1, <2>2 DEF Fills!NoOverfill
  <1> QED BY <1>6, <1>7, <1>8, <1>9, <1>10, <1>11, <1>12

\* EndBlocker drops only amounts that nothing relies on.
LEMMA PruningKeeps ==
  ASSUME Fills!WellFormed, FillsInv, Fills!EndBlock
  PROVE  FillsInv'
  <1> USE DEF FillsInv
  <1>0. /\ height \in Nat /\ height' = height + 1 /\ ShortBlockWindow \in Nat
        /\ filledBy' = filledBy /\ placed' = Fills!NonePlaced
    BY DEF Fills!WellFormed, Fills!TypeOK, Fills!EndBlock
  <1>1. \A id \in SignedIds :
          /\ id \in Fills!Prunable => fillState'[id] = Fills!NoFill
          /\ id \notin Fills!Prunable => fillState'[id] = fillState[id]
    BY DEF Fills!EndBlock
  <1>2. \A id \in SignedIds : fillState[id].fillAmount \in Nat /\ fillState[id].prunable \in Nat
    BY DEF Fills!TypeOK, Fills!FillStates
  <1>3. \A o \in SignedOrders : filledBy[o] \in Nat
    BY DEF Fills!TypeOK
  <1>4. Fills!NoFill.fillAmount = 0
    BY DEF Fills!NoFill
  <1>5. ASSUME NEW o \in SignedOrders, o.id \in Fills!Prunable, filledBy[o] > 0
        PROVE  o.goodTilBlock + ShortBlockWindow =< height
    <2>1. o.goodTilBlock \in Nat /\ o.id \in SignedIds
      BY SignedFields
    <2>2. /\ fillState[o.id].fillAmount > 0
          /\ fillState[o.id].prunable =< height
      BY <1>5 DEF Fills!Prunable
    <2>3. fillState[o.id].prunable >= o.goodTilBlock + ShortBlockWindow
      BY <2>2, <1>5 DEF KeptFor
    <2> QED BY <2>1, <2>2, <2>3, <1>0, <1>2
  <1>6. Fills!TypeOK'
    <2>1. fillState' \in [SignedIds -> Fills!FillStates]
      BY DEF Fills!EndBlock, Fills!TypeOK, Fills!NoFill, Fills!FillStates
    <2>2. pruneIndex' \subseteq Nat \X SignedIds /\ height' \in 1 .. MaxHeight
      BY DEF Fills!WellFormed, Fills!EndBlock, Fills!TypeOK
    <2>3. ASSUME NEW id \in SignedIds, fillState'[id].fillAmount > 0
          PROVE  \E o \in SignedOrders :
                   o.id = id /\ fillState'[id].fillAmount =< o.quantums
      <3>1. fillState'[id] = fillState[id]
        BY <2>3, <1>1, <1>4
      <3> QED BY <3>1, <2>3 DEF Fills!TypeOK
    <2> QED BY <2>1, <2>2, <2>3, <1>0 DEF Fills!TypeOK, Fills!NonePlaced
  <1>7. PlacedGood'
    BY <1>0 DEF PlacedGood, Fills!NonePlaced
  <1>8. Covered'
    <2> SUFFICES ASSUME NEW o \in SignedOrders,
                        height + 1 =< o.goodTilBlock + ShortBlockWindow
                 PROVE  filledBy[o] =< fillState'[o.id].fillAmount
      BY <1>0 DEF Covered, Remembered
    <2>1. o.id \in SignedIds /\ o.goodTilBlock \in Nat
      BY SignedFields
    <2>2. filledBy[o] =< fillState[o.id].fillAmount
      BY <2>1, <1>0 DEF Covered, Remembered
    <2>3. CASE o.id \in Fills!Prunable
      <3>1. filledBy[o] = 0
        BY <2>3, <2>1, <1>5, <1>3, <1>0
      <3> QED BY <3>1, <2>3, <2>1, <1>1, <1>4
    <2>4. CASE o.id \notin Fills!Prunable
      BY <2>4, <2>1, <2>2, <1>1
    <2> QED BY <2>3, <2>4
  <1>9. PairCovered'
    <2> SUFFICES ASSUME NEW a \in SignedOrders, NEW b \in SignedOrders,
                        a # b, a.id = b.id,
                        height + 1 =< a.goodTilBlock + ShortBlockWindow,
                        height + 1 =< b.goodTilBlock + ShortBlockWindow
                 PROVE  filledBy[a] + filledBy[b] =< fillState'[a.id].fillAmount
      BY <1>0 DEF PairCovered, Remembered
    <2>1. a.id \in SignedIds /\ a.goodTilBlock \in Nat /\ b.goodTilBlock \in Nat
      BY SignedFields
    <2>2. filledBy[a] + filledBy[b] =< fillState[a.id].fillAmount
      BY <2>1, <1>0 DEF PairCovered, Remembered
    <2>3. CASE a.id \in Fills!Prunable
      <3>1. filledBy[a] = 0 /\ filledBy[b] = 0
        BY <2>3, <2>1, <1>5, <1>3, <1>0
      <3> QED BY <3>1, <2>3, <2>1, <1>1, <1>4
    <2>4. CASE a.id \notin Fills!Prunable
      BY <2>4, <2>1, <2>2, <1>1
    <2> QED BY <2>3, <2>4
  <1>10. KeptFor'
    <2> SUFFICES ASSUME NEW o \in SignedOrders, filledBy[o] > 0,
                        fillState'[o.id].fillAmount > 0
                 PROVE  fillState'[o.id].prunable
                          >= o.goodTilBlock + ShortBlockWindow
      BY <1>0 DEF KeptFor
    <2>1. fillState'[o.id] = fillState[o.id]
      BY <1>1, <1>4, SignedFields
    <2> QED BY <2>1 DEF KeptFor
  <1>11. Fills!PruneListed'
    <2> SUFFICES ASSUME NEW id \in SignedIds, fillState'[id].fillAmount > 0
                 PROVE  /\ <<fillState'[id].prunable, id>> \in pruneIndex'
                        /\ fillState'[id].prunable >= height + 1
      BY <1>0 DEF Fills!PruneListed
    <2>1. fillState'[id] = fillState[id] /\ id \notin Fills!Prunable
      BY <1>1, <1>4
    <2>2. /\ <<fillState[id].prunable, id>> \in pruneIndex
          /\ fillState[id].prunable >= height
      BY <2>1 DEF Fills!PruneListed
    <2>3. fillState[id].prunable # height
      BY <2>1, <2>2, <1>0, <1>2 DEF Fills!Prunable
    <2>4. <<fillState[id].prunable, id>>[1] = fillState[id].prunable
      OBVIOUS
    <2>5. <<fillState[id].prunable, id>> \in pruneIndex'
      BY <2>2, <2>3, <2>4 DEF Fills!EndBlock
    <2> QED BY <2>1, <2>2, <2>3, <2>5, <1>0, <1>2
  <1>12. Fills!NoOverfill'
    BY <1>0 DEF Fills!NoOverfill
  <1> QED BY <1>6, <1>7, <1>8, <1>9, <1>10, <1>11, <1>12

\* Every step of the specification keeps the invariant.
LEMMA FillsStep ==
  ASSUME Fills!WellFormed, FillsInv, [Fills!Next]_(Fills!vars)
  PROVE  FillsInv'
  <1>1. ASSUME NEW o \in SignedOrders, Fills!PlaceShortTermOrder(o)
        PROVE  FillsInv'
    BY <1>1, PlacedKeeps
  <1>2. ASSUME NEW taker \in SignedOrders, NEW maker \in SignedOrders,
               NEW amount \in Fills!Amounts(taker), Fills!MatchOrders(taker, maker, amount)
        PROVE  FillsInv'
    <2>1. amount \in Nat \ {0}
      BY SignedFields DEF Fills!Amounts
    <2>2. /\ \A o, p \in {taker, maker} : o.id = p.id => o = p
          /\ \A o \in {taker, maker} : placed[o.id] = o /\ Fills!FillFits(o, amount)
          /\ Fills!SetOrderFillAmounts({taker, maker}, amount)
          /\ UNCHANGED <<height, placed>>
      BY <1>2 DEF Fills!MatchOrders
    <2>3. {taker, maker} \in SUBSET SignedOrders
      OBVIOUS
    <2> QED BY <2>1, <2>2, <2>3, MatchKeeps
  <1>3. ASSUME NEW o \in SignedOrders, NEW amount \in Fills!Amounts(o),
               Fills!MatchOneOrder(o, amount)
        PROVE  FillsInv'
    <2>1. amount \in Nat \ {0}
      BY SignedFields DEF Fills!Amounts
    <2>2. /\ \A p, q \in {o} : p.id = q.id => p = q
          /\ \A p \in {o} : placed[p.id] = p /\ Fills!FillFits(p, amount)
          /\ Fills!SetOrderFillAmounts({o}, amount)
          /\ UNCHANGED <<height, placed>>
      BY <1>3 DEF Fills!MatchOneOrder
    <2>3. {o} \in SUBSET SignedOrders
      OBVIOUS
    <2> QED BY <2>1, <2>2, <2>3, MatchKeeps
  <1>4. CASE Fills!EndBlock
    BY <1>4, PruningKeeps
  <1>5. CASE UNCHANGED Fills!vars
    BY <1>5
    DEF Fills!vars, FillsInv, Fills!TypeOK, PlacedGood, Covered, PairCovered, KeptFor,
        Fills!PruneListed, Fills!NoOverfill, Remembered
  <1> QED BY <1>1, <1>2, <1>3, <1>4, <1>5 DEF Fills!Next

\* The inductive invariant holds in every reachable state.
LEMMA FillsInvHolds ==
  ASSUME Fills!WellFormed PROVE PartsSpec => []FillsInv
<1>1. Fills!Init => FillsInv
  BY FillsInit
<1>2. FillsInv /\ [Fills!Next]_(Fills!vars) => FillsInv'
  BY FillsStep
<1> QED
  BY <1>1, <1>2, PartsFills, PTL DEF Fills!Spec

\* ProcessSingleMatch never records a fill of the wrong type or size.
THEOREM FillTypes ==
  ASSUME Fills!WellFormed PROVE PartsSpec => []Fills!TypeOK
<1>1. FillsInv => Fills!TypeOK
  BY DEF FillsInv
<1> QED
  BY <1>1, FillsInvHolds, PTL

\* No sequence of placements, replacements, replays and prunings lets an order,
\* or an order and its replacement, trade more than its owner signed for.
THEOREM NeverOverfilled ==
  ASSUME Fills!WellFormed PROVE PartsSpec => []NoOverfill
<1>1. FillsInv => NoOverfill
  BY DEF FillsInv, NoOverfill
<1> QED
  BY <1>1, FillsInvHolds, PTL

\* The pruning index never misses a fill amount and never lags behind.
THEOREM AlwaysListed ==
  ASSUME Fills!WellFormed PROVE PartsSpec => []Fills!PruneListed
<1>1. FillsInv => Fills!PruneListed
  BY DEF FillsInv
<1> QED
  BY <1>1, FillsInvHolds, PTL

\* EndBlocker drops a fill amount no earlier than one window after the
\* GoodTilBlock of every order that was filled under the id.
THEOREM NeverForgottenEarly ==
  ASSUME Fills!WellFormed PROVE PartsSpec => ForgottenLate
  <1>1. ASSUME FillsInv, [Fills!Next]_(Fills!vars)
        PROVE  [part = "fills" => Fills!KeptWhileNeeded]_fills
    <2> SUFFICES ASSUME NEW o \in SignedOrders, filledBy[o] > 0,
                        fillState[o.id].fillAmount > 0,
                        fillState'[o.id].fillAmount = 0, Fills!Next
                 PROVE  height >= o.goodTilBlock + ShortBlockWindow
      BY <1>1 DEF Fills!KeptWhileNeeded, Fills!vars, fills
    <2>0. /\ o.id \in SignedIds /\ o.goodTilBlock \in Nat /\ height \in Nat
          /\ fillState[o.id].fillAmount \in Nat
          /\ fillState[o.id].prunable \in Nat
          /\ ShortBlockWindow \in Nat
      BY <1>1, SignedFields
      DEF Fills!WellFormed, FillsInv, Fills!TypeOK, Fills!FillStates
    <2>1. CASE Fills!EndBlock
      <3>1. o.id \in Fills!Prunable
        BY <2>0, <2>1 DEF Fills!EndBlock
      <3>2. fillState[o.id].prunable =< height
        BY <3>1 DEF Fills!Prunable
      <3>3. fillState[o.id].prunable >= o.goodTilBlock + ShortBlockWindow
        BY <1>1 DEF FillsInv, KeptFor
      <3> QED BY <2>0, <3>2, <3>3
    <2>2. ASSUME NEW p \in SignedOrders, Fills!PlaceShortTermOrder(p) PROVE FALSE
      BY <2>2 DEF Fills!PlaceShortTermOrder
    <2>3. ASSUME NEW S \in SUBSET SignedOrders, NEW amount \in Nat \ {0},
                 Fills!SetOrderFillAmounts(S, amount)
          PROVE  FALSE
      <3>1. fillState'[o.id].fillAmount >= fillState[o.id].fillAmount
        BY <2>0, <2>3 DEF Fills!SetOrderFillAmounts
      <3> QED BY <3>1, <2>0
    <2>4. ASSUME NEW taker \in SignedOrders, NEW maker \in SignedOrders,
                 NEW amount \in Fills!Amounts(taker), Fills!MatchOrders(taker, maker, amount)
          PROVE  FALSE
      <3>1. amount \in Nat \ {0} /\ {taker, maker} \in SUBSET SignedOrders
        BY SignedFields DEF Fills!Amounts
      <3> QED BY <2>3, <2>4, <3>1 DEF Fills!MatchOrders
    <2>5. ASSUME NEW p \in SignedOrders, NEW amount \in Fills!Amounts(p),
                 Fills!MatchOneOrder(p, amount)
          PROVE  FALSE
      <3>1. amount \in Nat \ {0} /\ {p} \in SUBSET SignedOrders
        BY SignedFields DEF Fills!Amounts
      <3> QED BY <2>3, <2>5, <3>1 DEF Fills!MatchOneOrder
    <2> QED BY <2>1, <2>2, <2>4, <2>5 DEF Fills!Next
  <1> QED BY <1>1, FillsInvHolds, PartsFills, PTL DEF Fills!Spec, ForgottenLate

(***************************************************************************)
(* The time-stamp nonces.                                                  *)
(***************************************************************************)

\* A number used before is either listed, or not above the last one ejected;
\* and what is listed is never below what was ejected, so that making room
\* does not lower MaxEjectedNonce.
Listed ==
  /\ \A u \in used : ~IsTimestampNonce(u) => u < sequence
  /\ \A u \in used : IsTimestampNonce(u) => found /\ (u \in nonces \/ u <= maxEjected)
  /\ \A x \in nonces : x >= maxEjected

IInv == TypeOK /\ Listed

USE NonceAssumption

(***************************************************************************)
(* Types of the nonces.                                                    *)
(***************************************************************************)

\* The nonces left after the stale ones are ejected are finite and no more
\* than before.
LEMMA KeptFits ==
  ASSUME TypeOK
  PROVE  /\ Kept \subseteq Nat /\ IsFiniteSet(Kept)
         /\ Cardinality(Kept) \in Nat /\ Cardinality(Kept) <= ArrSize
<1>1. Kept \subseteq nonces
  BY DEF Kept
<1>2. IsFiniteSet(nonces) /\ nonces \subseteq Nat
  BY DEF TypeOK
<1>3. IsFiniteSet(Kept) /\ Cardinality(Kept) <= Cardinality(nonces)
  BY <1>1, <1>2, FS_Subset
<1>4. Cardinality(Kept) \in Nat /\ Cardinality(nonces) \in Nat
  BY <1>2, <1>3, FS_CardinalityType
<1> QED
  BY <1>1, <1>2, <1>3, <1>4 DEF TypeOK

\* One more nonce fits when the array has room, and replaces another when not.
LEMMA TryNonceType ==
  ASSUME TypeOK, NEW n \in Nat, NEW m \in Nat, TryNonce(n, m)
  PROVE  /\ nonces' \subseteq Nat /\ IsFiniteSet(nonces')
         /\ Cardinality(nonces') <= ArrSize
         /\ maxEjected' \in Nat
<1>1. /\ Kept \subseteq Nat /\ IsFiniteSet(Kept)
      /\ Cardinality(Kept) \in Nat /\ Cardinality(Kept) <= ArrSize
  BY KeptFits
<1>2. n \notin Kept
  BY DEF TryNonce, Unlisted
<1>3. CASE HasRoom
  <2>1. nonces' = Kept \cup {n} /\ maxEjected' = m
    BY <1>3 DEF TryNonce
  <2>2. IsFiniteSet(nonces') /\ Cardinality(nonces') = Cardinality(Kept) + 1
    BY <1>1, <1>2, <2>1, FS_AddElement
  <2> QED
    BY <1>1, <1>3, <2>1, <2>2 DEF HasRoom
<1>4. CASE ~HasRoom
  <2>1. PICK s \in Kept : nonces' = (Kept \ {s}) \cup {n} /\ maxEjected' = s
    BY <1>4 DEF TryNonce
  <2>2. IsFiniteSet(Kept \ {s}) /\ Cardinality(Kept \ {s}) = Cardinality(Kept) - 1
    BY <1>1, FS_RemoveElement
  <2>3. IsFiniteSet(nonces') /\ Cardinality(nonces') = Cardinality(Kept \ {s}) + 1
    BY <1>2, <2>1, <2>2, FS_AddElement
  <2> QED
    BY <1>1, <2>1, <2>2, <2>3
<1> QED
  BY <1>3, <1>4

\* The last nonce ejected is a number, above what was ejected before and below
\* what is kept.
LEMMA EjectedBounds ==
  ASSUME IInv, NEW m, IsEjected(m)
  PROVE  /\ m \in Nat /\ maxEjected <= m
         /\ \A x \in Stale : x <= m
         /\ \A x \in Kept : m <= x
<1>1. now \in Nat /\ Past \in Nat /\ nonces \subseteq Nat /\ maxEjected \in Nat
  BY DEF IInv, TypeOK
<1>2. Stale \subseteq nonces /\ Kept \subseteq nonces
  BY DEF Stale, Kept
<1>3. m \in Nat /\ maxEjected <= m /\ \A x \in Stale : x <= m
  BY <1>1, <1>2 DEF IsEjected
<1>4. ASSUME NEW x \in Kept PROVE m <= x
  <2>1. CASE m = maxEjected
    BY <1>2, <2>1 DEF IInv, Listed
  <2>2. CASE m \in Stale
    BY <1>1, <1>2, <2>2 DEF Stale, Kept
  <2> QED
    BY <2>1, <2>2 DEF IsEjected
<1> QED
  BY <1>3, <1>4

(***************************************************************************)
(* The invariant of the nonces.                                            *)
(***************************************************************************)

\* What has been used stays listed or at most ejected when the list changes.
LEMMA TryNonceListed ==
  ASSUME IInv, NEW n \in Nat, NEW m, IsEjected(m), TryNonce(n, m)
  PROVE  /\ \A x \in nonces' : x >= maxEjected'
         /\ \A u \in Nat : u = n \/ u \in nonces \/ u <= maxEjected
                             => u \in nonces' \/ u <= maxEjected'
<1>1. /\ m \in Nat /\ maxEjected <= m
      /\ \A x \in Stale : x <= m
      /\ \A x \in Kept : m <= x
  BY EjectedBounds
<1>2. Kept \subseteq Nat /\ nonces \subseteq Nat /\ maxEjected \in Nat
  BY KeptFits DEF IInv, TypeOK
<1>3. nonces = Kept \cup Stale
  BY DEF Kept, Stale
<1>4. CASE HasRoom
  <2>1. nonces' = Kept \cup {n} /\ maxEjected' = m /\ n > m
    BY <1>4 DEF TryNonce
  <2> QED
    BY <1>1, <1>2, <1>3, <2>1
<1>5. CASE ~HasRoom
  <2>1. PICK s \in Kept : /\ nonces' = (Kept \ {s}) \cup {n} /\ maxEjected' = s
                          /\ LargerThanSmallest(n, s)
    BY <1>5 DEF TryNonce
  <2>2. n > s /\ \A x \in Kept : s <= x
    BY <2>1 DEF LargerThanSmallest, IsSmallest
  <2>3. m <= s /\ s \in Nat
    BY <1>1, <1>2
  <2> QED
    BY <1>1, <1>2, <1>3, <2>1, <2>2, <2>3
<1> QED
  BY <1>4, <1>5

\* The account starts with no nonce.
LEMMA InitIInv == Init => IInv
<1> SUFFICES ASSUME Init PROVE IInv
  OBVIOUS
<1>1. IsFiniteSet({}) /\ Cardinality({}) = 0
  BY FS_EmptySet
<1>2. TypeOK
  <2>1. found \in BOOLEAN /\ IsFiniteSet(nonces) /\ Cardinality(nonces) = 0
    BY <1>1, Zenon DEF Init
  <2> QED
    BY <2>1 DEF Init, TypeOK
<1>3. Listed
  BY DEF Init, Listed
<1> QED
  BY <1>2, <1>3 DEF IInv

\* A transaction with a time stamp.
LEMMA NonceStep ==
  ASSUME IInv, NEW n \in Nat, ProcessTimestampNonce(n)
  PROVE  IInv'
<1>1. UNCHANGED <<now, sequence>> /\ used' = used \cup {n} /\ n >= Cutoff
  BY DEF ProcessTimestampNonce, IsTimestampNonce
<1>2. used \subseteq Nat /\ maxEjected \in Nat /\ nonces \subseteq Nat
  BY DEF IInv, TypeOK
<1>3. CASE ~found /\ found' = TRUE /\ nonces' = {n} /\ maxEjected' = Cutoff
  <2>1. IsFiniteSet({n}) /\ Cardinality({n}) = 1
    BY FS_Singleton
  <2>2. TypeOK'
    BY <1>1, <1>2, <1>3, <2>1 DEF IInv, TypeOK
  <2>3. Listed'
    BY <1>1, <1>2, <1>3 DEF IInv, Listed, IsTimestampNonce
  <2> QED
    BY <2>2, <2>3 DEF IInv
<1>4. ASSUME found, UNCHANGED found, NEW m, IsEjected(m), TryNonce(n, m)
      PROVE  IInv'
  <2>1. m \in Nat
    BY <1>4, EjectedBounds
  <2>2. TypeOK
    BY DEF IInv
  <2>3. TypeOK'
    <3>1. /\ nonces' \subseteq Nat /\ IsFiniteSet(nonces')
          /\ Cardinality(nonces') <= ArrSize /\ maxEjected' \in Nat
      BY <1>4, <2>1, <2>2, TryNonceType
    <3> QED
      BY <1>1, <1>2, <1>4, <2>2, <3>1 DEF TypeOK
  <2>4. /\ \A x \in nonces' : x >= maxEjected'
        /\ \A u \in Nat : u = n \/ u \in nonces \/ u <= maxEjected
                            => u \in nonces' \/ u <= maxEjected'
    BY <1>4, TryNonceListed
  <2>5. \A u \in used' : ~IsTimestampNonce(u) => u < sequence'
    BY <1>1, <1>2 DEF IInv, Listed, IsTimestampNonce
  <2>6. \A u \in used' : IsTimestampNonce(u) => found' /\ (u \in nonces' \/ u <= maxEjected')
    BY <1>1, <1>2, <1>4, <2>4 DEF IInv, Listed
  <2>7. Listed'
    BY <2>4, <2>5, <2>6 DEF Listed, IsTimestampNonce
  <2> QED
    BY <2>3, <2>7 DEF IInv
<1> QED
  BY <1>3, <1>4 DEF ProcessTimestampNonce

\* Every step keeps the invariant.
LEMMA NextIInv == IInv /\ [Next]_vars => IInv'
<1> SUFFICES ASSUME IInv, [Next]_vars PROVE IInv'
  OBVIOUS
<1>1. Numbers \subseteq Nat
  BY DEF Numbers, IInv, TypeOK
<1>2. ASSUME NEW n \in Numbers, ProcessTimestampNonce(n) PROVE IInv'
  BY <1>1, <1>2, NonceStep
<1>3. ASSUME NEW n \in Numbers, ProcessSequence(n) PROVE IInv'
  <2>1. /\ n = sequence /\ sequence' = sequence + 1 /\ sequence' \in 0 .. MaxSequence
        /\ used' = used \cup {n} /\ UNCHANGED <<now, found, maxEjected, nonces>>
    BY <1>3 DEF ProcessSequence, state, IInv, TypeOK
  <2>2. TypeOK'
    BY <1>1, <2>1 DEF IInv, TypeOK
  <2>3. n < Cutoff /\ n \in Nat /\ sequence \in Nat /\ used \subseteq Nat
    BY <1>1, <1>3 DEF ProcessSequence, IsTimestampNonce, IInv, TypeOK
  <2>4. \A u \in used' : ~IsTimestampNonce(u) => u < sequence'
    BY <2>1, <2>3 DEF IInv, Listed, IsTimestampNonce
  <2>5. ASSUME NEW u \in used', IsTimestampNonce(u)
        PROVE  found' /\ (u \in nonces' \/ u <= maxEjected')
    <3>1. u \in used
      BY <2>1, <2>3, <2>5 DEF IsTimestampNonce
    <3>2. found /\ (u \in nonces \/ u <= maxEjected)
      BY <2>5, <3>1 DEF IInv, Listed
    <3> QED
      BY <2>1, <3>2
  <2>6. \A x \in nonces' : x >= maxEjected'
    BY <2>1 DEF IInv, Listed
  <2>7. Listed'
    BY <2>4, <2>5, <2>6 DEF Listed, IsTimestampNonce
  <2> QED
    BY <2>2, <2>7 DEF IInv
<1>4. ASSUME NEW t \in Start .. End, NextBlock(t) PROVE IInv'
  BY <1>4 DEF NextBlock, state, IInv, TypeOK, Listed, IsTimestampNonce
<1>5. CASE UNCHANGED vars
  BY <1>5 DEF vars, state, IInv, TypeOK, Listed, IsTimestampNonce
<1> QED
  BY <1>2, <1>3, <1>4, <1>5 DEF Next

\* The inductive invariant.
THEOREM Invariant == Spec => []IInv
<1> QED
  BY InitIInv, NextIInv, PTL DEF Spec

(***************************************************************************)
(* What the nonces promise.                                                *)
(***************************************************************************)

\* ProcessTimestampNonce keeps the types, and the list within its array.
THEOREM TypeCorrect == Spec => []TypeOK
<1>1. IInv => TypeOK
  BY DEF IInv
<1> QED
  BY <1>1, Invariant, PTL

\* What the ante handler accepted once it never accepts again: a listed nonce
\* is refused as a duplicate, one that has left the list as not above the last
\* ejected, and a sequence number because the account's has moved on.
THEOREM NeverReplayed == Spec => []NoReplay
<1>1. ASSUME IInv, NEW u \in used PROVE ~Accepts(u)
  <2>1. CASE IsTimestampNonce(u)
    <3> SUFFICES ASSUME Accepts(u) PROVE FALSE
      OBVIOUS
    <3>1. found /\ (u \in nonces \/ u <= maxEjected)
      BY <1>1, <2>1 DEF IInv, Listed
    <3>2. PICK m : IsEjected(m) /\ u > m /\ u \notin Kept
      BY <2>1, <3>1 DEF Accepts, Unlisted
    <3>3. m \in Nat /\ maxEjected <= m /\ \A x \in Stale : x <= m
      BY <1>1, <3>2, EjectedBounds
    <3>4. u \in Nat /\ maxEjected \in Nat
      BY <1>1 DEF IInv, TypeOK
    <3>5. u \in Stale \/ u <= maxEjected
      BY <3>1, <3>2 DEF Kept
    <3> QED
      BY <3>2, <3>3, <3>4, <3>5
  <2>2. CASE ~IsTimestampNonce(u)
    <3>1. u < sequence /\ u \in Nat /\ sequence \in Nat
      BY <1>1, <2>2 DEF IInv, Listed, TypeOK
    <3> QED
      BY <2>2, <3>1 DEF Accepts
  <2> QED
    BY <2>1, <2>2
<1>2. IInv => NoReplay
  BY <1>1 DEF NoReplay
<1> QED
  BY <1>2, Invariant, PTL
=============================================================================

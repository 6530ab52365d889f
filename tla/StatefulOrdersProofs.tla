------------------------ MODULE StatefulOrdersProofs ------------------------
(***************************************************************************)
(* Proofs about StatefulOrders, for any orders, subaccounts, prices and    *)
(* bounds.                                                                 *)
(*                                                                         *)
(* What the code reads is the one store fetchStateStoresForOrder picks, so *)
(* the argument is about that view: the lemmas ...View say what a step     *)
(* does to it, and the invariants follow from the view alone.              *)
(***************************************************************************)
EXTENDS StatefulOrders, FiniteSetTheorems, TLAPS

\* A fully filled order is in state only while the operations run, and then
\* it is reported as filled, so that the end of the operations removes it.
FullIsReported ==
  \A id \in Ids : fillAmount[id] = Quantums =>
    phase = "ops" /\ id \in events.filled

\* What the lists of the block may hold.
ListsInv ==
  /\ delivered.longTerm \subseteq LongTermIds
  /\ phase \in {"ops", "txs"} => events.expired = {}
  /\ phase = "committed" => \A id \in events.triggered : IsPlaced(id)

\* In mid-block a resting order is the one in state, or a list names it.
BookInv ==
  \A id \in Ids : book[id] # None =>
    \/ IsPlaced(id) /\ book[id] = GetLongTermOrderPlacement(id)
    \/ /\ phase # "checked"
       /\ id \in delivered.cancelled \cup events.expired \cup events.removed

StateInv ==
  /\ TypeOK
  /\ OneStore
  /\ ExpirationsExact
  /\ NoOrphanFill
  /\ FullIsReported
  /\ CountAgrees
  /\ ExpiredGone

\* The order is seen after the step as it was seen before it.
SameView(id) ==
  /\ FetchStore(id)' = FetchStore(id)
  /\ GetLongTermOrderPlacement(id)' = GetLongTermOrderPlacement(id)

-----------------------------------------------------------------------------
(* The view.                                                               *)

LEMMA FetchStoreType == \A id : FetchStore(id) \in Stores
BY DEF FetchStore, Stores

LEMMA UnchangedView ==
  ASSUME UNCHANGED store
  PROVE  \A id : SameView(id)
BY DEF SameView, FetchStore, GetLongTermOrderPlacement,
       IsConditionalOrderTriggered

\* An order in view is a placement.
LEMMA PlacementType ==
  ASSUME TypeOK, NEW id \in Ids
  PROVE  /\ GetLongTermOrderPlacement(id) \in Placements \cup {None}
         /\ Exists(id) => GetLongTermOrderPlacement(id) \in Placements
BY FetchStoreType DEF TypeOK, Exists, GetLongTermOrderPlacement

\* Deleting the orders S takes them out of view and leaves the others.
LEMMA RemovalView ==
  ASSUME TypeOK, OneStore, NEW S \in SUBSET Ids, store' = StoreWithout(S)
  PROVE  /\ store' \in [Stores -> [Ids -> Placements \cup {None}]]
         /\ OneStore'
         /\ \A id \in S : ~(Exists(id)')
         /\ \A id \in Ids \ S : SameView(id)
<1> USE FetchStoreType
<1>1. store' \in [Stores -> [Ids -> Placements \cup {None}]]
  BY DEF StoreWithout, TypeOK
<1>2. \A st \in Stores, id \in Ids :
        store'[st][id] = IF id \in S /\ st = FetchStore(id) THEN None
                                                          ELSE store[st][id]
  BY DEF StoreWithout
<1>3. \A id \in S, st \in Stores : store'[st][id] = None
  BY <1>2 DEF OneStore
<1>4. \A id \in S : ~(Exists(id)')
  BY <1>3 DEF Exists, GetLongTermOrderPlacement, FetchStore, Stores,
              IsConditionalOrderTriggered
<1>5. \A id \in Ids \ S, st \in Stores : store'[st][id] = store[st][id]
  BY <1>2
<1>6. \A id \in Ids \ S : SameView(id)
  BY <1>5 DEF SameView, GetLongTermOrderPlacement, FetchStore, Stores,
              IsConditionalOrderTriggered
<1>7. OneStore'
  BY <1>3, <1>5, <1>6 DEF OneStore, SameView
<1> QED
  BY <1>1, <1>4, <1>6, <1>7

\* The number of open orders when S leaves.
LEMMA RemovalCount ==
  ASSUME CountAgrees, NEW S \in SUBSET Ids, NEW s \in Subaccounts,
         \A id \in Ids : Exists(id)' <=> Exists(id) /\ id \notin S
  PROVE  /\ CountWithout(S)[s] = Cardinality(OpenOrders(s, Ids)')
         /\ CountWithout(S)[s] \in Nat
<1> DEFINE A == OpenOrders(s, Ids)
           B == OpenOrders(s, S)
<1>1. IsFiniteSet(A) /\ A \cap B = B
  <2>1. A \subseteq Ids /\ B \subseteq A
    BY DEF OpenOrders
  <2> QED
    BY <2>1, FS_Subset, StatefulOrdersAssumption
<1>2. /\ IsFiniteSet(A \ B)
      /\ Cardinality(A \ B) = Cardinality(A) - Cardinality(A \cap B)
  BY <1>1, FS_Difference
<1>3. OpenOrders(s, Ids)' = A \ B
  BY DEF OpenOrders
<1>4. Cardinality(A \ B) \in Nat
  BY <1>2, FS_CardinalityType
<1>5. CountWithout(S)[s] = Cardinality(A \ B)
  BY <1>1, <1>2, <1>4 DEF CountWithout, CountAgrees
<1> QED
  BY <1>3, <1>4, <1>5

\* The end of the block: S expired, T was triggered.
LEMMA EndBlockView ==
  ASSUME TypeOK, OneStore, NEW S \in SUBSET Ids, NEW T \in SUBSET ConditionalIds,
         T \cap S = {}, \A id \in T : store["Untriggered"][id] # None,
         store' = StoreAfterEndBlock(S, T)
  PROVE  /\ store' \in [Stores -> [Ids -> Placements \cup {None}]]
         /\ OneStore'
         /\ \A id \in S : ~(Exists(id)')
         /\ \A id \in Ids \ (S \cup T) : SameView(id)
         /\ \A id \in T : /\ FetchStore(id) = "Untriggered"
                          /\ Exists(id)
                          /\ IsPlaced(id)'
                          /\ GetLongTermOrderPlacement(id)'.gtbt
                               = GetLongTermOrderPlacement(id).gtbt
<1> USE FetchStoreType
<1>1. \A id \in T : TriggeredPlacement(id, T) \in Placements
  <2> SUFFICES ASSUME NEW id \in T
               PROVE  TriggeredPlacement(id, T) \in Placements
    OBVIOUS
  <2> DEFINE before == {other \in T : TriggeredBefore(other, id)}
  <2>1. IsFiniteSet(before)
    <3>1. before \subseteq Ids
      BY DEF Ids
    <3> QED
      BY <3>1, FS_Subset, StatefulOrdersAssumption
  <2>2. Cardinality(before) \in Nat
    BY <2>1, FS_CardinalityType
  <2>3. store["Untriggered"][id] \in Placements
    BY DEF TypeOK, Stores, Ids
  <2>4. height \in Heights /\ nextIndex \in Nat
    BY DEF TypeOK
  <2> HIDE DEF before
  <2>5. nextIndex + Cardinality(before) \in Nat
    BY <2>2, <2>4
  <2> QED
    BY <2>3, <2>4, <2>5 DEF TriggeredPlacement, Placements, before
<1>2. \A id \in T : TriggeredPlacement(id, T).gtbt = store["Untriggered"][id].gtbt
  BY DEF TypeOK, Stores, Ids, TriggeredPlacement, Placements
<1>3. /\ \A id \in Ids : store'["LongTerm"][id] = StoreWithout(S)["LongTerm"][id]
      /\ \A id \in Ids \ T : \A st \in Stores :
           store'[st][id] = StoreWithout(S)[st][id]
      /\ \A id \in T : /\ store'["Triggered"][id] = TriggeredPlacement(id, T)
                       /\ store'["Untriggered"][id] = None
      /\ DOMAIN store' = Stores
      /\ \A st \in Stores : store'[st] = [id \in Ids |-> store'[st][id]]
  BY DEF StoreAfterEndBlock, StoreWithout, Stores, Ids
<1>4. \A st \in Stores, id \in Ids :
        StoreWithout(S)[st][id] = IF id \in S /\ st = FetchStore(id) THEN None
                                                          ELSE store[st][id]
  BY DEF StoreWithout
<1>5. \A id \in T : /\ FetchStore(id) = "Untriggered"
                    /\ id \notin LongTermIds
                    /\ id \in Ids
                    /\ store["LongTerm"][id] = None
                    /\ store["Triggered"][id] = None
  BY StatefulOrdersAssumption DEF OneStore, Stores, Ids
<1>6. \A id \in S, st \in Stores : store'[st][id] = None
  BY <1>3, <1>4 DEF OneStore
<1>7. \A id \in Ids \ (S \cup T), st \in Stores : store'[st][id] = store[st][id]
  BY <1>3, <1>4
<1>8. \A id \in Ids \ (S \cup T) : SameView(id)
  BY <1>7 DEF SameView, GetLongTermOrderPlacement, FetchStore, Stores,
              IsConditionalOrderTriggered
<1>9. \A id \in S : ~(Exists(id)')
  BY <1>6 DEF Exists, GetLongTermOrderPlacement, FetchStore, Stores,
              IsConditionalOrderTriggered
<1>10. \A id \in T : /\ store'["LongTerm"][id] = None
                     /\ store'["Triggered"][id] = TriggeredPlacement(id, T)
                     /\ store'["Untriggered"][id] = None
                     /\ TriggeredPlacement(id, T) # None
  BY <1>1, <1>3, <1>4, <1>5, StatefulOrdersAssumption DEF Stores
<1>11. \A id \in T : /\ FetchStore(id)' = "Triggered"
                     /\ GetLongTermOrderPlacement(id)' = TriggeredPlacement(id, T)
  BY <1>5, <1>10 DEF FetchStore, IsConditionalOrderTriggered,
                     GetLongTermOrderPlacement
<1>12. \A id \in T : /\ Exists(id)
                     /\ GetLongTermOrderPlacement(id) = store["Untriggered"][id]
  BY <1>5 DEF Exists, GetLongTermOrderPlacement
<1>13. OneStore'
  BY <1>6, <1>7, <1>8, <1>10, <1>11 DEF OneStore, SameView, Stores
<1>14. store' \in [Stores -> [Ids -> Placements \cup {None}]]
  <2>1. \A st \in Stores, id \in Ids : store'[st][id] \in Placements \cup {None}
    BY <1>1, <1>6, <1>7, <1>10 DEF TypeOK, Stores
  <2> QED
    BY <1>3, <2>1 DEF StoreAfterEndBlock, StoreWithout
<1> QED
  BY <1>2, <1>8, <1>9, <1>10, <1>11, <1>12, <1>13, <1>14, <1>5
     DEF IsPlaced, Exists

-----------------------------------------------------------------------------
(* What removal keeps, whoever asks for it.                                *)

\* The four stores of the chain, as TypeOK has them.
ChainTypes ==
  /\ store \in [Stores -> [Ids -> Placements \cup {None}]]
  /\ expirations \subseteq Times \X Ids
  /\ fillAmount \in [Ids -> 0 .. Quantums]
  /\ orderCount \in [Subaccounts -> Nat]

LEMMA RemovalKeeps ==
  ASSUME StateInv, NEW S \in SUBSET Ids, MustRemoveStatefulOrders(S)
  PROVE  /\ ChainTypes'
         /\ OneStore' /\ ExpirationsExact' /\ NoOrphanFill' /\ CountAgrees'
         /\ \A id \in S : ~(Exists(id)') /\ fillAmount'[id] = 0
         /\ \A id \in Ids \ S : SameView(id) /\ fillAmount'[id] = fillAmount[id]
<1> USE DEF StateInv, MustRemoveStatefulOrders
<1>1. /\ store' \in [Stores -> [Ids -> Placements \cup {None}]]
      /\ OneStore'
      /\ \A id \in S : ~(Exists(id)')
      /\ \A id \in Ids \ S : SameView(id)
  BY RemovalView
<1>2. /\ fillAmount' \in [Ids -> 0 .. Quantums]
      /\ \A id \in S : fillAmount'[id] = 0
      /\ \A id \in Ids \ S : fillAmount'[id] = fillAmount[id]
  BY StatefulOrdersAssumption DEF FillsWithout, TypeOK
<1>3. expirations' \subseteq Times \X Ids
  BY DEF ExpirationsWithout, TypeOK
<1>4. /\ \A s \in Subaccounts :
           orderCount'[s] = Cardinality(OpenOrders(s, Ids)')
      /\ orderCount' \in [Subaccounts -> Nat]
  <2>1. \A s \in Subaccounts :
          /\ orderCount'[s] = Cardinality(OpenOrders(s, Ids)')
          /\ orderCount'[s] \in Nat
    <3>1. \A id \in Ids : Exists(id)' <=> Exists(id) /\ id \notin S
      BY <1>1 DEF SameView, Exists
    <3> QED
      BY <3>1, RemovalCount
  <2> QED
    BY <2>1 DEF CountWithout
<1>5. NoOrphanFill'
  <2> SUFFICES ASSUME NEW id \in Ids, fillAmount'[id] > 0
               PROVE  IsPlaced(id)'
    BY DEF NoOrphanFill
  <2>1. id \notin S /\ SameView(id) /\ IsPlaced(id)
    BY <1>1, <1>2 DEF NoOrphanFill
  <2> QED
    BY <2>1 DEF SameView, IsPlaced, Exists
<1>6. ExpirationsExact'
  BY <1>1 DEF ExpirationsExact, ExpirationsWithout, SameView, Exists
<1> QED
  BY <1>1, <1>2, <1>3, <1>4, <1>5, <1>6 DEF ChainTypes, CountAgrees

\* If nothing in the stores changes, nothing said of them does.
LEMMA SameStores ==
  ASSUME StateInv, UNCHANGED <<store, expirations, fillAmount, orderCount>>
  PROVE  /\ ChainTypes'
         /\ OneStore' /\ ExpirationsExact' /\ NoOrphanFill' /\ CountAgrees'
         /\ \A id : SameView(id)
<1>1. \A id : SameView(id) /\ (Exists(id)' <=> Exists(id))
                           /\ (IsPlaced(id)' <=> IsPlaced(id))
  BY UnchangedView DEF SameView, Exists, IsPlaced
<1>2. OneStore' /\ ExpirationsExact' /\ NoOrphanFill'
  BY <1>1 DEF StateInv, OneStore, ExpirationsExact, NoOrphanFill, SameView
<1>3. \A s \in Subaccounts : OpenOrders(s, Ids)' = OpenOrders(s, Ids)
  BY <1>1 DEF OpenOrders
<1>4. CountAgrees'
  BY <1>3 DEF StateInv, CountAgrees
<1> QED
  BY <1>1, <1>2, <1>4 DEF ChainTypes, StateInv, TypeOK

-----------------------------------------------------------------------------
(* StateInv, action by action.                                             *)

LEMMA StateInvInit == Init => StateInv
<1> SUFFICES ASSUME Init PROVE StateInv
  OBVIOUS
<1>1. \A id \in Ids, st \in Stores : store[st][id] = None
  BY DEF Init
<1>2. \A id \in Ids : ~Exists(id)
  BY <1>1, FetchStoreType DEF Exists, GetLongTermOrderPlacement
<1>3. TypeOK
  BY StatefulOrdersAssumption
     DEF Init, TypeOK, NoEvents, NoneDelivered, Heights, Times
<1>4. \A s \in Subaccounts : OpenOrders(s, Ids) = {}
  BY <1>2 DEF OpenOrders
<1>5. CountAgrees
  BY <1>4, FS_EmptySet DEF CountAgrees, Init
<1> QED
  BY <1>1, <1>2, <1>3, <1>5, StatefulOrdersAssumption
     DEF StateInv, OneStore, ExpirationsExact, NoOrphanFill, FullIsReported,
         ExpiredGone, Init

\* The reports and prices of the block, as TypeOK has them.
MemTypes ==
  /\ events \in [filled : SUBSET Ids, removed : SUBSET Ids,
                 expired : SUBSET Ids, triggered : SUBSET Ids]
  /\ delivered \in [longTerm : SUBSET Ids, conditional : SUBSET Ids,
                    cancelled : SUBSET Ids]
  /\ oracle \in OraclePrices
  /\ tradePrices \in [min : Nat, max : Nat] \cup {None}
  /\ book \in [Ids -> Placements \cup {None}]

ClockTypes ==
  /\ height \in Heights
  /\ prevTime \in Times
  /\ blockTime \in Times
  /\ phase \in {"ops", "txs", "committed", "checked"}
  /\ nextIndex \in Nat

LEMMA BeginBlockKeeps ==
  ASSUME StateInv, NEW t \in Times, NEW o \in OraclePrices, BeginBlock(t, o)
  PROVE  StateInv'
<1>1. ChainTypes' /\ OneStore' /\ ExpirationsExact' /\ NoOrphanFill' /\ CountAgrees'
  BY SameStores DEF BeginBlock
<1>2. ClockTypes'
  BY StatefulOrdersAssumption
     DEF StateInv, TypeOK, ClockTypes, BeginBlock, Heights, Times
<1>3. MemTypes'
  BY DEF StateInv, TypeOK, MemTypes, BeginBlock, NoEvents, NoneDelivered
<1>4. FullIsReported' /\ ExpiredGone'
  BY DEF StateInv, FullIsReported, ExpiredGone, BeginBlock
<1> QED
  BY <1>1, <1>2, <1>3, <1>4
     DEF StateInv, TypeOK, ChainTypes, MemTypes, ClockTypes

LEMMA MatchOrderKeeps ==
  ASSUME StateInv, NEW id \in Ids, NEW amount \in Nat, NEW p \in TradeSubticks,
         MatchOrder(id, amount, p)
  PROVE  StateInv'
<1> USE DEF StateInv
<1>1. \A i : SameView(i) /\ (Exists(i)' <=> Exists(i))
                         /\ (IsPlaced(i)' <=> IsPlaced(i))
  BY UnchangedView DEF SameView, Exists, IsPlaced, MatchOrder
<1>2. /\ fillAmount' \in [Ids -> 0 .. Quantums]
      /\ \A i \in Ids \ {id} : fillAmount'[i] = fillAmount[i]
  BY StatefulOrdersAssumption DEF MatchOrder, FillFits, TypeOK
<1>3. OneStore' /\ ExpirationsExact'
  BY <1>1 DEF OneStore, ExpirationsExact, SameView, MatchOrder
<1>4. NoOrphanFill'
  BY <1>1, <1>2 DEF NoOrphanFill, MatchOrder
<1>5. CountAgrees'
  BY <1>1 DEF CountAgrees, OpenOrders, MatchOrder
<1>6. tradePrices' \in [min : Nat, max : Nat] \cup {None}
  BY StatefulOrdersAssumption DEF TypeOK, MatchOrder, WithTradePrice
<1>7. /\ events' \in [filled : SUBSET Ids, removed : SUBSET Ids,
                      expired : SUBSET Ids, triggered : SUBSET Ids]
      /\ events'.filled = events.filled \cup {id}
  BY DEF TypeOK, MatchOrder
<1>8. TypeOK'
  BY <1>2, <1>6, <1>7 DEF TypeOK, MatchOrder, clockVars
<1>9. FullIsReported' /\ ExpiredGone'
  BY <1>2, <1>7 DEF FullIsReported, ExpiredGone, MatchOrder, clockVars
<1> QED
  BY <1>3, <1>4, <1>5, <1>8, <1>9

LEMMA RemoveOrderKeeps ==
  ASSUME StateInv, NEW id \in Ids, RemoveOrder(id)
  PROVE  StateInv'
<1>1. MustRemoveStatefulOrders({id})
  BY DEF RemoveOrder
<1>2. /\ ChainTypes'
      /\ OneStore' /\ ExpirationsExact' /\ NoOrphanFill' /\ CountAgrees'
      /\ fillAmount'[id] = 0
      /\ \A i \in Ids \ {id} : fillAmount'[i] = fillAmount[i]
  BY <1>1, RemovalKeeps
<1>3. MemTypes' /\ events'.filled = events.filled
  BY DEF StateInv, TypeOK, MemTypes, RemoveOrder
<1>4. ClockTypes'
  BY DEF StateInv, TypeOK, ClockTypes, RemoveOrder, clockVars
<1>5. FullIsReported' /\ ExpiredGone'
  BY <1>2, <1>3, StatefulOrdersAssumption
     DEF StateInv, FullIsReported, ExpiredGone, RemoveOrder
<1> QED
  BY <1>2, <1>3, <1>4, <1>5
     DEF StateInv, TypeOK, ChainTypes, MemTypes, ClockTypes

LEMMA EndOperationsKeeps ==
  ASSUME StateInv, EndOperations
  PROVE  StateInv'
<1> DEFINE full == {id \in Ids : FullyFilled(id)}
<1>1. MustRemoveStatefulOrders(full) /\ full \in SUBSET Ids
  BY DEF EndOperations
<1> HIDE DEF full
<1>2. /\ ChainTypes'
      /\ OneStore' /\ ExpirationsExact' /\ NoOrphanFill' /\ CountAgrees'
      /\ \A i \in full : fillAmount'[i] = 0
      /\ \A i \in Ids \ full : fillAmount'[i] = fillAmount[i]
  BY <1>1, RemovalKeeps
<1>3. MemTypes'
  BY DEF StateInv, TypeOK, MemTypes, EndOperations, ReportRemoved
<1>4. ClockTypes'
  BY DEF StateInv, TypeOK, ClockTypes, EndOperations, clockVars
<1>5. \A i \in Ids : fillAmount[i] = Quantums => i \in full
  BY StatefulOrdersAssumption
     DEF full, FullyFilled, StateInv, FullIsReported, NoOrphanFill, IsPlaced
<1>6. FullIsReported' /\ ExpiredGone'
  BY <1>2, <1>5, StatefulOrdersAssumption
     DEF FullIsReported, ExpiredGone, EndOperations
<1> QED
  BY <1>2, <1>3, <1>4, <1>6
     DEF StateInv, TypeOK, ChainTypes, MemTypes, ClockTypes

LEMMA CancelKeeps ==
  ASSUME StateInv, NEW id \in Ids, NEW g \in Times, CancelStatefulOrder(id, g)
  PROVE  StateInv'
<1>1. MustRemoveStatefulOrders({id})
  BY DEF CancelStatefulOrder
<1>2. /\ ChainTypes'
      /\ OneStore' /\ ExpirationsExact' /\ NoOrphanFill' /\ CountAgrees'
      /\ fillAmount'[id] = 0
      /\ \A i \in Ids \ {id} : fillAmount'[i] = fillAmount[i]
  BY <1>1, RemovalKeeps
<1>3. MemTypes'
  BY DEF StateInv, TypeOK, MemTypes, CancelStatefulOrder
<1>4. ClockTypes'
  BY DEF StateInv, TypeOK, ClockTypes, CancelStatefulOrder, clockVars
<1>5. FullIsReported' /\ ExpiredGone'
  BY <1>2, StatefulOrdersAssumption
     DEF StateInv, FullIsReported, ExpiredGone, CancelStatefulOrder
<1> QED
  BY <1>2, <1>3, <1>4, <1>5
     DEF StateInv, TypeOK, ChainTypes, MemTypes, ClockTypes

\* Placing is the only step that adds an order; its id is free.
LEMMA PlaceView ==
  ASSUME TypeOK, OneStore, NEW id \in Ids, NEW g \in Times,
         PlaceStatefulOrder(id, g)
  PROVE  /\ store' \in [Stores -> [Ids -> Placements \cup {None}]]
         /\ OneStore'
         /\ Exists(id)'
         /\ GetLongTermOrderPlacement(id)'.gtbt = g
         /\ ~Exists(id)
         /\ \A i \in Ids \ {id} : SameView(i)
<1> DEFINE placement == [gtbt |-> g, height |-> height, index |-> nextIndex]
<1> USE FetchStoreType
<1>1. placement \in Placements
  BY DEF TypeOK, Placements
<1>2. placement # None /\ placement.gtbt = g
  BY <1>1, StatefulOrdersAssumption
<1> HIDE DEF placement
<1>3. ~Exists(id) /\ store' = [store EXCEPT ![FetchStore(id)][id] = placement]
  BY DEF PlaceStatefulOrder, placement
<1>4. store' \in [Stores -> [Ids -> Placements \cup {None}]]
  BY <1>1, <1>3 DEF TypeOK
<1>5. /\ store'[FetchStore(id)][id] = placement
      /\ \A st \in Stores : st # FetchStore(id) => store'[st][id] = store[st][id]
      /\ \A st \in Stores, i \in Ids \ {id} : store'[st][i] = store[st][i]
  BY <1>3 DEF TypeOK
<1>6. \A st \in Stores : store[st][id] = None
  BY <1>3 DEF OneStore, Exists, GetLongTermOrderPlacement
<1>7. FetchStore(id) # "Triggered"
  BY <1>6 DEF FetchStore, IsConditionalOrderTriggered, Stores
<1>8. FetchStore(id)' = FetchStore(id)
  BY <1>5, <1>6, <1>7 DEF FetchStore, IsConditionalOrderTriggered, Stores
<1>9. GetLongTermOrderPlacement(id)' = placement
  BY <1>5, <1>8 DEF GetLongTermOrderPlacement
<1>10. \A i \in Ids \ {id} : SameView(i)
  BY <1>5 DEF SameView, GetLongTermOrderPlacement, FetchStore, Stores,
              IsConditionalOrderTriggered
<1>11. OneStore'
  BY <1>5, <1>6, <1>8, <1>10 DEF OneStore, SameView
<1> QED
  BY <1>2, <1>3, <1>4, <1>9, <1>10, <1>11 DEF Exists

LEMMA PlaceKeeps ==
  ASSUME StateInv, NEW id \in Ids, NEW g \in Times, PlaceStatefulOrder(id, g)
  PROVE  StateInv'
<1>1. /\ store' \in [Stores -> [Ids -> Placements \cup {None}]]
      /\ OneStore'
      /\ Exists(id)'
      /\ GetLongTermOrderPlacement(id)'.gtbt = g
      /\ ~Exists(id)
      /\ \A i \in Ids \ {id} : SameView(i)
  BY PlaceView DEF StateInv
<1>2. expirations' = expirations \cup {<<g, id>>} /\ fillAmount' = fillAmount
  BY DEF PlaceStatefulOrder
<1>3. \A i \in Ids : Exists(i)' <=> i = id \/ Exists(i)
  BY <1>1 DEF SameView, Exists
<1>4. ExpirationsExact'
  BY <1>1, <1>2, <1>3 DEF StateInv, ExpirationsExact, SameView
<1>5. NoOrphanFill'
  <2> SUFFICES ASSUME NEW i \in Ids, fillAmount'[i] > 0
               PROVE  IsPlaced(i)'
    BY DEF NoOrphanFill
  <2>1. IsPlaced(i) /\ i # id
    BY <1>1, <1>2 DEF StateInv, NoOrphanFill, IsPlaced
  <2> QED
    BY <1>1, <2>1 DEF IsPlaced, Exists, SameView
<1>11. orderCount' \in [Subaccounts -> Nat]
  BY StatefulOrdersAssumption DEF PlaceStatefulOrder, StateInv, TypeOK
<1>6. CountAgrees'
  <2> SUFFICES ASSUME NEW s \in Subaccounts
               PROVE  orderCount'[s] = Cardinality(OpenOrders(s, Ids)')
    BY DEF CountAgrees
  <2>1. OpenOrders(s, Ids)' = IF Owner[id] = s THEN OpenOrders(s, Ids) \cup {id}
                                               ELSE OpenOrders(s, Ids)
    BY <1>3 DEF OpenOrders
  <2>2. IsFiniteSet(OpenOrders(s, Ids)) /\ id \notin OpenOrders(s, Ids)
    <3>1. OpenOrders(s, Ids) \subseteq Ids
      BY DEF OpenOrders
    <3> QED
      BY <1>1, <3>1, FS_Subset, StatefulOrdersAssumption DEF OpenOrders
  <2>3. Cardinality(OpenOrders(s, Ids) \cup {id}) = Cardinality(OpenOrders(s, Ids)) + 1
    BY <2>2, FS_AddElement
  <2>4. orderCount'[s] = IF Owner[id] = s THEN orderCount[s] + 1 ELSE orderCount[s]
    BY StatefulOrdersAssumption DEF PlaceStatefulOrder, StateInv, TypeOK
  <2> QED
    BY <2>1, <2>3, <2>4 DEF StateInv, CountAgrees
<1>7. ChainTypes'
  BY <1>1, <1>2, <1>11 DEF ChainTypes, StateInv, TypeOK
<1>8. MemTypes'
  <2>1. delivered' \in [longTerm : SUBSET Ids, conditional : SUBSET Ids,
                        cancelled : SUBSET Ids]
    BY DEF PlaceStatefulOrder, Delivered, StateInv, TypeOK
  <2> QED
    BY <2>1 DEF StateInv, TypeOK, MemTypes, PlaceStatefulOrder
<1>9. ClockTypes'
  BY DEF StateInv, TypeOK, ClockTypes, PlaceStatefulOrder, clockVars
<1>10. FullIsReported' /\ ExpiredGone'
  BY <1>2 DEF StateInv, FullIsReported, ExpiredGone, PlaceStatefulOrder
<1> QED
  BY <1>1, <1>4, <1>5, <1>6, <1>7, <1>8, <1>9, <1>10
     DEF StateInv, TypeOK, ChainTypes, MemTypes, ClockTypes

\* The orders the end of a block takes out of state and those it triggers.
Expiring == {e[2] : e \in DueBy(blockTime)}

Triggering ==
  {id \in ConditionalIds \ Expiring :
     store["Untriggered"][id] # None /\ TriggeringPasses(id) # {}}

\* The index names exactly the orders whose time has come.
LEMMA ExpiringOrders ==
  ASSUME StateInv
  PROVE  /\ Expiring \in SUBSET Ids
         /\ \A id \in Ids :
              id \in Expiring <=>
                Exists(id) /\ GetLongTermOrderPlacement(id).gtbt <= blockTime
<1>1. \A e : e \in expirations <=>
        \E id \in Ids : /\ Exists(id)
                        /\ e = <<GetLongTermOrderPlacement(id).gtbt, id>>
  BY DEF StateInv, ExpirationsExact
<1>2. \A id : id \in Expiring <=>
        \E e \in expirations : e[1] <= blockTime /\ id = e[2]
  BY DEF Expiring, DueBy
<1>3. ASSUME NEW id \in Expiring
      PROVE  /\ id \in Ids
             /\ Exists(id)
             /\ GetLongTermOrderPlacement(id).gtbt <= blockTime
  <2>1. PICK e \in expirations : e[1] <= blockTime /\ id = e[2]
    BY <1>2
  <2>2. PICK i \in Ids : Exists(i) /\ e = <<GetLongTermOrderPlacement(i).gtbt, i>>
    BY <1>1
  <2> QED
    BY <2>1, <2>2
<1>4. ASSUME NEW id \in Ids, Exists(id),
             GetLongTermOrderPlacement(id).gtbt <= blockTime
      PROVE  id \in Expiring
  <2> DEFINE e == <<GetLongTermOrderPlacement(id).gtbt, id>>
  <2>1. e \in expirations /\ e[1] <= blockTime /\ e[2] = id
    BY <1>1, <1>4
  <2> QED
    BY <1>2, <2>1
<1> QED
  BY <1>3, <1>4

LEMMA EndBlockStores ==
  ASSUME StateInv, EndBlock
  PROVE  /\ store' \in [Stores -> [Ids -> Placements \cup {None}]]
         /\ OneStore'
         /\ \A id \in Expiring : ~(Exists(id)') /\ fillAmount'[id] = 0
         /\ \A id \in Ids \ Expiring : fillAmount'[id] = fillAmount[id]
         /\ \A id \in Ids \ (Expiring \cup Triggering) : SameView(id)
         /\ \A id \in Triggering : /\ FetchStore(id) = "Untriggered"
                                   /\ Exists(id)
                                   /\ IsPlaced(id)'
                                   /\ GetLongTermOrderPlacement(id)'.gtbt
                                        = GetLongTermOrderPlacement(id).gtbt
<1>1. /\ Expiring \in SUBSET Ids
      /\ Triggering \in SUBSET ConditionalIds
      /\ Triggering \cap Expiring = {}
      /\ \A id \in Triggering : store["Untriggered"][id] # None
  BY ExpiringOrders DEF Triggering
<1>2. store' = StoreAfterEndBlock(Expiring, Triggering)
  BY DEF EndBlock, Expiring, Triggering
<1>3. \A id \in Ids : fillAmount'[id] = IF id \in Expiring THEN 0 ELSE fillAmount[id]
  BY DEF EndBlock, Expiring, FillsAfterExpiry, FillsWithout
<1>4. TypeOK /\ OneStore
  BY DEF StateInv
<1> QED
  BY <1>1, <1>2, <1>3, <1>4, EndBlockView

LEMMA EndBlockKeeps ==
  ASSUME StateInv, EndBlock
  PROVE  StateInv'
<1> DEFINE X == Expiring
           T == Triggering
<1>1. /\ X \in SUBSET Ids
      /\ T \in SUBSET Ids
      /\ T \cap X = {}
      /\ \A id \in Ids : id \in X <=>
           Exists(id) /\ GetLongTermOrderPlacement(id).gtbt <= blockTime
  BY ExpiringOrders DEF Triggering, Ids
<1>2. /\ store' \in [Stores -> [Ids -> Placements \cup {None}]]
      /\ OneStore'
      /\ \A id \in X : ~(Exists(id)') /\ fillAmount'[id] = 0
      /\ \A id \in Ids \ X : fillAmount'[id] = fillAmount[id]
      /\ \A id \in Ids \ (X \cup T) : SameView(id)
      /\ \A id \in T : /\ FetchStore(id) = "Untriggered"
                       /\ Exists(id)
                       /\ IsPlaced(id)'
                       /\ GetLongTermOrderPlacement(id)'.gtbt
                            = GetLongTermOrderPlacement(id).gtbt
  BY EndBlockStores
<1>3. /\ expirations' = expirations \ DueBy(blockTime)
      /\ orderCount' = CountWithout(X)
      /\ nextIndex' = nextIndex + Cardinality(T)
      /\ events' = [events EXCEPT !.expired = X, !.triggered = T]
      /\ fillAmount' = FillsWithout(X)
      /\ phase = "txs"
      /\ phase' = "committed"
      /\ UNCHANGED <<height, prevTime, blockTime, delivered, oracle, tradePrices, book>>
  BY DEF EndBlock, Expiring, Triggering, FillsAfterExpiry, clockVars
<1> HIDE DEF X, T
<1>4. \A id \in Ids :
        /\ Exists(id)' <=> Exists(id) /\ id \notin X
        /\ id \notin X => GetLongTermOrderPlacement(id)'.gtbt
                            = GetLongTermOrderPlacement(id).gtbt
  BY <1>1, <1>2 DEF SameView, Exists, IsPlaced
<1>5. ExpirationsExact'
  BY <1>1, <1>3, <1>4 DEF StateInv, ExpirationsExact, DueBy
<1>6. NoOrphanFill'
  <2> SUFFICES ASSUME NEW id \in Ids, fillAmount'[id] > 0
               PROVE  IsPlaced(id)'
    BY DEF NoOrphanFill
  <2>1. id \notin X /\ IsPlaced(id)
    BY <1>2 DEF StateInv, NoOrphanFill
  <2>2. SameView(id)
    BY <1>2, <2>1 DEF IsPlaced
  <2> QED
    BY <2>1, <2>2 DEF IsPlaced, Exists, SameView
<1>7. CountAgrees' /\ orderCount' \in [Subaccounts -> Nat]
  <2>1. \A s \in Subaccounts : /\ CountWithout(X)[s] = Cardinality(OpenOrders(s, Ids)')
                               /\ CountWithout(X)[s] \in Nat
    BY <1>1, <1>4, RemovalCount DEF StateInv
  <2> QED
    BY <1>3, <2>1 DEF CountAgrees, CountWithout
<1>8. ChainTypes'
  BY <1>1, <1>2, <1>3, <1>7, StatefulOrdersAssumption
     DEF ChainTypes, StateInv, TypeOK, FillsWithout
<1>9. MemTypes'
  BY <1>1, <1>3 DEF StateInv, TypeOK, MemTypes
<1>10. ClockTypes'
  <2>1. Cardinality(T) \in Nat
    BY <1>1, FS_Subset, FS_CardinalityType, StatefulOrdersAssumption
  <2> QED
    BY <1>3, <2>1 DEF StateInv, TypeOK, ClockTypes
<1>11. ExpiredGone'
  <2>1. \A id \in Ids : Exists(id) => GetLongTermOrderPlacement(id).gtbt \in Nat
    BY PlacementType DEF StateInv, Placements, Times
  <2> QED
    BY <1>1, <1>3, <1>4, <2>1 DEF ExpiredGone, StateInv, TypeOK, Times
<1>12. FullIsReported'
  BY <1>1, <1>2, <1>3, StatefulOrdersAssumption DEF StateInv, FullIsReported
<1> QED
  BY <1>2, <1>5, <1>6, <1>7, <1>8, <1>9, <1>10, <1>11, <1>12
     DEF StateInv, TypeOK, ChainTypes, MemTypes, ClockTypes

LEMMA PrepareCheckStateKeeps ==
  ASSUME StateInv, PrepareCheckState
  PROVE  StateInv'
<1>1. ChainTypes' /\ OneStore' /\ ExpirationsExact' /\ NoOrphanFill' /\ CountAgrees'
  BY SameStores DEF PrepareCheckState, chainVars
<1>2. \A id : SameView(id)
  BY SameStores DEF PrepareCheckState, chainVars
<1>3. ClockTypes'
  BY DEF StateInv, TypeOK, ClockTypes, PrepareCheckState, clockVars, chainVars
<1>4. book' \in [Ids -> Placements \cup {None}]
  <2>1. \A id \in Ids : /\ GetLongTermOrderPlacement(id) \in Placements \cup {None}
                        /\ BookAfterPurge[id] \in Placements \cup {None}
    BY PlacementType DEF StateInv, TypeOK, BookAfterPurge
  <2> QED
    BY <2>1 DEF PrepareCheckState
<1>5. MemTypes'
  BY <1>4 DEF StateInv, TypeOK, MemTypes, PrepareCheckState
<1>6. FullIsReported'
  BY DEF StateInv, FullIsReported, PrepareCheckState, chainVars
<1>7. ExpiredGone'
  BY <1>2 DEF StateInv, ExpiredGone, PrepareCheckState, clockVars, SameView, Exists
<1> QED
  BY <1>1, <1>3, <1>5, <1>6, <1>7
     DEF StateInv, TypeOK, ChainTypes, MemTypes, ClockTypes

LEMMA RestartKeeps ==
  ASSUME StateInv, Restart
  PROVE  StateInv'
<1>1. \A id : SameView(id) /\ (Exists(id)' <=> Exists(id))
                           /\ (IsPlaced(id)' <=> IsPlaced(id))
  BY UnchangedView DEF Restart, SameView, Exists, IsPlaced
<1>2. OneStore' /\ ExpirationsExact' /\ NoOrphanFill'
  BY <1>1 DEF StateInv, OneStore, ExpirationsExact, NoOrphanFill, SameView, Restart
<1>3. /\ \A s \in Subaccounts : orderCount'[s] = Cardinality(OpenOrders(s, Ids))
      /\ orderCount' \in [Subaccounts -> Nat]
  BY DEF Restart, CountInState, StateInv, CountAgrees, TypeOK
<1>4. CountAgrees'
  BY <1>1, <1>3 DEF CountAgrees, OpenOrders
<1>5. ChainTypes'
  BY <1>3 DEF StateInv, TypeOK, ChainTypes, Restart
<1>6. ClockTypes'
  BY DEF StateInv, TypeOK, ClockTypes, Restart, clockVars
<1>7. book' \in [Ids -> Placements \cup {None}]
  <2>1. \A id \in Ids : GetLongTermOrderPlacement(id) \in Placements \cup {None}
    BY PlacementType DEF StateInv
  <2> QED
    BY <2>1 DEF Restart
<1>8. MemTypes'
  BY <1>7 DEF StateInv, TypeOK, MemTypes, Restart, NoEvents, NoneDelivered
<1>9. FullIsReported'
  BY DEF StateInv, FullIsReported, Restart
<1>10. ExpiredGone'
  BY <1>1 DEF StateInv, ExpiredGone, Restart, clockVars, SameView
<1> QED
  BY <1>2, <1>4, <1>5, <1>6, <1>8, <1>9, <1>10
     DEF StateInv, TypeOK, ChainTypes, MemTypes, ClockTypes

\* The invariant that carries the others.
THEOREM StateInvHolds == Spec => []StateInv
<1>1. Init => StateInv
  BY StateInvInit
<1>2. StateInv /\ [Next]_vars => StateInv'
  <2> SUFFICES ASSUME StateInv, [Next]_vars PROVE StateInv'
    OBVIOUS
  <2>1. ASSUME NEW t \in Times, NEW o \in OraclePrices, BeginBlock(t, o)
        PROVE  StateInv'
    BY <2>1, BeginBlockKeeps
  <2>2. ASSUME NEW id \in Ids, NEW amount \in 1 .. Quantums,
               NEW p \in TradeSubticks, MatchOrder(id, amount, p)
        PROVE  StateInv'
    <3>1. amount \in Nat
      BY StatefulOrdersAssumption
    <3> QED
      BY <2>2, <3>1, MatchOrderKeeps
  <2>3. ASSUME NEW id \in Ids, RemoveOrder(id) PROVE StateInv'
    BY <2>3, RemoveOrderKeeps
  <2>4. CASE EndOperations
    BY <2>4, EndOperationsKeeps
  <2>5. ASSUME NEW id \in Ids, NEW g \in Times, PlaceStatefulOrder(id, g)
        PROVE  StateInv'
    BY <2>5, PlaceKeeps
  <2>6. ASSUME NEW id \in Ids, NEW g \in Times, CancelStatefulOrder(id, g)
        PROVE  StateInv'
    BY <2>6, CancelKeeps
  <2>7. CASE EndBlock
    BY <2>7, EndBlockKeeps
  <2>8. CASE PrepareCheckState
    BY <2>8, PrepareCheckStateKeeps
  <2>9. CASE Restart
    BY <2>9, RestartKeeps
  <2>10. CASE UNCHANGED vars
    <3>1. ChainTypes' /\ OneStore' /\ ExpirationsExact' /\ NoOrphanFill' /\ CountAgrees'
          /\ \A id : SameView(id)
      BY <2>10, SameStores DEF vars, chainVars
    <3> QED
      BY <2>10, <3>1
         DEF StateInv, TypeOK, FullIsReported, ExpiredGone, SameView, Exists,
             vars, clockVars, chainVars, memVars
  <2> QED
    BY <2>1, <2>2, <2>3, <2>4, <2>5, <2>6, <2>7, <2>8, <2>9, <2>10 DEF Next
<1> QED
  BY <1>1, <1>2, PTL DEF Spec

\* Type correctness: in particular no order is ever filled beyond its size.
THEOREM TypeCorrect == Spec => []TypeOK
<1>1. StateInv => TypeOK
  BY DEF StateInv
<1> QED
  BY <1>1, StateInvHolds, PTL

\* The stores of one order never disagree: expiration index, the choice
\* between the two conditional stores, fill amounts and, across restarts, the
\* count checked against the equity tier limit.
THEOREM OrderStoresAgree ==
  Spec => [](ExpirationsExact /\ OneStore /\ NoOrphanFill /\ CountAgrees)
<1>1. StateInv => ExpirationsExact /\ OneStore /\ NoOrphanFill /\ CountAgrees
  BY DEF StateInv
<1> QED
  BY <1>1, StateInvHolds, PTL

\* The count of open stateful orders that the equity tier check reads is the
\* number of orders in state, though InitMemStore rebuilds it from the stores
\* and every other step only adds or subtracts.
THEOREM CountsExact == Spec => []CountAgrees
<1>1. StateInv => CountAgrees
  BY DEF StateInv
<1> QED
  BY <1>1, StateInvHolds, PTL

\* No stateful order outlives its GoodTilBlockTime.
THEOREM NoneOutlives == Spec => []ExpiredGone
<1>1. StateInv => ExpiredGone
  BY DEF StateInv
<1> QED
  BY <1>1, StateInvHolds, PTL

-----------------------------------------------------------------------------
(* The order book.  Whatever a step takes out of state it also puts on one *)
(* of the lists PrepareCheckState purges by.                               *)

BlockInv == StateInv /\ ListsInv /\ BookInv

\* A step that keeps the book and its order in view, and drops nothing from
\* the lists, keeps what BookInv says of that order.
LEMMA StillCovered ==
  ASSUME BookInv, NEW id \in Ids, book' = book, SameView(id),
         phase # "checked" => phase' # "checked",
         delivered.cancelled \subseteq delivered'.cancelled,
         events.removed \subseteq events'.removed,
         events.expired \subseteq events'.expired,
         book'[id] # None
  PROVE  \/ IsPlaced(id)' /\ book'[id] = GetLongTermOrderPlacement(id)'
         \/ /\ phase' # "checked"
            /\ id \in delivered'.cancelled \cup events'.expired \cup events'.removed
BY DEF BookInv, SameView, IsPlaced, Exists

LEMMA RemovalCovered ==
  ASSUME StateInv, BookInv, NEW S \in SUBSET Ids, MustRemoveStatefulOrders(S),
         book' = book, phase' # "checked",
         delivered.cancelled \subseteq delivered'.cancelled,
         events.removed \subseteq events'.removed,
         events.expired \subseteq events'.expired,
         S \subseteq delivered'.cancelled \cup events'.removed
  PROVE  BookInv'
<1>1. \A id \in Ids \ S : SameView(id)
  BY RemovalKeeps
<1> SUFFICES ASSUME NEW id \in Ids, book'[id] # None
             PROVE  \/ IsPlaced(id)' /\ book'[id] = GetLongTermOrderPlacement(id)'
                    \/ /\ phase' # "checked"
                       /\ id \in delivered'.cancelled \cup events'.expired
                                 \cup events'.removed
  BY DEF BookInv
<1>2. CASE id \in S
  BY <1>2
<1>3. CASE id \notin S
  BY <1>1, <1>3, StillCovered
<1> QED
  BY <1>2, <1>3

LEMMA BlockInvInit == Init => BlockInv
BY StateInvInit
   DEF Init, BlockInv, ListsInv, BookInv, NoEvents, NoneDelivered

LEMMA BookEndBlock ==
  ASSUME BlockInv, EndBlock
  PROVE  ListsInv' /\ BookInv'
<1>1. /\ \A id \in Ids \ (Expiring \cup Triggering) : SameView(id)
      /\ \A id \in Triggering : FetchStore(id) = "Untriggered" /\ IsPlaced(id)'
  BY EndBlockStores DEF BlockInv
<1>2. /\ events'.expired = Expiring
      /\ events'.triggered = Triggering
      /\ events'.removed = events.removed
      /\ delivered' = delivered /\ book' = book
      /\ phase = "txs" /\ phase' = "committed"
  BY DEF EndBlock, Expiring, Triggering, BlockInv, StateInv, TypeOK
<1>3. ListsInv'
  BY <1>1, <1>2 DEF BlockInv, ListsInv
<1>4. BookInv'
  <2> SUFFICES ASSUME NEW id \in Ids, book'[id] # None
               PROVE  \/ IsPlaced(id)' /\ book'[id] = GetLongTermOrderPlacement(id)'
                      \/ /\ phase' # "checked"
                         /\ id \in delivered'.cancelled \cup events'.expired
                                   \cup events'.removed
    BY DEF BookInv
  <2>1. CASE id \in Expiring
    BY <1>2, <2>1
  <2>2. CASE id \in Triggering
    BY <1>1, <1>2, <2>2 DEF BlockInv, BookInv, ListsInv, IsPlaced
  <2>3. CASE id \notin Expiring \cup Triggering
    BY <1>1, <1>2, <2>3, StillCovered DEF BlockInv, ListsInv
  <2> QED
    BY <2>1, <2>2, <2>3
<1> QED
  BY <1>3, <1>4

LEMMA BookPrepareCheckState ==
  ASSUME BlockInv, PrepareCheckState
  PROVE  ListsInv' /\ BookInv'
<1>1. \A id : SameView(id)
  BY UnchangedView DEF PrepareCheckState, chainVars
<1>2. ListsInv'
  BY DEF BlockInv, ListsInv, PrepareCheckState
<1>3. PICK accepted \in SUBSET {id \in delivered.longTerm \cup events.triggered :
                                  Exists(id) /\ CanRest(id, BookAfterPurge[id])} :
        book' = [id \in Ids |-> IF id \in accepted
                                  THEN GetLongTermOrderPlacement(id)
                                  ELSE BookAfterPurge[id]]
  BY DEF PrepareCheckState
<1>4. \A id \in accepted : IsPlaced(id)
  BY <1>3 DEF BlockInv, ListsInv, IsPlaced, FetchStore, PrepareCheckState
<1>5. \A id \in Ids : BookAfterPurge[id] # None =>
        IsPlaced(id) /\ BookAfterPurge[id] = GetLongTermOrderPlacement(id)
  BY DEF BookAfterPurge, Purged, BlockInv, BookInv
<1>6. BookInv'
  BY <1>1, <1>3, <1>4, <1>5 DEF BookInv, SameView, IsPlaced, Exists
<1> QED
  BY <1>2, <1>6

LEMMA BookStep ==
  ASSUME BlockInv, [Next]_vars
  PROVE  ListsInv' /\ BookInv'
<1> USE DEF BlockInv
<1>1. ASSUME NEW t \in Times, NEW o \in OraclePrices, BeginBlock(t, o)
      PROVE  ListsInv' /\ BookInv'
  <2>1. \A id : SameView(id)
    BY <1>1, UnchangedView DEF BeginBlock
  <2>2. BookInv'
    BY <1>1, <2>1 DEF BookInv, BeginBlock, SameView, IsPlaced, Exists
  <2> QED
    BY <1>1, <2>2 DEF ListsInv, BeginBlock, NoEvents, NoneDelivered
<1>2. ASSUME NEW id \in Ids, NEW amount \in 1 .. Quantums,
             NEW p \in TradeSubticks, MatchOrder(id, amount, p)
      PROVE  ListsInv' /\ BookInv'
  <2>1. \A i : SameView(i)
    BY <1>2, UnchangedView DEF MatchOrder
  <2>2. /\ events'.removed = events.removed /\ events'.expired = events.expired
        /\ UNCHANGED <<delivered, book, phase>> /\ phase = "ops"
    BY <1>2 DEF MatchOrder, StateInv, TypeOK
  <2>3. BookInv'
    BY <2>1, <2>2 DEF BookInv, SameView, IsPlaced, Exists
  <2> QED
    BY <2>2, <2>3 DEF ListsInv
<1>3. ASSUME NEW id \in Ids, RemoveOrder(id)
      PROVE  ListsInv' /\ BookInv'
  <2>1. /\ events'.removed = events.removed \cup {id}
        /\ events'.expired = events.expired
        /\ UNCHANGED <<delivered, book, phase>> /\ phase = "ops"
        /\ MustRemoveStatefulOrders({id})
    BY <1>3 DEF RemoveOrder, StateInv, TypeOK
  <2>2. BookInv'
    BY <2>1, RemovalCovered
  <2> QED
    BY <2>1, <2>2 DEF ListsInv
<1>4. CASE EndOperations
  <2> DEFINE full == {id \in Ids : FullyFilled(id)}
  <2>1. /\ events'.removed = events.removed \cup full
        /\ events'.expired = events.expired
        /\ UNCHANGED <<delivered, book>> /\ phase = "ops" /\ phase' = "txs"
        /\ MustRemoveStatefulOrders(full) /\ full \in SUBSET Ids
    BY <1>4 DEF EndOperations, ReportRemoved, StateInv, TypeOK
  <2> HIDE DEF full
  <2>2. BookInv'
    BY <2>1, RemovalCovered
  <2> QED
    BY <2>1, <2>2 DEF ListsInv
<1>5. ASSUME NEW id \in Ids, NEW g \in Times, PlaceStatefulOrder(id, g)
      PROVE  ListsInv' /\ BookInv'
  <2>1. ~Exists(id) /\ \A i \in Ids \ {id} : SameView(i)
    BY <1>5, PlaceView DEF StateInv
  <2>2. /\ delivered'.cancelled = delivered.cancelled
        /\ delivered'.longTerm \subseteq LongTermIds
        /\ UNCHANGED <<events, book, phase>> /\ phase = "txs"
    BY <1>5 DEF PlaceStatefulOrder, Delivered, ListsInv, StateInv, TypeOK
  <2>3. BookInv'
    BY <2>1, <2>2 DEF BookInv, SameView, IsPlaced, Exists
  <2> QED
    BY <2>2, <2>3 DEF ListsInv
<1>6. ASSUME NEW id \in Ids, NEW g \in Times, CancelStatefulOrder(id, g)
      PROVE  ListsInv' /\ BookInv'
  <2>1. /\ delivered'.cancelled = delivered.cancelled \cup {id}
        /\ delivered'.longTerm = delivered.longTerm
        /\ UNCHANGED <<events, book, phase>> /\ phase = "txs"
        /\ MustRemoveStatefulOrders({id})
    BY <1>6 DEF CancelStatefulOrder, StateInv, TypeOK
  <2>2. BookInv'
    BY <2>1, RemovalCovered
  <2> QED
    BY <2>1, <2>2 DEF ListsInv
<1>7. CASE EndBlock
  BY <1>7, BookEndBlock
<1>8. CASE PrepareCheckState
  BY <1>8, BookPrepareCheckState
<1>9. CASE Restart
  <2>1. \A id : SameView(id)
    BY <1>9, UnchangedView DEF Restart
  <2>2. BookInv'
    BY <1>9, <2>1 DEF BookInv, Restart, SameView, IsPlaced, Exists
  <2> QED
    BY <1>9, <2>2 DEF ListsInv, Restart, NoEvents, NoneDelivered
<1>10. CASE UNCHANGED vars
  <2>1. \A id : SameView(id)
    BY <1>10, UnchangedView DEF vars, chainVars
  <2> QED
    BY <1>10, <2>1 DEF ListsInv, BookInv, SameView, IsPlaced, Exists,
                       vars, chainVars, memVars
<1> QED
  BY <1>1, <1>2, <1>3, <1>4, <1>5, <1>6, <1>7, <1>8, <1>9, <1>10 DEF Next

\* The lists of the block and the order book, carried along with the stores.
LEMMA BlockInvHolds == Spec => []BlockInv
<1>1. Init => ListsInv /\ BookInv
  BY BlockInvInit DEF BlockInv
<1>2. StateInv /\ ListsInv /\ BookInv /\ [Next]_vars => ListsInv' /\ BookInv'
  BY BookStep DEF BlockInv
<1> QED
  BY <1>1, <1>2, StateInvHolds, PTL DEF Spec, BlockInv

\* No ghost orders: after PrepareCheckState, and after a restart, every
\* stateful order resting in the memclob is in state, placed, the same and not
\* fully filled.
THEOREM NoGhostOrders == Spec => []BookAgrees
<1>1. StateInv /\ ListsInv /\ BookInv => BookAgrees
  <2> SUFFICES ASSUME StateInv, BookInv, phase = "checked",
                      NEW id \in Ids, book[id] # None
               PROVE  /\ IsPlaced(id)
                      /\ book[id] = GetLongTermOrderPlacement(id)
                      /\ fillAmount[id] < Quantums
    BY DEF BookAgrees
  <2>1. fillAmount[id] \in 0 .. Quantums /\ fillAmount[id] # Quantums
    BY DEF StateInv, TypeOK, FullIsReported
  <2>2. fillAmount[id] < Quantums
    BY <2>1, StatefulOrdersAssumption
  <2> QED
    BY <2>2 DEF BookInv
<1> QED
  BY <1>1, BlockInvHolds, PTL DEF BlockInv

-----------------------------------------------------------------------------
(* The purge of PrepareCheckState takes no live order off the book.        *)

\* An order in state is on none of the lists that purge by id: an id that was
\* cancelled or removed cannot be used again in the block.
ListedGone ==
  \A id \in Ids : Exists(id) =>
    id \notin delivered.cancelled \cup events.expired \cup events.removed

LEMMA ListedRemoval ==
  ASSUME StateInv, ListedGone, NEW S \in SUBSET Ids, MustRemoveStatefulOrders(S),
         delivered'.cancelled \cup events'.expired \cup events'.removed
           \subseteq delivered.cancelled \cup events.expired \cup events.removed \cup S
  PROVE  ListedGone'
<1>1. \A id \in Ids : Exists(id)' => Exists(id) /\ id \notin S
  BY RemovalKeeps DEF SameView, Exists
<1> QED
  BY <1>1 DEF ListedGone

LEMMA ListedSame ==
  ASSUME ListedGone, UNCHANGED store,
         delivered'.cancelled \cup events'.expired \cup events'.removed
           \subseteq delivered.cancelled \cup events.expired \cup events.removed
  PROVE  ListedGone'
<1>1. \A id \in Ids : Exists(id)' => Exists(id)
  BY UnchangedView DEF SameView, Exists
<1> QED
  BY <1>1 DEF ListedGone

LEMMA ListedStep ==
  ASSUME StateInv, ListsInv, ListedGone, [Next]_vars
  PROVE  ListedGone'
<1>1. ASSUME NEW t \in Times, NEW o \in OraclePrices, BeginBlock(t, o)
      PROVE  ListedGone'
  BY <1>1 DEF BeginBlock, ListedGone, NoEvents, NoneDelivered
<1>2. ASSUME NEW id \in Ids, NEW amount \in 1 .. Quantums,
             NEW p \in TradeSubticks, MatchOrder(id, amount, p)
      PROVE  ListedGone'
  <2>1. /\ events'.removed = events.removed /\ events'.expired = events.expired
        /\ UNCHANGED <<delivered, store>>
    BY <1>2 DEF MatchOrder, StateInv, TypeOK
  <2> QED
    BY <2>1, ListedSame
<1>3. ASSUME NEW id \in Ids, RemoveOrder(id)
      PROVE  ListedGone'
  <2>1. /\ events'.removed = events.removed \cup {id}
        /\ events'.expired = events.expired
        /\ UNCHANGED delivered /\ MustRemoveStatefulOrders({id})
    BY <1>3 DEF RemoveOrder, StateInv, TypeOK
  <2> QED
    BY <2>1, ListedRemoval
<1>4. CASE EndOperations
  <2> DEFINE full == {id \in Ids : FullyFilled(id)}
  <2>1. /\ events'.removed = events.removed \cup full
        /\ events'.expired = events.expired
        /\ UNCHANGED delivered
        /\ MustRemoveStatefulOrders(full) /\ full \in SUBSET Ids
    BY <1>4 DEF EndOperations, ReportRemoved, StateInv, TypeOK
  <2> HIDE DEF full
  <2> QED
    BY <2>1, ListedRemoval
<1>5. ASSUME NEW id \in Ids, NEW g \in Times, PlaceStatefulOrder(id, g)
      PROVE  ListedGone'
  <2>1. \A i \in Ids \ {id} : Exists(i)' => Exists(i)
    BY <1>5, PlaceView DEF StateInv, SameView, Exists
  <2>2. /\ delivered'.cancelled = delivered.cancelled /\ UNCHANGED events
        /\ id \notin delivered.cancelled \cup events.removed /\ phase = "txs"
    BY <1>5 DEF PlaceStatefulOrder, Delivered, StateInv, TypeOK
  <2>3. events.expired = {}
    BY <2>2 DEF ListsInv
  <2> QED
    BY <2>1, <2>2, <2>3 DEF ListedGone
<1>6. ASSUME NEW id \in Ids, NEW g \in Times, CancelStatefulOrder(id, g)
      PROVE  ListedGone'
  <2>1. /\ delivered'.cancelled = delivered.cancelled \cup {id}
        /\ UNCHANGED events /\ MustRemoveStatefulOrders({id})
    BY <1>6 DEF CancelStatefulOrder, StateInv, TypeOK
  <2> QED
    BY <2>1, ListedRemoval
<1>7. CASE EndBlock
  <2>1. /\ events'.expired = Expiring /\ events'.removed = events.removed
        /\ delivered' = delivered
    BY <1>7 DEF EndBlock, Expiring, StateInv, TypeOK
  <2>2. \A id \in Ids : Exists(id)' => Exists(id) /\ id \notin Expiring
    BY <1>7, EndBlockStores DEF SameView, Exists
  <2> QED
    BY <2>1, <2>2 DEF ListedGone
<1>8. CASE PrepareCheckState \/ UNCHANGED vars
  BY <1>8, ListedSame DEF PrepareCheckState, vars, chainVars, memVars
<1>9. CASE Restart
  BY <1>9 DEF Restart, ListedGone, NoEvents, NoneDelivered
<1> QED
  BY <1>1, <1>2, <1>3, <1>4, <1>5, <1>6, <1>7, <1>8, <1>9 DEF Next

\* Between the end of the operations and the purge nothing in state is full.
LEMMA LiveNotPurged ==
  ASSUME StateInv, ListedGone, PrepareCheckState, NEW id \in Ids,
         book[id] # None, Exists(id), book[id] = GetLongTermOrderPlacement(id)
  PROVE  book'[id] = book[id]
<1>1. fillAmount[id] \in 0 .. Quantums /\ fillAmount[id] # Quantums
  BY DEF StateInv, TypeOK, FullIsReported, PrepareCheckState
<1>2. ~(fillAmount[id] >= Quantums)
  BY <1>1, StatefulOrdersAssumption
<1>3. ~Purged(id)
  BY <1>2 DEF Purged, PurgedAsFilled, ListedGone
<1>4. BookAfterPurge[id] = book[id]
  BY <1>3 DEF BookAfterPurge
<1> QED
  BY <1>4 DEF PrepareCheckState

\* PrepareCheckState, which purges the memclob by the lists of the block, never
\* takes off an order that is still in state and is the one resting.
THEOREM LiveOrdersKept == Spec => LiveOrdersStay
<1>1. Init => ListedGone
  BY DEF Init, ListedGone, NoEvents, NoneDelivered
<1>2. StateInv /\ ListsInv /\ ListedGone /\ [Next]_vars => ListedGone'
  BY ListedStep
<1>3. StateInv /\ ListedGone /\ [Next]_vars
        => [PrepareCheckState =>
              \A id \in Ids :
                (book[id] # None /\ Exists(id)
                   /\ book[id] = GetLongTermOrderPlacement(id))
                => book'[id] = book[id]]_vars
  BY LiveNotPurged
<1> QED
  BY <1>1, <1>2, <1>3, BlockInvHolds, PTL DEF Spec, LiveOrdersStay, BlockInv

-----------------------------------------------------------------------------
(* Rounding: subticks decide as the exact prices would.                    *)

\* T subticks against a price of p grains, rounded down or up to subticks.
LEMMA RoundDownExact ==
  ASSUME NEW p \in Int, NEW T \in Int, NEW g \in Nat \ {0}
  PROVE  T <= p \div g <=> T * g <= p
<1> DEFINE q == p \div g
<1>1. q \in Int /\ q * g <= p /\ p < (q + 1) * g
  OBVIOUS
<1> HIDE DEF q
<1>2. ASSUME T <= q PROVE T * g <= p
  <2>1. T * g <= q * g
    BY <1>1, <1>2
  <2> QED
    BY <1>1, <2>1
<1>3. ASSUME T > q PROVE T * g > p
  <2>1. T >= q + 1
    BY <1>1, <1>3
  <2>2. T * g >= (q + 1) * g
    BY <1>1, <2>1
  <2> QED
    BY <1>1, <2>2
<1> QED
  BY <1>1, <1>2, <1>3 DEF q

LEMMA RoundUpExact ==
  ASSUME NEW p \in Int, NEW T \in Int, NEW g \in Nat \ {0}
  PROVE  T >= (p + g - 1) \div g <=> T * g >= p
<1>1. T + 1 <= (p + g - 1) \div g <=> (T + 1) * g <= p + g - 1
  BY RoundDownExact
<1>2. (p + g - 1) \div g \in Int
  OBVIOUS
<1>3. (T + 1) * g = T * g + g
  OBVIOUS
<1>4. T * g \in Int
  OBVIOUS
<1> QED
  BY <1>1, <1>2, <1>3, <1>4

LEMMA PassPriceType ==
  ASSUME TypeOK, NEW k \in Passes
  PROVE  PassPrice(k) \in Int
<1>1. oracle \in Nat
  BY StatefulOrdersAssumption DEF TypeOK
<1>2. ASSUME NEW s \in Nat PROVE ClampedTradePrice(s) \in Int
  <2>1. s * PriceGrain \in Int /\ oracle \div BandDivisor \in Int
    BY <1>1, StatefulOrdersAssumption
  <2> QED
    BY <1>1, <2>1 DEF ClampedTradePrice, Clamp
<1>3. CASE tradePrices = None
  BY <1>1, <1>3 DEF Passes, PassPrice
<1>4. CASE tradePrices # None
  <2>1. tradePrices.min \in Nat /\ tradePrices.max \in Nat
    BY <1>4 DEF TypeOK
  <2>2. k \in {1, 2, 3}
    BY <1>4 DEF Passes
  <2>3. ClampedTradePrice(tradePrices.min) \in Int /\ ClampedTradePrice(tradePrices.max) \in Int
    BY <1>2, <2>1
  <2> QED
    BY <1>1, <2>2, <2>3 DEF PassPrice
<1> QED
  BY <1>3, <1>4

LEMMA PolledExact ==
  ASSUME TypeOK, NEW id \in ConditionalIds, NEW p \in Int
  PROVE  Polled(id, p) <=>
           IF id \in TriggerBelow THEN p <= TriggerSubticks[id] * PriceGrain
                                  ELSE p >= TriggerSubticks[id] * PriceGrain
<1>1. /\ TriggerSubticks[id] \in Int /\ PriceGrain \in Nat \ {0}
      /\ TriggerSubticks[id] * PriceGrain \in Int
  BY StatefulOrdersAssumption
<1>2. /\ TriggerSubticks[id] <= p \div PriceGrain
           <=> TriggerSubticks[id] * PriceGrain <= p
      /\ TriggerSubticks[id] >= (p + PriceGrain - 1) \div PriceGrain
           <=> TriggerSubticks[id] * PriceGrain >= p
  BY <1>1, RoundDownExact, RoundUpExact
<1> QED
  BY <1>1, <1>2 DEF Polled, CanTrigger, RoundUp, RoundDown

\* A conditional order is triggered in a block exactly when one of the prices
\* of MaybeTriggerConditionalOrders reached its trigger price as a rational,
\* whatever the rounding to subticks, and it had not expired by then.
THEOREM TriggeringExact == Spec => TriggersExactly
<1> DEFINE Reached(id) ==
             IF id \in TriggerBelow
               THEN \E p \in {PassPrice(k) : k \in Passes} :
                      p <= TriggerSubticks[id] * PriceGrain
               ELSE \E p \in {PassPrice(k) : k \in Passes} :
                      p >= TriggerSubticks[id] * PriceGrain
<1>1. ASSUME StateInv, EndBlock, NEW id \in ConditionalIds,
             store["Untriggered"][id] # None
      PROVE  id \in events'.triggered <=>
               blockTime < store["Untriggered"][id].gtbt /\ Reached(id)
  <2>1. events'.triggered = Triggering
    BY <1>1 DEF EndBlock, Expiring, Triggering, StateInv, TypeOK
  <2>2. /\ id \in Ids /\ FetchStore(id) = "Untriggered"
        /\ GetLongTermOrderPlacement(id) = store["Untriggered"][id] /\ Exists(id)
    BY <1>1 DEF StateInv, OneStore, Stores, Ids, GetLongTermOrderPlacement, Exists
  <2>3. id \notin Expiring <=> blockTime < store["Untriggered"][id].gtbt
    <3>1. store["Untriggered"][id].gtbt \in Times /\ blockTime \in Times
      BY <1>1, <2>2, PlacementType DEF StateInv, TypeOK, Placements
    <3> QED
      BY <1>1, <2>2, <3>1, ExpiringOrders, StatefulOrdersAssumption DEF Times
  <2>4. TriggeringPasses(id) # {} <=> Reached(id)
    <3>1. \A k \in Passes : Polled(id, PassPrice(k)) <=>
            IF id \in TriggerBelow THEN PassPrice(k) <= TriggerSubticks[id] * PriceGrain
                                   ELSE PassPrice(k) >= TriggerSubticks[id] * PriceGrain
      BY <1>1, PassPriceType, PolledExact DEF StateInv
    <3> QED
      BY <3>1 DEF TriggeringPasses
  <2> HIDE DEF Reached
  <2> QED
    BY <1>1, <2>1, <2>3, <2>4 DEF Triggering
<1>2. ASSUME [Next]_vars, phase = "txs", phase' = "committed" PROVE EndBlock
  BY <1>2 DEF Next, BeginBlock, MatchOrder, RemoveOrder, EndOperations,
              PlaceStatefulOrder, CancelStatefulOrder, PrepareCheckState, Restart, vars
<1>3. StateInv /\ [Next]_vars
        => [phase = "txs" /\ phase' = "committed" =>
              LET prices == {PassPrice(k) : k \in Passes}
              IN  \A id \in ConditionalIds :
                    store["Untriggered"][id] # None =>
                      (id \in events'.triggered <=>
                         /\ blockTime < store["Untriggered"][id].gtbt
                         /\ IF id \in TriggerBelow
                              THEN \E p \in prices : p <= TriggerSubticks[id] * PriceGrain
                              ELSE \E p \in prices : p >= TriggerSubticks[id] * PriceGrain)
           ]_vars
  BY <1>1, <1>2
<1> QED
  BY <1>3, StateInvHolds, PTL DEF Spec, TriggersExactly
=============================================================================

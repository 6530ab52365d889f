-------------------------------- MODULE Twap --------------------------------
(***************************************************************************)
(* x/clob: TWAP orders.  A parent order is worked off in legs.  EndBlocker *)
(* reads the trigger store and, for each trigger that is due, places one   *)
(* suborder (a long-term order with a short life, always under the same    *)
(* id), takes a leg from the parent and schedules the next trigger.  Fills *)
(* of the suborder lower the parent's remaining quantums.                  *)
(*                                                                         *)
(* The code compares times with the block time only, so times are kept     *)
(* relative to it: BeginBlock subtracts the time that passed.  A parent    *)
(* and its suborder differ in the order flags, so one id stands for both.  *)
(* All orders belong to one subaccount.                                    *)
(*                                                                         *)
(* The operations of the proposed queue are actions of their own (see      *)
(* StatefulOrders).  Clients place and cancel parents; suborders are       *)
(* placed by the protocol alone.                                           *)
(***************************************************************************)
EXTENDS Integers, FiniteSets

CONSTANTS
  Ids,              \* client ids of TWAP orders
  Quantums,         \* size of a parent
  TotalLegs,        \* GetTotalLegsTWAPOrder: duration / interval
  Interval,         \* time between two legs
  GoodTilOffset,    \* TWAP_SUBORDER_GOOD_TIL_BLOCK_TIME_OFFSET
  CatchupMultiple,  \* TWAP_MAX_SUBORDER_CATCHUP_MULTIPLE
  StepBaseQuantums,
  EquityTierLimit,  \* open stateful orders allowed
  Uint64,           \* number of values of RemainingQuantums: 2^64
  None,
  MaxGap,           \* bound on the time between two blocks
  MaxPlacements     \* bound on placements under one id

\* The records of the TWAP store, and of suborders in the long-term store.
Parents == [legs : 0 .. TotalLegs, remaining : 0 .. Uint64 - 1]
Suborders ==
  [ttl : Int, quantums : 0 .. Quantums, filled : 0 .. Quantums, stray : BOOLEAN]

ASSUME TwapAssumption ==
  /\ IsFiniteSet(Ids)
  /\ {Quantums, TotalLegs, Interval, StepBaseQuantums} \subseteq Nat \ {0}
  /\ {GoodTilOffset, CatchupMultiple, EquityTierLimit} \subseteq Nat
  /\ {MaxGap, MaxPlacements, Uint64} \subseteq Nat
  \* ValidateBasic and PerformStatefulOrderValidation of the parent
  /\ GoodTilOffset < Interval
  /\ Quantums % StepBaseQuantums = 0
  /\ Quantums \div TotalLegs >= StepBaseQuantums
  /\ Quantums < Uint64
  /\ None \notin Parents \cup Suborders

VARIABLES
  phase,      \* "ops", "txs", "committed"
  parent,     \* TWAP store: id |-> [legs, remaining] or None
  suborder,   \* long-term store: id |-> [ttl, quantums, filled, stray] or None;
              \* stray is history: a trigger of a deleted parent placed it
  triggers,   \* trigger store: pairs of a time and an id
  removed,    \* suborders in RemovedStatefulOrderIds of the block
  cancelled,  \* ids delivered as cancelled in the block: [parents, suborders]
  orderCount, \* memstore: stateful orders of the subaccount
  stray,      \* history: triggers whose parent was deleted since
  traded,     \* history: quantums traded for the parent in the store
  placements  \* placements so far, to bound them

storeVars == <<parent, suborder, triggers, orderCount>>
historyVars == <<stray, traded, placements>>
vars == <<phase, storeVars, removed, cancelled, historyVars>>

NoneCancelled == [parents |-> {}, suborders |-> {}]

Init ==
  /\ phase = "committed"
  /\ parent = [id \in Ids |-> None]
  /\ suborder = [id \in Ids |-> None]
  /\ triggers = {}
  /\ removed = {}
  /\ cancelled = NoneCancelled
  /\ orderCount = 0
  /\ stray = {}
  /\ traded = [id \in Ids |-> 0]
  /\ placements = [id \in Ids |-> 0]

-----------------------------------------------------------------------------

Later(S, elapsed) == {<<e[1] - elapsed, e[2]>> : e \in S}

TriggersOf(S) == {e \in triggers : e[2] \in S}

\* CheckAndDecrementStatefulOrderCount, n times.
CountLess(n) == IF orderCount < n THEN 0 ELSE orderCount - n

\* A block `elapsed` seconds after the last one.
BeginBlock(elapsed) ==
  /\ phase = "committed"
  /\ phase' = "ops"
  /\ suborder' =
       [id \in Ids |->
          IF suborder[id] = None THEN None
          ELSE [suborder[id] EXCEPT !.ttl = @ - elapsed]]
  /\ triggers' = Later(triggers, elapsed)
  /\ stray' = Later(stray, elapsed)
  /\ removed' = {}
  /\ cancelled' = NoneCancelled
  /\ UNCHANGED <<parent, orderCount, traded, placements>>

\* Mutant: the parent is not told of the fill.
RemainingKept(id, amount) == parent[id].remaining

\* RemainingQuantums -= filledQuantums, a uint64.
RemainingAfterFill(id, amount) == (parent[id].remaining - amount) % Uint64

\* ProcessSingleMatch of a suborder; UpdateTWAPOrderRemainingQuantityOnFill
\* refuses the match when there is no parent.
FillSuborder(id, amount) ==
  /\ phase = "ops"
  /\ suborder[id] # None
  /\ suborder[id].filled + amount =< suborder[id].quantums
  /\ parent[id] # None
  /\ suborder' = [suborder EXCEPT ![id].filled = @ + amount]
  /\ parent' = [parent EXCEPT ![id].remaining = RemainingAfterFill(id, amount)]
  /\ traded' = [traded EXCEPT ![id] = @ + amount]
  /\ UNCHANGED <<phase, triggers, orderCount, removed, cancelled, stray,
                 placements>>

\* PersistOrderRemovalToState of a suborder.
RemoveSuborder(id) ==
  /\ phase = "ops"
  /\ suborder[id] # None
  /\ suborder' = [suborder EXCEPT ![id] = None]
  /\ removed' = removed \cup {id}
  /\ UNCHANGED <<phase, parent, triggers, orderCount, cancelled, historyVars>>

FullyFilled ==
  {id \in Ids : /\ suborder[id] # None
                /\ suborder[id].filled > 0
                /\ suborder[id].filled = suborder[id].quantums}

\* The rest of ProcessProposerOperations.
EndOperations ==
  /\ phase = "ops"
  /\ phase' = "txs"
  /\ suborder' =
       [id \in Ids |-> IF id \in FullyFilled THEN None ELSE suborder[id]]
  /\ removed' = removed \cup FullyFilled
  /\ UNCHANGED <<parent, triggers, orderCount, cancelled, historyVars>>

-----------------------------------------------------------------------------

\* HandleMsgPlaceOrder of a parent, with SetTWAPOrderPlacement.
PlaceTwapOrder(id) ==
  /\ phase = "txs"
  /\ placements[id] < MaxPlacements
  /\ id \notin cancelled.parents
  /\ parent[id] = None
  /\ orderCount < EquityTierLimit
  /\ parent' =
       [parent EXCEPT ![id] = [legs |-> TotalLegs, remaining |-> Quantums]]
  /\ orderCount' = orderCount + 1
  /\ triggers' = triggers \cup {<<0, id>>}
  /\ stray' = stray \ {<<0, id>>}
  /\ traded' = [traded EXCEPT ![id] = 0]
  /\ placements' = [placements EXCEPT ![id] = @ + 1]
  /\ UNCHANGED <<phase, suborder, removed, cancelled>>

\* MustRemoveStatefulOrder of a parent cancels the suborder too and accepts
\* that there is none.  HandleMsgCancelOrder reports a missing suborder that
\* the operations of the block removed as another error, which is not
\* accepted: the handler panics and the cancellation fails.
CancelSucceeds(id) == suborder[id] # None \/ id \notin removed

\* HandleMsgCancelOrder of a parent.
CancelTwapOrder(id) ==
  /\ phase = "txs"
  /\ parent[id] # None
  /\ CancelSucceeds(id)
  /\ parent' = [parent EXCEPT ![id] = None]
  /\ orderCount' = CountLess(1)
  /\ suborder' = [suborder EXCEPT ![id] = None]
  /\ cancelled' =
       [parents |-> cancelled.parents \cup {id},
        suborders |->
          IF suborder[id] = None THEN cancelled.suborders
          ELSE cancelled.suborders \cup {id}]
  /\ stray' = stray \cup TriggersOf({id})
  /\ UNCHANGED <<phase, triggers, removed, traded, placements>>

-----------------------------------------------------------------------------

DivCeil(a, b) == (a + b - 1) \div b

\* calculateSuborderQuantums
SuborderQuantums(p) ==
  LET perLeg == DivCeil(p.remaining, p.legs)
      most == DivCeil(Quantums, TotalLegs) * CatchupMultiple
      size == IF perLeg < most THEN perLeg ELSE most
  IN  (size \div StepBaseQuantums) * StepBaseQuantums

Expired == {id \in Ids : suborder[id] # None /\ suborder[id].ttl =< 0}

\* Mutant: expired orders are removed after the suborders are placed.
InFlightAtStart == {id \in Ids : suborder[id] # None}

\* Suborders left when EndBlocker comes to the triggers.
InFlight == {id \in Ids : suborder[id] # None} \ Expired

DueTriggers == {e \in triggers : e[1] =< 0}
DueOf(id) == {e \in DueTriggers : e[2] = id}
DueIds == {e[2] : e \in DueTriggers}

\* GenerateSuborder: a parent that has legs left yields a suborder.
Open == {id \in DueIds : parent[id] # None /\ parent[id].legs > 0}
Completed == {id \in DueIds : parent[id] # None /\ parent[id].legs = 0}

\* Of the triggers of one parent that are due together the first may place a
\* suborder; the others then find it there.
Placed(accepted) ==
  {id \in Open : /\ id \in accepted
                 /\ id \notin removed \cup cancelled.suborders
                 /\ id \notin InFlight}

Failed(accepted) ==
  {id \in Open : id \notin Placed(accepted) \/ Cardinality(DueOf(id)) > 1}

\* DeleteTWAPOrderPlacement runs once per trigger that fails or completes.
Deletions(accepted) ==
  Cardinality({e \in DueTriggers : e[2] \in Completed \cup Open})
    - Cardinality(Placed(accepted))

\* AddSuborderToTriggerStore, undone when the placement fails.
Scheduled(accepted) == {<<Interval, id>> : id \in Open \ Failed(accepted)}

\* Mutant: the suborder is placed and the leg not taken.
LegsKept(p) == p.legs

\* DecrementTwapOrderRemainingLegs
LegsAfterSuborder(p) == p.legs - 1

\* RemoveExpiredStatefulOrders and GenerateAndPlaceTriggeredTwapSuborders.
\* The collateralization check refuses the suborders not in `accepted`.
EndBlock(accepted) ==
  LET gone == Completed \cup Failed(accepted) IN
  /\ phase = "txs"
  /\ phase' = "committed"
  /\ suborder' =
       [id \in Ids |->
          IF id \in Placed(accepted)
          THEN [ttl |-> GoodTilOffset, quantums |-> SuborderQuantums(parent[id]),
                filled |-> 0, stray |-> DueOf(id) \subseteq stray]
          ELSE IF id \in InFlight THEN suborder[id] ELSE None]
  /\ parent' =
       [id \in Ids |->
          IF id \in gone THEN None
          ELSE IF id \in Open
          THEN [parent[id] EXCEPT !.legs = LegsAfterSuborder(parent[id])]
          ELSE parent[id]]
  /\ orderCount' = CountLess(Deletions(accepted))
  /\ triggers' = (triggers \ DueTriggers) \cup Scheduled(accepted)
  /\ stray' = (stray \cup TriggersOf(gone)) \ DueTriggers
  /\ UNCHANGED <<removed, cancelled, traded, placements>>

\* InitMemStore counts the orders under the long-term and conditional
\* prefixes, suborders excepted; parents have a prefix of their own.
CountInState == 0

\* A node restarts: the memstore is rebuilt.
Restart ==
  /\ phase = "committed"
  /\ orderCount' = CountInState
  /\ UNCHANGED <<phase, parent, suborder, triggers, removed, cancelled,
                 historyVars>>

BeginSomeBlock == \E elapsed \in 1 .. MaxGap : BeginBlock(elapsed)
EndSomeBlock == \E accepted \in SUBSET Ids : EndBlock(accepted)

Next ==
  \/ BeginSomeBlock
  \/ \E id \in Ids, amount \in 1 .. Quantums : FillSuborder(id, amount)
  \/ \E id \in Ids : RemoveSuborder(id)
  \/ EndOperations
  \/ \E id \in Ids : PlaceTwapOrder(id)
  \/ \E id \in Ids : CancelTwapOrder(id)
  \/ EndSomeBlock
  \/ Restart

Spec == Init /\ [][Next]_vars

\* Consensus keeps producing blocks, whatever clients and proposers do.
FairSpec ==
  Spec /\ WF_vars(BeginSomeBlock) /\ WF_vars(EndOperations)
    /\ WF_vars(EndSomeBlock)

-----------------------------------------------------------------------------

\* What is left of a suborder in flight never exceeds what is left of its
\* parent, which is in the store: a match never takes RemainingQuantums below
\* zero, where a uint64 wraps, and is never refused for want of a parent.
SuborderCovered ==
  \A id \in Ids :
    suborder[id] # None =>
      /\ parent[id] # None
      /\ suborder[id].quantums - suborder[id].filled =< parent[id].remaining

\* The legs of a TWAP order, each sized anew from what is left, never trade
\* more than the size of the parent.
NeverOvertraded == \A id \in Ids : traded[id] =< Quantums

\* Every TWAP order is worked off, however its suborders fare.
EventuallyClosed == \A id \in Ids : parent[id] # None ~> parent[id] = None

\* keeper.go: "Ensure that the stateful order count is accurately represented
\* in the memstore on restart."
CountAccurate == orderCount = Cardinality({id \in Ids : parent[id] # None})

\* GenerateAndPlaceTriggeredTwapSuborders checks "if the parent twap was
\* cancelled, in which case no subsequent suborders should be placed".
NoneAfterCancel ==
  \A id \in Ids : suborder[id] # None => ~suborder[id].stray

\* MustRemoveStatefulOrder: "We can expect a suborder to not exist during the
\* window while it is waiting to be triggered", so that an open TWAP order
\* without a suborder can be cancelled.
CancelAccepted ==
  \A id \in Ids : phase = "txs" /\ parent[id] # None => CancelSucceeds(id)
=============================================================================

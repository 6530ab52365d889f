------------------------------- MODULE Bridge -------------------------------
(***************************************************************************)
(* x/bridge: events emitted by the bridge contract on Ethereum are         *)
(* recognized by every validator's bridge daemon, proposed for             *)
(* acknowledgement by whichever validator proposes the next block, checked *)
(* by the others in ProcessProposal, and completed by a message delayed    *)
(* through x/delaymsg, of which DelayQueue is the promise used here.       *)
(*                                                                         *)
(* The chain's state (acknowledged, params, the queue, the balances) is    *)
(* shared; the recognized events live in the memory of each validator,     *)
(* are filled by its daemon and are lost when it restarts.                 *)
(***************************************************************************)
EXTENDS Integers, Sequences, FiniteSets

CONSTANTS
  Honest,              \* validators that run this code
  Faulty,              \* validators that propose and vote as they like
  EthAmount,           \* EthAmount[id]: the amount of the id-th event
  EthBlock,            \* EthBlock[id]: the Ethereum block that emitted it
  Forged,              \* an amount a faulty proposer may put in an event
  MaxBridgesPerBlock,  \* ProposeParams
  Delays,              \* the values of SafetyParams.DelayBlocks
  Balance,             \* what the module account holds at genesis
  MaxHeight,           \* the last block: beyond what EndBlock can reach
  MaxRestarts,         \* bound: restarts of validators
  MaxUpdates           \* bound: updates of the safety parameters

EventIds == DOMAIN EthAmount
Validators == Honest \cup Faulty

ASSUME BridgeAssumption ==
  /\ Honest # {} /\ Honest \cap Faulty = {}
  /\ IsFiniteSet(Honest) /\ IsFiniteSet(Faulty)
  /\ 3 * Cardinality(Faulty) < Cardinality(Validators)   \* what CometBFT assumes
  /\ IsFiniteSet(EventIds) /\ EventIds = 0 .. Cardinality(EventIds) - 1
  /\ DOMAIN EthBlock = EventIds
  /\ \A id \in EventIds : EthAmount[id] \in Nat /\ EthBlock[id] \in Nat
  /\ \A i, j \in EventIds : i < j => EthBlock[i] <= EthBlock[j]
  /\ MaxBridgesPerBlock \in Nat \ {0}
  /\ Balance \in Nat /\ Forged \in Nat

VARIABLES
  finalized,      \* how many events Ethereum has finalized (external)
  held,           \* held[v]: id |-> event, BridgeEventManager.events
  recognized,     \* held[v]'s recognizedEventInfo: [nextId, ethBlock]
  asked,          \* asked[v]: what the daemon's query answered, or NoAnswer
  phase,          \* "txs" while a block's transactions run, then "end"
  acknowledged,   \* AcknowledgedEventInfo: [nextId, ethBlock]
  delayed,        \* history: the events acknowledged, in order
  disabled,       \* SafetyParams.IsDisabled
  delayBlocks,    \* SafetyParams.DelayBlocks
  balance,        \* coins of the bridge module account
  paid,           \* history: the events paid out, in order
  restarts, updates,
  height, nextId, pending, log   \* the queue of delayed MsgCompleteBridge

nodeVars == <<held, recognized, asked, restarts>>
paramVars == <<disabled, delayBlocks, updates>>
bankVars == <<balance, paid>>
queueVars == <<height, nextId, pending, log>>
ackVars == <<acknowledged, delayed>>
vars == <<finalized, phase, nodeVars, ackVars, paramVars, bankVars, queueVars>>

\* BridgeEvent; its address is left out, it only names the receiver.
EthEvent(id) == [id |-> id, amount |-> EthAmount[id], ethBlock |-> EthBlock[id]]
EthEvents == {EthEvent(id) : id \in EventIds}
Event == EthEvents \cup {[e EXCEPT !.amount = Forged] : e \in EthEvents}

Info == [nextId : Nat, ethBlock : Nat]
NoInfo == [nextId |-> 0, ethBlock |-> 0]
NoAnswer == [nextId |-> -1, ethBlock |-> -1]

Queue == INSTANCE DelayQueue WITH Payloads <- Event

Init ==
  /\ finalized = 0
  /\ held = [v \in Honest |-> [id \in {} |-> 0]]
  /\ recognized = [v \in Honest |-> NoInfo]
  /\ asked = [v \in Honest |-> NoAnswer]
  /\ phase = "txs"
  /\ acknowledged = NoInfo
  /\ delayed = <<>>
  /\ disabled = FALSE
  /\ delayBlocks \in Delays
  /\ balance = Balance
  /\ paid = <<>>
  /\ restarts = 0
  /\ updates = 0
  /\ Queue!Init

\* Ethereum finalizes one more block of events (external).
Finalize ==
  /\ finalized \in EventIds
  /\ finalized' = finalized + 1
  /\ UNCHANGED <<phase, nodeVars, ackVars, paramVars, bankVars, queueVars>>

-----------------------------------------------------------------------------
(* The daemon of a validator and the manager in its server.                *)

\* RecognizedEventInfo: whichever of the two infos has the greater NextId.
RecognizedEventInfo(v) ==
  IF acknowledged.nextId > recognized[v].nextId THEN acknowledged ELSE recognized[v]

\* The daemon's loop asks the app where to go on ...
Ask(v) ==
  /\ asked[v] = NoAnswer
  /\ asked' = [asked EXCEPT ![v] = RecognizedEventInfo(v)]
  /\ UNCHANGED <<finalized, phase, held, recognized, ackVars, paramVars, bankVars,
                 restarts, queueVars>>

\* ... and fetches the logs its filter matches: the next MaxBridgesPerBlock
\* ids, from the block of the last event to the finalized one.
FilterLogs(info) ==
  {id \in info.nextId .. info.nextId + MaxBridgesPerBlock - 1 :
     id < finalized /\ EthBlock[id] >= info.ethBlock}

\* AddBridgeEvents ignores ids it already recognized.
NewIds(v, ids) == {id \in ids : id >= recognized[v].nextId}

Contiguous(ids) == \A i \in ids, j \in ids : i .. j \subseteq ids

\* AddBridgeEvents with the events of these ids; a list with a gap is an
\* error that changes nothing.
AddBridgeEvents(v, ids) ==
  LET new == NewIds(v, ids)
      last == CHOOSE i \in new : \A j \in new : j <= i
  IN  IF ~Contiguous(ids) \/ new = {}
        THEN UNCHANGED <<held, recognized>>
        ELSE /\ held' = [held EXCEPT ![v] =
                 [id \in DOMAIN @ \cup new |->
                    IF id \in new THEN EthEvent(id) ELSE @[id]]]
             /\ recognized' = [recognized EXCEPT ![v] =
                 [nextId |-> last + 1, ethBlock |-> EthBlock[last]]]

\* A node's view of Ethereum may lag: it answers from a prefix.  The iteration
\* ends either way; an error of the Ethereum client is the empty answer.
Fetch(v) ==
  /\ asked[v] # NoAnswer
  /\ asked' = [asked EXCEPT ![v] = NoAnswer]
  /\ \E seen \in 0 .. finalized :
       AddBridgeEvents(v, {id \in FilterLogs(asked[v]) : id < seen})
  /\ UNCHANGED <<finalized, phase, ackVars, paramVars, bankVars, restarts, queueVars>>

\* The process dies: the manager starts empty, and so does the daemon.
Restart(v) ==
  /\ restarts < MaxRestarts
  /\ restarts' = restarts + 1
  /\ held' = [held EXCEPT ![v] = [id \in {} |-> 0]]
  /\ recognized' = [recognized EXCEPT ![v] = NoInfo]
  /\ asked' = [asked EXCEPT ![v] = NoAnswer]
  /\ UNCHANGED <<finalized, phase, ackVars, paramVars, bankVars, queueVars>>

-----------------------------------------------------------------------------
(* A block: proposed, validated, delivered.                                *)

\* GetAcknowledgeBridges: the held events from NextId on, up to the first
\* that is missing or too recent, MaxBridgesPerBlock at most; none when
\* bridging is disabled or the proposer skips.  Which events are old enough
\* depends on clocks, so any prefix may be proposed.
GetAcknowledgeBridges(v) ==
  {[i \in 1 .. n |-> held[v][acknowledged.nextId + i - 1]] :
     n \in {k \in 0 .. MaxBridgesPerBlock :
              /\ disabled => k = 0
              /\ acknowledged.nextId .. acknowledged.nextId + k - 1
                   \subseteq DOMAIN held[v]}}

\* MsgAcknowledgeBridges.ValidateBasic: the ids are consecutive.
Consecutive(events) ==
  \A i \in DOMAIN events : events[i].id = events[1].id + i - 1

\* Mutant: a validator does not check where the list starts.
FirstIdUnchecked(v, events) ==
  \/ events = <<>>
  \/ /\ Consecutive(events)
     /\ ~disabled
     /\ recognized[v].nextId > events[Len(events)].id
     /\ \A i \in DOMAIN events :
          /\ events[i].id \in DOMAIN held[v]
          /\ held[v][events[i].id] = events[i]

\* Mutant: an id counts as recognized only once the next one is.
RecognizedTooLate(v, events) ==
  \/ events = <<>>
  \/ /\ Consecutive(events)
     /\ ~disabled
     /\ acknowledged.nextId = events[1].id
     /\ recognized[v].nextId > events[Len(events)].id + 1
     /\ \A i \in DOMAIN events :
          /\ events[i].id \in DOMAIN held[v]
          /\ held[v][events[i].id] = events[i]

\* AcknowledgeBridgesTx.Validate, in ProcessProposal of validator v.
Validate(v, events) ==
  \/ events = <<>>
  \/ /\ Consecutive(events)
     /\ ~disabled
     /\ acknowledged.nextId = events[1].id
     /\ recognized[v].nextId > events[Len(events)].id
     /\ \A i \in DOMAIN events :
          /\ events[i].id \in DOMAIN held[v]
          /\ held[v][events[i].id] = events[i]

\* CometBFT commits a proposal that more than two thirds accept; a faulty
\* validator accepts anything (external).
Accepted(events) ==
  3 * Cardinality({v \in Honest : Validate(v, events)} \cup Faulty)
    > 2 * Cardinality(Validators)

\* Mutant: NextId is set to the id of the last event.
LastId(events) == [nextId |-> events[Len(events)].id,
                   ethBlock |-> events[Len(events)].ethBlock]

InfoAfter(events) == [nextId |-> events[Len(events)].id + 1,
                      ethBlock |-> events[Len(events)].ethBlock]

\* AcknowledgeBridges, in the block's transaction: every event is delayed and
\* the info moves on, or the transaction fails and nothing does.
AcknowledgeBridges(events) ==
  IF events = <<>> \/ disabled
    THEN UNCHANGED <<ackVars, queueVars>>
    ELSE /\ Queue!Delay(events, height + delayBlocks)
         /\ acknowledged' = InfoAfter(events)
         /\ delayed' = delayed \o events

\* What a faulty proposer may put in a block: any ids, true or forged amounts.
FaultyProposals == UNION {[1 .. n -> Event] : n \in 1 .. MaxBridgesPerBlock}

Proposals ==
  (UNION {GetAcknowledgeBridges(v) : v \in Honest})
    \cup (IF Faulty = {} THEN {} ELSE FaultyProposals)

\* The transactions of a block.  A rejected proposal leads to another round.
DeliverBlock ==
  /\ phase = "txs"
  /\ phase' = "end"
  /\ \E events \in Proposals : Accepted(events) /\ AcknowledgeBridges(events)
  /\ UNCHANGED <<finalized, nodeVars, paramVars, bankVars>>

-----------------------------------------------------------------------------
(* The end of a block.                                                     *)

\* MsgUpdateSafetyParams, executed by the EndBlocker of governance (or, like
\* any message, of x/delaymsg).
UpdateSafetyParams ==
  /\ phase = "end"
  /\ updates < MaxUpdates
  /\ updates' = updates + 1
  /\ disabled' \in BOOLEAN
  /\ delayBlocks' \in Delays
  /\ <<disabled', delayBlocks'>> # <<disabled, delayBlocks>>
  /\ UNCHANGED <<finalized, phase, nodeVars, ackVars, bankVars, queueVars>>

\* CompleteBridge fails when bridging is disabled or the coins are missing.
CanComplete(event) == ~disabled /\ event.amount <= balance

\* x/delaymsg executes the oldest MsgCompleteBridge due; one that fails is
\* logged and gone.
CompleteBridge ==
  /\ phase = "end"
  /\ \E id \in Queue!DueBy(height) :
       /\ Queue!Attempt(id, CanComplete(pending[id].msg))
       /\ IF CanComplete(pending[id].msg)
            THEN /\ balance' = balance - pending[id].msg.amount
                 /\ paid' = Append(paid, pending[id].msg)
            ELSE UNCHANGED bankVars
  /\ UNCHANGED <<finalized, phase, nodeVars, ackVars, paramVars>>

\* The block ends.  While nothing is delayed the height matters to nothing,
\* so only blocks that a delayed message waits for are counted.
EndBlock ==
  /\ phase = "end"
  /\ phase' = "txs"
  /\ IF DOMAIN pending = {} THEN UNCHANGED queueVars ELSE Queue!NextBlock
  /\ UNCHANGED <<finalized, nodeVars, ackVars, paramVars, bankVars>>

Next ==
  \/ Finalize
  \/ \E v \in Honest : Ask(v) \/ Fetch(v) \/ Restart(v)
  \/ DeliverBlock
  \/ UpdateSafetyParams
  \/ CompleteBridge
  \/ EndBlock

Spec == Init /\ [][Next]_vars

\* Daemons keep polling and an Ethereum node that lags catches up; blocks keep
\* coming, and a proposer does not skip for ever (the skip is random).
FairSpec ==
  /\ Spec
  /\ \A v \in Honest :
       WF_vars(Ask(v)) /\ SF_vars(Fetch(v) /\ recognized' # recognized)
                       /\ WF_vars(Fetch(v))
  /\ WF_vars(DeliverBlock) /\ SF_vars(DeliverBlock /\ acknowledged' # acknowledged)
  /\ WF_vars(CompleteBridge) /\ WF_vars(EndBlock)

-----------------------------------------------------------------------------
(* Properties.                                                             *)

\* Whoever proposes, and whatever faulty proposers propose, the chain
\* acknowledges what Ethereum finalized: the events in their order, each once,
\* none left out and none altered.  AcknowledgeBridges itself checks no id; it
\* relies on the honest part of any quorum having validated the proposal
\* against the acknowledged info and its own memory.
AcknowledgedAsEmitted ==
  /\ Len(delayed) = acknowledged.nextId
  /\ Len(delayed) <= finalized
  /\ \A i \in DOMAIN delayed : delayed[i] = EthEvent(i - 1)

\* Every acknowledged event is waiting, or was attempted once and then either
\* paid once or refused; nothing else was paid.  Parameters may have been
\* changed and bridging disabled in between.
Accounted ==
  LET Payments(id) == {k \in DOMAIN paid : paid[k].id = id}
      Tries(id) == {k \in DOMAIN log : log[k].id = id}
  IN  /\ \A id \in 0 .. acknowledged.nextId - 1 :
           /\ (id \in DOMAIN pending) # (Tries(id) # {})
           /\ Cardinality(Tries(id)) <= 1
           /\ Cardinality(Payments(id)) =
                Cardinality({k \in Tries(id) : log[k].ok})
      /\ \A k \in DOMAIN paid : paid[k].id < acknowledged.nextId
      /\ \A k \in DOMAIN paid : paid[k] = EthEvent(paid[k].id)

\* A validator never rejects the proposal of another honest one whose events
\* it has recognized: its memory has no gap between what is acknowledged and
\* what it recognized, even after it restarted empty, lagged behind the
\* others' acknowledgements or got an answer that was stale when it fetched.
HonestProposalsAgree ==
  \A v, w \in Honest : \A events \in GetAcknowledgeBridges(v) :
    (events # <<>> /\ events[Len(events)].id < recognized[w].nextId)
      => Validate(w, events)

\* A finalized event is eventually acknowledged unless bridging is disabled,
\* whatever restarts and faulty proposers do in the meantime.
EventuallyAcknowledged ==
  \A id \in EventIds :
    finalized > id ~> (acknowledged.nextId > id \/ disabled)
=============================================================================

---------------------------- MODULE BridgeProofs ----------------------------
(***************************************************************************)
(* The chain acknowledges the bridge events that Ethereum finalized, in    *)
(* order and unaltered, and accounts for each of them; honest validators   *)
(* agree on honest proposals.  For any number of validators, events and    *)
(* restarts, as long as fewer than a third of the validators are faulty.   *)
(*                                                                         *)
(* AcknowledgeBridges checks nothing of what it is given.  The argument    *)
(* goes through ProcessProposal: one honest validator accepted the list,   *)
(* and its memory, whatever it forgot, holds only true events (AckInv).    *)
(* That memory has no gap where it matters (NoGap), and every id of the    *)
(* queue is that of an event, paid at most once (QueueTrue).               *)
(***************************************************************************)
EXTENDS Bridge, FiniteSetTheorems, TLAPS

\* A manager may know little, but what it holds was finalized on Ethereum.
HeldTrue ==
  /\ DOMAIN held = Honest
  /\ \A v \in Honest : \A id \in DOMAIN held[v] :
       id \in Int /\ id < finalized /\ held[v][id] = EthEvent(id)

AckTypes ==
  /\ finalized \in Nat
  /\ \A id \in Nat : id < finalized => id \in EventIds
  /\ acknowledged.nextId \in Nat
  /\ delayed \in Seq(EthEvents)

AckInv == AckTypes /\ HeldTrue /\ AcknowledgedAsEmitted

USE BridgeAssumption

-----------------------------------------------------------------------------

\* More than two thirds of the validators include an honest one.
LEMMA HonestVote ==
  ASSUME NEW events, Accepted(events)
  PROVE  \E v \in Honest : Validate(v, events)
<1> SUFFICES ASSUME \A v \in Honest : ~Validate(v, events) PROVE FALSE
  OBVIOUS
<1>1. {v \in Honest : Validate(v, events)} \cup Faulty = Faulty
  OBVIOUS
<1>2. IsFiniteSet(Validators)
  BY FS_Union DEF Validators
<1>3. Cardinality(Faulty) \in Nat /\ Cardinality(Validators) \in Nat
  BY <1>2, FS_CardinalityType
<1>4. 3 * Cardinality(Faulty) > 2 * Cardinality(Validators)
  BY <1>1 DEF Accepted
<1>5. 3 * Cardinality(Faulty) < Cardinality(Validators)
  OBVIOUS
<1> QED
  BY <1>3, <1>4, <1>5

\* A list that an honest validator accepts continues what is acknowledged with
\* what Ethereum finalized.
LEMMA ValidatedEvents ==
  ASSUME AckInv, NEW events, NEW n \in Nat, DOMAIN events = 1 .. n, events # <<>>, n # 0,
         Len(events) = n, NEW v \in Honest, Validate(v, events)
  PROVE  /\ \A i \in 1 .. n : events[i] = EthEvent(acknowledged.nextId + i - 1)
         /\ events[n].id = acknowledged.nextId + n - 1
         /\ acknowledged.nextId + n <= finalized
<1>1. /\ \A i \in 1 .. n : events[i].id = acknowledged.nextId + i - 1
      /\ \A i \in 1 .. n : events[i].id \in DOMAIN held[v]
                           /\ held[v][events[i].id] = events[i]
  BY DEF Validate, Consecutive
<1>2. \A i \in 1 .. n : events[i] = EthEvent(events[i].id)
  BY <1>1 DEF AckInv, HeldTrue
<1>3. \A i \in 1 .. n : events[i] = EthEvent(acknowledged.nextId + i - 1)
  BY <1>1, <1>2
<1>4. events[n].id = acknowledged.nextId + n - 1 /\ events[n].id < finalized
  BY <1>1 DEF AckInv, HeldTrue
<1> QED
  BY <1>3, <1>4 DEF AckInv, AckTypes

\* What is proposed, by whomever, is a list.
LEMMA ProposalIsList ==
  ASSUME NEW events \in Proposals
  PROVE  \E n \in Nat : DOMAIN events = 1 .. n /\ events = [i \in 1 .. n |-> events[i]]
<1>1. CASE \E v \in Honest : events \in GetAcknowledgeBridges(v)
  <2>1. PICK v \in Honest : events \in GetAcknowledgeBridges(v)
    BY <1>1
  <2>2. PICK n \in 0 .. MaxBridgesPerBlock :
          events = [i \in 1 .. n |-> held[v][acknowledged.nextId + i - 1]]
    BY <2>1 DEF GetAcknowledgeBridges
  <2> QED
    BY <2>2
<1>2. CASE events \in FaultyProposals
  <2>1. PICK n \in 1 .. MaxBridgesPerBlock : events \in [1 .. n -> Event]
    BY <1>2 DEF FaultyProposals
  <2> QED
    BY <2>1
<1>3. events \in FaultyProposals \/ \E v \in Honest : events \in GetAcknowledgeBridges(v)
  <2>1. CASE Faulty = {}
    BY <2>1 DEF Proposals
  <2>2. CASE Faulty # {}
    BY <2>2 DEF Proposals
  <2> QED
    BY <2>1, <2>2
<1> QED
  BY <1>1, <1>2, <1>3

LEMMA InitAckInv == Init => AckInv
BY DEF Init, AckInv, AckTypes, HeldTrue, AcknowledgedAsEmitted, NoInfo

\* What a block does: nothing, or it continues what is acknowledged with what
\* Ethereum emitted and delays a message for each of these events.
LEMMA Delivered ==
  ASSUME AckInv, DeliverBlock
  PROVE  \/ UNCHANGED <<acknowledged, delayed, nextId, pending, log>>
         \/ \E events \in Seq(EthEvents), n \in Nat \ {0} :
              /\ Len(events) = n /\ DOMAIN events = 1 .. n
              /\ \A i \in 1 .. n : events[i] = EthEvent(acknowledged.nextId + i - 1)
              /\ acknowledged.nextId + n <= finalized
              /\ acknowledged' = [nextId |-> acknowledged.nextId + n,
                                  ethBlock |-> EthBlock[acknowledged.nextId + n - 1]]
              /\ delayed' = delayed \o events
              /\ nextId' = nextId + n /\ log' = log
              /\ DOMAIN pending' = DOMAIN pending \cup nextId .. nextId + n - 1
              /\ \A id \in DOMAIN pending' :
                   /\ id < nextId => pending'[id] = pending[id]
                   /\ ~(id < nextId) => pending'[id].msg = events[id - nextId + 1]
<1>1. PICK events \in Proposals : Accepted(events) /\ AcknowledgeBridges(events)
  BY DEF DeliverBlock
<1>2. CASE events = <<>> \/ disabled
  BY <1>1, <1>2 DEF AcknowledgeBridges, ackVars, queueVars
<1>3. CASE ~(events = <<>> \/ disabled)
  <2>1. PICK n \in Nat : DOMAIN events = 1 .. n /\ events = [i \in 1 .. n |-> events[i]]
    BY ProposalIsList
  <2>2. PICK v \in Honest : Validate(v, events)
    BY <1>1, HonestVote
  <2>3. n # 0
    <3>1. SUFFICES ASSUME n = 0 PROVE FALSE
      OBVIOUS
    <3>2. events = <<>>
      BY <2>1, <3>1
    <3> QED
      BY <1>3, <3>2
  <2>4. Len(events) = n
    BY <2>1
  <2>5. /\ \A i \in 1 .. n : events[i] = EthEvent(acknowledged.nextId + i - 1)
        /\ events[n].id = acknowledged.nextId + n - 1
        /\ acknowledged.nextId + n <= finalized
    BY <2>1, <2>2, <2>3, <2>4, <1>3, ValidatedEvents
  <2>6. finalized \in Nat /\ acknowledged.nextId \in Nat
    BY DEF AckInv, AckTypes
  <2>7. events \in Seq(EthEvents)
    <3>1. \A i \in 1 .. n : events[i] \in EthEvents
      <4> SUFFICES ASSUME NEW i \in 1 .. n PROVE events[i] \in EthEvents
        OBVIOUS
      <4>1. /\ acknowledged.nextId + i - 1 \in Nat
            /\ acknowledged.nextId + i - 1 < finalized
        BY <2>5, <2>6
      <4>2. events[i] = EthEvent(acknowledged.nextId + i - 1)
        BY <2>5
      <4>3. acknowledged.nextId + i - 1 \in EventIds
        BY <4>1 DEF AckInv, AckTypes
      <4> QED
        BY <4>2, <4>3 DEF EthEvents
    <3> QED
      BY <2>1, <3>1
  <2>8. acknowledged' = [nextId |-> acknowledged.nextId + n,
                         ethBlock |-> EthBlock[acknowledged.nextId + n - 1]]
    <3>1. acknowledged' = [nextId |-> events[n].id + 1, ethBlock |-> events[n].ethBlock]
      BY <1>1, <1>3, <2>4 DEF AcknowledgeBridges, InfoAfter
    <3>2. n \in 1 .. n
      BY <2>3
    <3>3. events[n] = EthEvent(acknowledged.nextId + n - 1)
      BY <2>5, <3>2
    <3>4. events[n].ethBlock = EthBlock[acknowledged.nextId + n - 1]
      BY <3>3 DEF EthEvent
    <3>5. events[n].id + 1 = acknowledged.nextId + n
      BY <2>5, <2>6
    <3> QED
      BY <3>1, <3>4, <3>5
  <2>9. delayed' = delayed \o events
    BY <1>1, <1>3 DEF AcknowledgeBridges
  <2>10. /\ nextId' = nextId + n /\ log' = log
         /\ pending' = [id \in DOMAIN pending \cup nextId .. nextId + n - 1 |->
                          IF id < nextId THEN pending[id]
                          ELSE [msg |-> events[id - nextId + 1],
                                blockHeight |-> height + delayBlocks]]
    BY <1>1, <1>3, <2>4 DEF AcknowledgeBridges, Queue!Delay
  <2>11. /\ DOMAIN pending' = DOMAIN pending \cup nextId .. nextId + n - 1
         /\ \A id \in DOMAIN pending' :
              /\ id < nextId => pending'[id] = pending[id]
              /\ ~(id < nextId) => pending'[id].msg = events[id - nextId + 1]
    BY <2>10
  <2>12. n \in Nat \ {0}
    BY <2>3
  <2> QED
    BY <2>1, <2>4, <2>5, <2>7, <2>8, <2>9, <2>10, <2>11, <2>12
<1> QED
  BY <1>2, <1>3

LEMMA DeliverPreserves == ASSUME AckInv, DeliverBlock PROVE AckInv'
<1>1. UNCHANGED <<finalized, held>>
  BY DEF DeliverBlock, nodeVars
<1>2. CASE UNCHANGED <<acknowledged, delayed, nextId, pending, log>>
  BY <1>1, <1>2 DEF AckInv, AckTypes, HeldTrue, AcknowledgedAsEmitted
<1>3. ASSUME NEW events \in Seq(EthEvents), NEW n \in Nat \ {0},
             Len(events) = n, DOMAIN events = 1 .. n,
             \A i \in 1 .. n : events[i] = EthEvent(acknowledged.nextId + i - 1),
             acknowledged.nextId + n <= finalized,
             acknowledged'.nextId = acknowledged.nextId + n,
             delayed' = delayed \o events
      PROVE  AckInv'
  <2>1. /\ finalized \in Nat /\ acknowledged.nextId \in Nat /\ delayed \in Seq(EthEvents)
        /\ Len(delayed) = acknowledged.nextId
        /\ \A i \in DOMAIN delayed : delayed[i] = EthEvent(i - 1)
    BY DEF AckInv, AckTypes, AcknowledgedAsEmitted
  <2>2. /\ delayed' \in Seq(EthEvents)
        /\ DOMAIN delayed' = 1 .. acknowledged.nextId + n
        /\ Len(delayed') = acknowledged.nextId + n
        /\ \A i \in 1 .. acknowledged.nextId : delayed'[i] = delayed[i]
        /\ \A i \in 1 .. n : delayed'[acknowledged.nextId + i] = events[i]
    <3> HIDE DEF EthEvents
    <3>1. /\ delayed \o events \in Seq(EthEvents)
          /\ Len(delayed \o events) = Len(delayed) + Len(events)
          /\ DOMAIN (delayed \o events) = 1 .. Len(delayed) + Len(events)
          /\ \A i \in 1 .. Len(delayed) : (delayed \o events)[i] = delayed[i]
          /\ \A i \in 1 .. Len(events) : (delayed \o events)[Len(delayed) + i] = events[i]
      <4>1. ASSUME NEW s \in Seq(EthEvents), NEW t \in Seq(EthEvents)
            PROVE  /\ s \o t \in Seq(EthEvents)
                   /\ Len(s \o t) = Len(s) + Len(t)
                   /\ DOMAIN (s \o t) = 1 .. Len(s) + Len(t)
                   /\ \A i \in 1 .. Len(s) : (s \o t)[i] = s[i]
                   /\ \A i \in 1 .. Len(t) : (s \o t)[Len(s) + i] = t[i]
        OBVIOUS
      <4> QED
        BY <2>1, <4>1
    <3>2. Len(delayed) = acknowledged.nextId /\ Len(events) = n /\ delayed' = delayed \o events
      BY <1>3, <2>1
    <3> QED
      BY <3>1, <3>2, Zenon
  <2>3. AckTypes'
    <3>1. acknowledged'.nextId \in Nat
      BY <1>3, <2>1
    <3> QED
      BY <1>1, <2>2, <3>1 DEF AckInv, AckTypes
  <2>4. ASSUME NEW i \in DOMAIN delayed' PROVE delayed'[i] = EthEvent(i - 1)
    <3>1. i \in 1 .. acknowledged.nextId + n
      BY <2>2
    <3>2. CASE i <= acknowledged.nextId
      <4>1. i \in 1 .. acknowledged.nextId /\ i \in DOMAIN delayed
        BY <3>1, <3>2, <2>1
      <4> QED
        BY <4>1, <2>1, <2>2
    <3>3. CASE i > acknowledged.nextId
      <4>1. i - acknowledged.nextId \in 1 .. n
        BY <3>1, <3>3, <2>1
      <4>2. delayed'[i] = events[i - acknowledged.nextId]
        <5>1. i = acknowledged.nextId + (i - acknowledged.nextId)
          BY <3>1, <2>1
        <5> QED
          BY <4>1, <5>1, <2>2
      <4>3. acknowledged.nextId + (i - acknowledged.nextId) - 1 = i - 1
        BY <3>1, <2>1
      <4> QED
        BY <1>3, <4>1, <4>2, <4>3
    <3> QED
      BY <3>1, <3>2, <3>3, <2>1
  <2>5. AcknowledgedAsEmitted'
    BY <1>1, <1>3, <2>1, <2>2, <2>4 DEF AcknowledgedAsEmitted
  <2>6. HeldTrue'
    BY <1>1 DEF AckInv, HeldTrue
  <2> QED
    BY <2>3, <2>5, <2>6 DEF AckInv
<1>4. CASE ~UNCHANGED <<acknowledged, delayed, nextId, pending, log>>
  <2>1. PICK events \in Seq(EthEvents), n \in Nat \ {0} :
          /\ Len(events) = n /\ DOMAIN events = 1 .. n
          /\ \A i \in 1 .. n : events[i] = EthEvent(acknowledged.nextId + i - 1)
          /\ acknowledged.nextId + n <= finalized
          /\ acknowledged' = [nextId |-> acknowledged.nextId + n,
                              ethBlock |-> EthBlock[acknowledged.nextId + n - 1]]
          /\ delayed' = delayed \o events
    BY <1>4, Delivered
  <2>2. acknowledged'.nextId = acknowledged.nextId + n
    BY <2>1
  <2> QED
    BY <2>1, <2>2, <1>3
<1> QED
  BY <1>2, <1>4

LEMMA FetchPreserves == ASSUME AckInv, NEW v \in Honest, Fetch(v) PROVE AckInv'
<1>1. PICK seen \in 0 .. finalized :
        AddBridgeEvents(v, {id \in FilterLogs(asked[v]) : id < seen})
  BY DEF Fetch
<1>2. UNCHANGED <<finalized, acknowledged, delayed>>
  BY DEF Fetch, ackVars
<1> DEFINE ids == {id \in FilterLogs(asked[v]) : id < seen}
           new == NewIds(v, ids)
<1>3. \A id \in new : id \in Int /\ id < finalized
  BY DEF NewIds, FilterLogs
<1>4. HeldTrue'
  <2>1. CASE held' = held
    BY <2>1, <1>2 DEF AckInv, HeldTrue
  <2>2. CASE held' = [held EXCEPT ![v] = [id \in DOMAIN held[v] \cup new |->
                        IF id \in new THEN EthEvent(id) ELSE held[v][id]]]
    <3> HIDE DEF new
    <3>1. DOMAIN held' = Honest
      BY <2>2 DEF AckInv, HeldTrue
    <3>2. ASSUME NEW w \in Honest, NEW id \in DOMAIN held'[w]
          PROVE  id \in Int /\ id < finalized /\ held'[w][id] = EthEvent(id)
      <4>1. CASE w = v
        BY <4>1, <2>2, <1>3 DEF AckInv, HeldTrue
      <4>2. CASE w # v
        BY <4>2, <2>2 DEF AckInv, HeldTrue
      <4> QED
        BY <4>1, <4>2
    <3> QED
      BY <1>2, <3>1, <3>2 DEF HeldTrue
  <2> QED
    BY <1>1, <2>1, <2>2 DEF AddBridgeEvents
<1> QED
  BY <1>2, <1>4 DEF AckInv, AckTypes, AcknowledgedAsEmitted

LEMMA RestartPreserves == ASSUME AckInv, NEW v \in Honest, Restart(v) PROVE AckInv'
<1>1. /\ UNCHANGED <<finalized, acknowledged, delayed>>
      /\ held' = [held EXCEPT ![v] = [id \in {} |-> 0]]
  BY DEF Restart, ackVars
<1> QED
  BY <1>1 DEF AckInv, AckTypes, HeldTrue, AcknowledgedAsEmitted

LEMMA FinalizePreserves == ASSUME AckInv, Finalize PROVE AckInv'
<1>1. /\ UNCHANGED <<held, acknowledged, delayed>>
      /\ finalized' = finalized + 1 /\ finalized \in Nat
      /\ Len(delayed) \in Nat
  BY DEF Finalize, ackVars, nodeVars, AckInv, AckTypes
<1>2. HeldTrue'
  BY <1>1 DEF AckInv, HeldTrue
<1>3. AckTypes'
  <2>1. finalized \in EventIds
    BY DEF Finalize
  <2> QED
    BY <1>1, <2>1 DEF AckInv, AckTypes
<1> QED
  BY <1>1, <1>2, <1>3 DEF AckInv, AckTypes, AcknowledgedAsEmitted

LEMMA NextAckInv == AckInv /\ [Next]_vars => AckInv'
<1> SUFFICES ASSUME AckInv, [Next]_vars PROVE AckInv'
  OBVIOUS
<1>1. ASSUME UNCHANGED <<finalized, held, acknowledged, delayed>> PROVE AckInv'
  BY <1>1 DEF AckInv, AckTypes, HeldTrue, AcknowledgedAsEmitted
<1>2. ASSUME NEW v \in Honest, Ask(v) PROVE AckInv'
  BY <1>1, <1>2 DEF Ask, ackVars
<1>3. CASE UpdateSafetyParams \/ CompleteBridge \/ EndBlock \/ UNCHANGED vars
  BY <1>1, <1>3 DEF UpdateSafetyParams, CompleteBridge, EndBlock, vars, nodeVars, ackVars
<1> QED
  BY <1>2, <1>3, FinalizePreserves, FetchPreserves, RestartPreserves, DeliverPreserves
     DEF Next

-----------------------------------------------------------------------------

\* The inductive invariant: what honest validators hold is true, and what is
\* acknowledged is a prefix of what was finalized.
THEOREM AckInvHolds == Spec => []AckInv
BY InitAckInv, NextAckInv, PTL DEF Spec

\* Whoever proposes, the events acknowledged (AcknowledgeBridges) are those that
\* Ethereum emitted, in order, each once, none left out and none altered.
THEOREM AcknowledgedInOrder == Spec => []AcknowledgedAsEmitted
<1>1. AckInv => AcknowledgedAsEmitted
  BY DEF AckInv
<1> QED
  BY <1>1, AckInvHolds, PTL

-----------------------------------------------------------------------------
(* No gap: what makes an honest validator accept an honest proposal.       *)

\* The filter of a query that goes on from info leaves no later event out.
Covers(info) ==
  /\ info.nextId \in Nat /\ info.ethBlock \in Nat
  /\ \A id \in EventIds : id >= info.nextId => EthBlock[id] >= info.ethBlock

\* An answer may be stale when it is used, but it never points beyond both
\* what is acknowledged and what this validator recognized.
AnswerBehind(v) ==
  \/ asked[v] = NoAnswer
  \/ /\ Covers(asked[v])
     /\ \/ asked[v].nextId <= acknowledged.nextId
        \/ asked[v].nextId <= recognized[v].nextId

HoldsAll(v) ==
  \A id \in Nat : acknowledged.nextId <= id /\ id < recognized[v].nextId
                    => id \in DOMAIN held[v]

NoGap ==
  /\ DOMAIN recognized = Honest /\ DOMAIN asked = Honest
  /\ Covers(acknowledged)
  /\ \A v \in Honest : Covers(recognized[v]) /\ AnswerBehind(v) /\ HoldsAll(v)

\* The chain's info follows the last event acknowledged, an id Ethereum used.
LEMMA CoversNext ==
  ASSUME NEW id \in EventIds
  PROVE  Covers([nextId |-> id + 1, ethBlock |-> EthBlock[id]])
<1>1. id \in Nat /\ EthBlock[id] \in Nat
  BY FS_CardinalityType
<1>2. ASSUME NEW later \in EventIds, later >= id + 1 PROVE EthBlock[later] >= EthBlock[id]
  BY <1>1, <1>2
<1> QED
  BY <1>1, <1>2 DEF Covers

LEMMA InitNoGap == Init => NoGap
<1> SUFFICES ASSUME Init PROVE NoGap
  OBVIOUS
<1>1. Covers(NoInfo)
  BY DEF Covers, NoInfo
<1>2. \A v \in Honest : recognized[v] = NoInfo /\ asked[v] = NoAnswer
  BY DEF Init
<1>3. acknowledged = NoInfo /\ DOMAIN recognized = Honest /\ DOMAIN asked = Honest
  BY DEF Init
<1>4. \A v \in Honest : HoldsAll(v)
  BY <1>2 DEF HoldsAll, NoInfo
<1> QED
  BY <1>1, <1>2, <1>3, <1>4 DEF NoGap, AnswerBehind

\* What a query from info returns: the ids from its NextId to some last one.
LEMMA FetchedInterval ==
  ASSUME AckTypes, NEW info, Covers(info), NEW seen \in 0 .. finalized
  PROVE  \E top \in Int : {id \in FilterLogs(info) : id < seen} = info.nextId .. top
<1> DEFINE top == IF info.nextId + MaxBridgesPerBlock < seen
                    THEN info.nextId + MaxBridgesPerBlock - 1 ELSE seen - 1
<1>1. finalized \in Nat /\ \A id \in Nat : id < finalized => id \in EventIds
  BY DEF AckTypes
<1>2. info.nextId \in Nat /\ seen \in Nat /\ seen <= finalized
  BY <1>1 DEF Covers
<1>3. ASSUME NEW id \in info.nextId .. top PROVE id \in FilterLogs(info) /\ id < seen
  <2>1. /\ id \in info.nextId .. info.nextId + MaxBridgesPerBlock - 1
        /\ id < seen /\ id < finalized /\ id \in Nat /\ id >= info.nextId
    BY <1>1, <1>2
  <2>2. EthBlock[id] >= info.ethBlock
    BY <1>1, <2>1 DEF Covers
  <2> QED
    BY <2>1, <2>2 DEF FilterLogs
<1>4. ASSUME NEW id \in FilterLogs(info), id < seen PROVE id \in info.nextId .. top
  BY <1>2, <1>4 DEF FilterLogs
<1>5. top \in Int
  BY <1>2
<1> HIDE DEF top
<1> QED
  BY <1>3, <1>4, <1>5

\* Whatever was answered and whenever, the events that AddBridgeEvents stores
\* go on where the manager stood or where the chain stands.
LEMMA FetchNoGap == ASSUME AckInv, NoGap, NEW v \in Honest, Fetch(v) PROVE NoGap'
<1>1. PICK seen \in 0 .. finalized :
        AddBridgeEvents(v, {id \in FilterLogs(asked[v]) : id < seen})
  BY DEF Fetch
<1>2. /\ UNCHANGED acknowledged
      /\ asked[v] # NoAnswer /\ asked' = [asked EXCEPT ![v] = NoAnswer]
  BY DEF Fetch, ackVars
<1>3. /\ Covers(asked[v]) /\ Covers(recognized[v]) /\ Covers(acknowledged) /\ HoldsAll(v)
      /\ asked[v].nextId <= acknowledged.nextId \/ asked[v].nextId <= recognized[v].nextId
  BY <1>2 DEF NoGap, AnswerBehind
<1>4. /\ asked[v].nextId \in Nat /\ recognized[v].nextId \in Nat
      /\ acknowledged.nextId \in Nat
  BY <1>3 DEF Covers
<1> DEFINE ids == {id \in FilterLogs(asked[v]) : id < seen}
           new == NewIds(v, ids)
           last == CHOOSE i \in new : \A j \in new : j <= i
<1>5. PICK top \in Int : ids = asked[v].nextId .. top
  BY <1>3, FetchedInterval DEF AckInv
<1>6. ids \subseteq EventIds
  <2>1. ASSUME NEW id \in ids PROVE id \in Nat /\ id < finalized
    BY <1>4 DEF FilterLogs
  <2> QED
    BY <2>1 DEF AckInv, AckTypes
<1>7. \A w \in Honest : w # v => asked'[w] = asked[w]
  BY <1>2 DEF NoGap
<1>8. asked'[v] = NoAnswer /\ DOMAIN asked' = Honest
  BY <1>2 DEF NoGap
<1>9. CASE UNCHANGED <<held, recognized>>
  <2>1. \A w \in Honest : Covers(recognized[w])' /\ HoldsAll(w)'
    BY <1>2, <1>9 DEF NoGap, Covers, HoldsAll
  <2>2. \A w \in Honest : AnswerBehind(w)'
    BY <1>2, <1>7, <1>8, <1>9 DEF NoGap, AnswerBehind, Covers
  <2>3. Covers(acknowledged)'
    BY <1>2 DEF NoGap, Covers
  <2> QED
    BY <2>1, <2>2, <2>3, <1>8, <1>9 DEF NoGap
<1>10. CASE /\ new # {}
            /\ held' = [held EXCEPT ![v] = [id \in DOMAIN held[v] \cup new |->
                          IF id \in new THEN EthEvent(id) ELSE held[v][id]]]
            /\ recognized' = [recognized EXCEPT ![v] =
                                [nextId |-> last + 1, ethBlock |-> EthBlock[last]]]
  <2>1. new = {id \in asked[v].nextId .. top : id >= recognized[v].nextId}
    BY <1>5 DEF NewIds
  <2>2. top \in new /\ \A id \in new : id <= top
    BY <1>4, <1>10, <2>1
  <2>3. last = top
    <3>1. last \in new /\ \A j \in new : j <= last
      BY <2>2
    <3> QED
      BY <2>1, <2>2, <3>1
  <2>4. top \in EventIds
    BY <1>6, <2>2 DEF NewIds
  <2> HIDE DEF ids, new, last
  <2>5. /\ DOMAIN recognized' = Honest
        /\ recognized'[v] = [nextId |-> top + 1, ethBlock |-> EthBlock[top]]
        /\ \A w \in Honest : w # v => recognized'[w] = recognized[w]
    BY <1>10, <2>3 DEF NoGap
  <2>6. /\ DOMAIN held'[v] = DOMAIN held[v] \cup new
        /\ \A w \in Honest : w # v => held'[w] = held[w]
    BY <1>10 DEF AckInv, HeldTrue
  <2>7. ASSUME NEW id \in Nat, acknowledged.nextId <= id, id < top + 1
        PROVE  id \in DOMAIN held'[v]
    <3>1. CASE id < recognized[v].nextId
      BY <1>3, <2>6, <2>7, <3>1 DEF HoldsAll
    <3>2. CASE ~(id < recognized[v].nextId)
      <4>1. id \in asked[v].nextId .. top /\ id >= recognized[v].nextId
        BY <1>3, <1>4, <2>7, <3>2
      <4> QED
        BY <2>1, <2>6, <4>1
    <3> QED
      BY <3>1, <3>2
  <2>8. HoldsAll(v)'
    BY <1>2, <2>5, <2>7 DEF HoldsAll
  <2>9. Covers(recognized[v])'
    BY <2>4, <2>5, CoversNext DEF Covers
  <2>10. AnswerBehind(v)'
    BY <1>8 DEF AnswerBehind
  <2>11. ASSUME NEW w \in Honest, w # v
         PROVE  Covers(recognized[w])' /\ AnswerBehind(w)' /\ HoldsAll(w)'
    <3>1. recognized'[w] = recognized[w] /\ held'[w] = held[w] /\ asked'[w] = asked[w]
      BY <1>7, <2>5, <2>6, <2>11
    <3>2. Covers(recognized[w]) /\ AnswerBehind(w) /\ HoldsAll(w)
      BY DEF NoGap
    <3> QED
      BY <1>2, <3>1, <3>2 DEF Covers, AnswerBehind, HoldsAll
  <2>12. Covers(acknowledged)'
    BY <1>2, <1>3 DEF Covers
  <2> QED
    BY <1>8, <2>5, <2>8, <2>9, <2>10, <2>11, <2>12 DEF NoGap
<1> QED
  BY <1>1, <1>9, <1>10 DEF AddBridgeEvents

LEMMA AskNoGap == ASSUME NoGap, NEW v \in Honest, Ask(v) PROVE NoGap'
<1>1. /\ UNCHANGED <<acknowledged, held, recognized>>
      /\ asked' = [asked EXCEPT ![v] = RecognizedEventInfo(v)]
  BY DEF Ask, ackVars
<1>2. /\ DOMAIN asked' = Honest /\ asked'[v] = RecognizedEventInfo(v)
      /\ \A w \in Honest : w # v => asked'[w] = asked[w]
  BY <1>1 DEF NoGap
<1>3. /\ Covers(acknowledged)'
      /\ \A w \in Honest : Covers(recognized[w])' /\ HoldsAll(w)'
  BY <1>1 DEF NoGap, Covers, HoldsAll
<1>4. AnswerBehind(v)'
  <2>1. Covers(acknowledged) /\ Covers(recognized[v])
    BY DEF NoGap
  <2>2. asked'[v] = acknowledged \/ asked'[v] = recognized[v]
    BY <1>2 DEF RecognizedEventInfo
  <2> QED
    BY <1>1, <2>1, <2>2 DEF AnswerBehind, Covers
<1>5. \A w \in Honest : w # v => AnswerBehind(w)'
  BY <1>1, <1>2 DEF NoGap, AnswerBehind, Covers
<1> QED
  BY <1>1, <1>2, <1>3, <1>4, <1>5 DEF NoGap

\* A manager that starts empty recognized nothing, so it misses nothing.
LEMMA RestartNoGap == ASSUME AckInv, NoGap, NEW v \in Honest, Restart(v) PROVE NoGap'
<1>1. /\ UNCHANGED acknowledged
      /\ held' = [held EXCEPT ![v] = [id \in {} |-> 0]]
      /\ recognized' = [recognized EXCEPT ![v] = NoInfo]
      /\ asked' = [asked EXCEPT ![v] = NoAnswer]
  BY DEF Restart, ackVars
<1>2. /\ DOMAIN asked' = Honest /\ DOMAIN recognized' = Honest
      /\ recognized'[v] = NoInfo /\ asked'[v] = NoAnswer
  BY <1>1 DEF NoGap
<1>3. Covers(recognized[v])' /\ AnswerBehind(v)' /\ HoldsAll(v)'
  BY <1>2 DEF Covers, AnswerBehind, HoldsAll, NoInfo
<1>4. ASSUME NEW w \in Honest, w # v
      PROVE  Covers(recognized[w])' /\ AnswerBehind(w)' /\ HoldsAll(w)'
  <2>1. recognized'[w] = recognized[w] /\ held'[w] = held[w] /\ asked'[w] = asked[w]
    BY <1>1, <1>4 DEF NoGap, AckInv, HeldTrue
  <2>2. Covers(recognized[w]) /\ AnswerBehind(w) /\ HoldsAll(w)
    BY DEF NoGap
  <2> QED
    BY <1>1, <2>1, <2>2 DEF Covers, AnswerBehind, HoldsAll
<1>5. Covers(acknowledged)'
  BY <1>1 DEF NoGap, Covers
<1> QED
  BY <1>2, <1>3, <1>4, <1>5 DEF NoGap

\* The chain moves on: less of what a validator recognized still matters.
LEMMA DeliverNoGap == ASSUME AckInv, NoGap, DeliverBlock PROVE NoGap'
<1>1. UNCHANGED <<held, recognized, asked>>
  BY DEF DeliverBlock, nodeVars
<1>2. CASE UNCHANGED acknowledged
  BY <1>1, <1>2 DEF NoGap, Covers, AnswerBehind, HoldsAll
<1>3. CASE ~UNCHANGED acknowledged
  <2>1. PICK n \in Nat \ {0} :
          /\ acknowledged.nextId + n <= finalized
          /\ acknowledged' = [nextId |-> acknowledged.nextId + n,
                              ethBlock |-> EthBlock[acknowledged.nextId + n - 1]]
    BY <1>3, Delivered
  <2>2. /\ acknowledged.nextId \in Nat /\ finalized \in Nat
        /\ \A id \in Nat : id < finalized => id \in EventIds
    BY DEF AckInv, AckTypes
  <2>3. acknowledged.nextId + n - 1 \in EventIds
    BY <2>1, <2>2
  <2>4. Covers(acknowledged)'
    <3>1. (acknowledged.nextId + n - 1) + 1 = acknowledged.nextId + n
      BY <2>2
    <3>2. Covers([nextId |-> acknowledged.nextId + n,
                  ethBlock |-> EthBlock[acknowledged.nextId + n - 1]])
      BY <2>3, <3>1, CoversNext
    <3> QED
      BY <2>1, <3>2 DEF Covers
  <2>5. acknowledged'.nextId \in Nat /\ acknowledged.nextId <= acknowledged'.nextId
    BY <2>1, <2>2
  <2>6. ASSUME NEW w \in Honest
        PROVE  Covers(recognized[w])' /\ AnswerBehind(w)' /\ HoldsAll(w)'
    <3>1. Covers(recognized[w]) /\ AnswerBehind(w) /\ HoldsAll(w)
      BY DEF NoGap
    <3> QED
      BY <1>1, <2>2, <2>5, <3>1 DEF Covers, AnswerBehind, HoldsAll
  <2> QED
    BY <1>1, <2>4, <2>6 DEF NoGap
<1> QED
  BY <1>2, <1>3

LEMMA NextNoGap == AckInv /\ NoGap /\ [Next]_vars => NoGap'
<1> SUFFICES ASSUME AckInv, NoGap, [Next]_vars PROVE NoGap'
  OBVIOUS
<1>1. ASSUME UNCHANGED <<held, recognized, asked, acknowledged>> PROVE NoGap'
  BY <1>1 DEF NoGap, Covers, AnswerBehind, HoldsAll
<1>2. CASE Finalize \/ UpdateSafetyParams \/ CompleteBridge \/ EndBlock \/ UNCHANGED vars
  BY <1>1, <1>2 DEF Finalize, UpdateSafetyParams, CompleteBridge, EndBlock, vars,
                    nodeVars, ackVars
<1> QED
  BY <1>2, AskNoGap, FetchNoGap, RestartNoGap, DeliverNoGap DEF Next

\* A validator that recognized the events of an honest proposal accepts it.
LEMMA AgreeFromNoGap == AckInv /\ NoGap => HonestProposalsAgree
<1> SUFFICES ASSUME AckInv, NoGap, NEW v \in Honest, NEW w \in Honest,
                    NEW events \in GetAcknowledgeBridges(v), events # <<>>,
                    events[Len(events)].id < recognized[w].nextId
             PROVE  Validate(w, events)
  BY DEF HonestProposalsAgree
<1>1. PICK n \in 0 .. MaxBridgesPerBlock :
        /\ events = [i \in 1 .. n |-> held[v][acknowledged.nextId + i - 1]]
        /\ disabled => n = 0
        /\ acknowledged.nextId .. acknowledged.nextId + n - 1 \subseteq DOMAIN held[v]
  BY DEF GetAcknowledgeBridges
<1>2. n \in Nat /\ n # 0
  <2>1. ASSUME n = 0 PROVE FALSE
    <3>1. events = <<>>
      BY <1>1, <2>1
    <3> QED
      BY <3>1
  <2> QED
    BY <2>1
<1>3. DOMAIN events = 1 .. n /\ Len(events) = n
  BY <1>1, <1>2
<1>4. acknowledged.nextId \in Nat /\ recognized[w].nextId \in Nat
  BY DEF NoGap, Covers
<1>5. ASSUME NEW i \in 1 .. n
      PROVE  /\ events[i] = EthEvent(acknowledged.nextId + i - 1)
             /\ events[i].id = acknowledged.nextId + i - 1
  <2>1. acknowledged.nextId + i - 1 \in acknowledged.nextId .. acknowledged.nextId + n - 1
    BY <1>2, <1>4
  <2>2. acknowledged.nextId + i - 1 \in DOMAIN held[v]
    BY <1>1, <2>1
  <2>3. events[i] = held[v][acknowledged.nextId + i - 1]
    BY <1>1
  <2> QED
    BY <2>2, <2>3 DEF AckInv, HeldTrue, EthEvent
<1>6. acknowledged.nextId + n - 1 < recognized[w].nextId
  BY <1>2, <1>3, <1>5
<1>7. ASSUME NEW i \in DOMAIN events
      PROVE  events[i].id \in DOMAIN held[w] /\ held[w][events[i].id] = events[i]
  <2>1. /\ events[i].id = acknowledged.nextId + i - 1
        /\ events[i] = EthEvent(acknowledged.nextId + i - 1)
    BY <1>3, <1>5
  <2>2. /\ acknowledged.nextId + i - 1 \in Nat
        /\ acknowledged.nextId <= acknowledged.nextId + i - 1
        /\ acknowledged.nextId + i - 1 < recognized[w].nextId
    BY <1>2, <1>3, <1>4, <1>6
  <2>3. acknowledged.nextId + i - 1 \in DOMAIN held[w]
    BY <2>2 DEF NoGap, HoldsAll
  <2> QED
    BY <2>1, <2>3 DEF AckInv, HeldTrue
<1>8. 1 \in 1 .. n /\ events[1].id = acknowledged.nextId
  BY <1>2, <1>4, <1>5
<1>9. Consecutive(events)
  BY <1>3, <1>4, <1>5, <1>8 DEF Consecutive
<1>10. ~disabled
  BY <1>1, <1>2
<1> QED
  BY <1>4, <1>7, <1>8, <1>9, <1>10 DEF Validate

\* An honest validator never rejects (AcknowledgeBridgesTx.Validate) what an
\* honest proposer sends and it has recognized itself, through restarts, lagging
\* Ethereum nodes and answers that are stale when the daemon uses them.
THEOREM HonestAgree == Spec => []HonestProposalsAgree
<1>1. Spec => []NoGap
  BY InitNoGap, NextNoGap, AckInvHolds, PTL DEF Spec
<1> QED
  BY <1>1, AgreeFromNoGap, AckInvHolds, PTL

-----------------------------------------------------------------------------
(* The books: every acknowledged event waits or was attempted once.        *)

Attempts == [id : Nat, height : Nat, ok : BOOLEAN]

\* Ids of delayed messages and of events run in step, as AcknowledgeBridges is
\* the only one to delay messages here.
InStep ==
  /\ height \in Nat /\ nextId = acknowledged.nextId
  /\ log \in Seq(Attempts) /\ paid \in Seq(EthEvents)

PendingTrue ==
  \A id \in DOMAIN pending : id \in Nat /\ id < nextId /\ pending[id].msg = EthEvent(id)

LoggedOnce ==
  /\ \A k \in DOMAIN log : log[k].id < nextId /\ log[k].id \notin DOMAIN pending
  /\ \A id \in Nat : id < nextId =>
       id \in DOMAIN pending \/ \E k \in DOMAIN log : log[k].id = id
  /\ \A j, k \in DOMAIN log : log[j].id = log[k].id => j = k

PaidOnce ==
  /\ \A k \in DOMAIN paid : \E j \in DOMAIN log : log[j].id = paid[k].id /\ log[j].ok
  /\ \A j \in DOMAIN log : log[j].ok => \E k \in DOMAIN paid : paid[k].id = log[j].id
  /\ \A j, k \in DOMAIN paid : paid[j].id = paid[k].id => j = k

QueueTrue == InStep /\ PendingTrue /\ LoggedOnce /\ PaidOnce

\* What appending does, whatever the elements are.
LEMMA Appended ==
  ASSUME NEW S, NEW s \in Seq(S), NEW x \in S
  PROVE  /\ Append(s, x) \in Seq(S)
         /\ DOMAIN Append(s, x) = 1 .. Len(s) + 1
         /\ DOMAIN s = 1 .. Len(s) /\ Len(s) \in Nat
         /\ \A k \in DOMAIN s : Append(s, x)[k] = s[k]
         /\ Append(s, x)[Len(s) + 1] = x
OBVIOUS

LEMMA InitQueueTrue == Init => QueueTrue
<1> SUFFICES ASSUME Init PROVE QueueTrue
  OBVIOUS
<1>1. /\ height = 1 /\ nextId = 0 /\ pending = [id \in {} |-> 0] /\ log = <<>>
      /\ acknowledged.nextId = 0 /\ paid = <<>>
  BY DEF Init, Queue!Init, NoInfo
<1>2. DOMAIN log = {} /\ DOMAIN paid = {} /\ DOMAIN pending = {}
  BY <1>1
<1>3. log \in Seq(Attempts) /\ paid \in Seq(EthEvents)
  BY <1>1
<1> QED
  BY <1>1, <1>2, <1>3 DEF QueueTrue, InStep, PendingTrue, LoggedOnce, PaidOnce

\* A block delays a message for every event it acknowledges, under its id.
LEMMA DeliverQueueTrue == ASSUME AckInv, QueueTrue, DeliverBlock PROVE QueueTrue'
<1>1. UNCHANGED paid /\ height' = height
  BY DEF DeliverBlock, bankVars, AcknowledgeBridges, Queue!Delay, queueVars
<1>2. CASE UNCHANGED <<acknowledged, delayed, nextId, pending, log>>
  BY <1>1, <1>2 DEF QueueTrue, InStep, PendingTrue, LoggedOnce, PaidOnce
<1>3. CASE ~UNCHANGED <<acknowledged, delayed, nextId, pending, log>>
  <2>1. PICK events \in Seq(EthEvents), n \in Nat \ {0} :
          /\ \A i \in 1 .. n : events[i] = EthEvent(acknowledged.nextId + i - 1)
          /\ acknowledged' = [nextId |-> acknowledged.nextId + n,
                              ethBlock |-> EthBlock[acknowledged.nextId + n - 1]]
          /\ nextId' = nextId + n /\ log' = log
          /\ DOMAIN pending' = DOMAIN pending \cup nextId .. nextId + n - 1
          /\ \A id \in DOMAIN pending' :
               /\ id < nextId => pending'[id] = pending[id]
               /\ ~(id < nextId) => pending'[id].msg = events[id - nextId + 1]
    BY <1>3, Delivered
  <2>2. nextId \in Nat /\ nextId = acknowledged.nextId
    BY DEF AckInv, AckTypes, QueueTrue, InStep
  <2>3. InStep'
    BY <1>1, <2>1 DEF QueueTrue, InStep
  <2>4. PendingTrue'
    <3> SUFFICES ASSUME NEW id \in DOMAIN pending'
                 PROVE  id \in Nat /\ id < nextId' /\ pending'[id].msg = EthEvent(id)
      BY DEF PendingTrue
    <3>1. CASE id \in DOMAIN pending
      <4>1. id \in Nat /\ id < nextId /\ pending[id].msg = EthEvent(id)
        BY <3>1 DEF QueueTrue, PendingTrue
      <4> QED
        BY <2>1, <2>2, <4>1
    <3>2. CASE id \in nextId .. nextId + n - 1
      <4>1. id - nextId + 1 \in 1 .. n /\ ~(id < nextId) /\ id \in Nat /\ id < nextId + n
        BY <2>2, <3>2
      <4>2. pending'[id].msg = EthEvent(nextId + (id - nextId + 1) - 1)
        BY <2>1, <2>2, <4>1
      <4>3. nextId + (id - nextId + 1) - 1 = id
        BY <2>2, <4>1
      <4> QED
        BY <2>1, <4>1, <4>2, <4>3
    <3> QED
      BY <2>1, <3>1, <3>2
  <2>5. LoggedOnce'
    <3>1. ASSUME NEW k \in DOMAIN log
          PROVE  log[k].id < nextId' /\ log[k].id \notin DOMAIN pending'
      <4>1. log[k] \in Attempts
        BY DEF QueueTrue, InStep
      <4>2. log[k].id \in Nat
        BY <4>1 DEF Attempts
      <4>3. log[k].id < nextId /\ log[k].id \notin DOMAIN pending
        BY DEF QueueTrue, LoggedOnce
      <4> QED
        BY <2>1, <2>2, <4>2, <4>3
    <3>2. ASSUME NEW id \in Nat, id < nextId'
          PROVE  id \in DOMAIN pending' \/ \E k \in DOMAIN log : log[k].id = id
      <4>1. CASE id < nextId
        BY <2>1, <4>1 DEF QueueTrue, LoggedOnce
      <4>2. CASE ~(id < nextId)
        BY <2>1, <2>2, <3>2, <4>2
      <4> QED
        BY <4>1, <4>2
    <3> QED
      BY <2>1, <3>1, <3>2 DEF QueueTrue, LoggedOnce
  <2>6. PaidOnce'
    BY <1>1, <2>1 DEF QueueTrue, PaidOnce
  <2> QED
    BY <2>3, <2>4, <2>5, <2>6 DEF QueueTrue
<1> QED
  BY <1>2, <1>3

\* An attempt takes a message out of the queue and writes it in the log; it is
\* paid exactly when the attempt succeeds.
LEMMA CompleteQueueTrue == ASSUME AckInv, QueueTrue, CompleteBridge PROVE QueueTrue'
<1>1. PICK id \in DOMAIN pending :
        /\ pending' = [other \in DOMAIN pending \ {id} |-> pending[other]]
        /\ log' = Append(log, [id |-> id, height |-> height,
                               ok |-> CanComplete(pending[id].msg)])
        /\ height' = height /\ nextId' = nextId
        /\ IF CanComplete(pending[id].msg)
             THEN paid' = Append(paid, pending[id].msg) ELSE paid' = paid
  BY DEF CompleteBridge, Queue!DueBy, Queue!Attempt, bankVars
<1>2. acknowledged' = acknowledged
  BY DEF CompleteBridge, ackVars
<1>3. id \in Nat /\ id < nextId /\ pending[id].msg = EthEvent(id)
  BY DEF QueueTrue, PendingTrue
<1>4. EthEvent(id) \in EthEvents /\ EthEvent(id).id = id
  <2>1. id \in EventIds
    <3>1. nextId = Len(delayed) /\ Len(delayed) <= finalized
      BY DEF AckInv, AcknowledgedAsEmitted, QueueTrue, InStep
    <3>2. Len(delayed) \in Nat /\ finalized \in Nat
      BY DEF AckInv, AckTypes
    <3>3. id < finalized
      BY <1>3, <3>1, <3>2
    <3> QED
      BY <1>3, <3>3 DEF AckInv, AckTypes
  <2> QED
    BY <2>1 DEF EthEvents, EthEvent
<1> DEFINE ok == CanComplete(pending[id].msg)
           entry == [id |-> id, height |-> height, ok |-> ok]
<1>5. ok \in BOOLEAN
  BY DEF CanComplete
<1>6. entry \in Attempts /\ entry.id = id /\ entry.ok = ok
  BY <1>3, <1>5 DEF Attempts, QueueTrue, InStep
<1> HIDE DEF ok, entry
<1>7. /\ log' \in Seq(Attempts)
      /\ DOMAIN log' = 1 .. Len(log) + 1 /\ DOMAIN log = 1 .. Len(log) /\ Len(log) \in Nat
      /\ \A k \in DOMAIN log : log'[k] = log[k]
      /\ log'[Len(log) + 1] = entry
  <2>1. log \in Seq(Attempts) /\ log' = Append(log, entry)
    BY <1>1 DEF QueueTrue, InStep, entry, ok
  <2> QED
    BY <2>1, <1>6, Appended
<1>8. ok => /\ paid' \in Seq(EthEvents)
            /\ DOMAIN paid' = 1 .. Len(paid) + 1 /\ DOMAIN paid = 1 .. Len(paid)
            /\ Len(paid) \in Nat
            /\ \A k \in DOMAIN paid : paid'[k] = paid[k]
            /\ paid'[Len(paid) + 1] = EthEvent(id)
  <2> SUFFICES ASSUME ok PROVE /\ paid' = Append(paid, EthEvent(id))
                               /\ paid \in Seq(EthEvents)
    BY <1>4, Appended
  <2> QED
    BY <1>1, <1>3 DEF QueueTrue, InStep, ok
<1>9. ~ok => paid' = paid
  BY <1>1 DEF ok
<1>10. InStep'
  BY <1>1, <1>2, <1>7, <1>8, <1>9 DEF QueueTrue, InStep
<1>11. PendingTrue'
  BY <1>1 DEF QueueTrue, PendingTrue
<1>12. \A k \in DOMAIN log : log[k].id # id /\ log[k].id < nextId /\ log[k].id \notin DOMAIN pending
  BY DEF QueueTrue, LoggedOnce
<1>13. DOMAIN pending' = DOMAIN pending \ {id}
  BY <1>1
<1>14. LoggedOnce'
  <2>1. ASSUME NEW k \in DOMAIN log'
        PROVE  log'[k].id < nextId' /\ log'[k].id \notin DOMAIN pending'
    <3>1. CASE k \in DOMAIN log
      BY <1>1, <1>7, <1>12, <1>13, <3>1
    <3>2. CASE k = Len(log) + 1
      BY <1>1, <1>3, <1>6, <1>7, <1>13, <3>2
    <3> QED
      BY <1>7, <3>1, <3>2
  <2>2. ASSUME NEW i \in Nat, i < nextId'
        PROVE  i \in DOMAIN pending' \/ \E k \in DOMAIN log' : log'[k].id = i
    <3>1. CASE i = id
      <4>1. Len(log) + 1 \in DOMAIN log' /\ log'[Len(log) + 1].id = id
        BY <1>6, <1>7
      <4> QED
        BY <3>1, <4>1
    <3>2. CASE i # id /\ i \in DOMAIN pending
      BY <3>2, <1>13
    <3>3. CASE i \notin DOMAIN pending
      <4>1. PICK k \in DOMAIN log : log[k].id = i
        BY <1>1, <2>2, <3>3 DEF QueueTrue, LoggedOnce
      <4>2. k \in DOMAIN log' /\ log'[k].id = i
        BY <1>7, <4>1
      <4> QED
        BY <4>2
    <3> QED
      BY <3>1, <3>2, <3>3
  <2>3. ASSUME NEW j \in DOMAIN log', NEW k \in DOMAIN log', log'[j].id = log'[k].id
        PROVE  j = k
    <3>1. CASE j \in DOMAIN log /\ k \in DOMAIN log
      BY <1>7, <2>3, <3>1 DEF QueueTrue, LoggedOnce
    <3>2. CASE j = Len(log) + 1
      BY <1>6, <1>7, <1>12, <2>3, <3>2
    <3>3. CASE k = Len(log) + 1
      BY <1>6, <1>7, <1>12, <2>3, <3>3
    <3> QED
      BY <1>7, <3>1, <3>2, <3>3
  <2> QED
    BY <2>1, <2>2, <2>3 DEF LoggedOnce
<1>15. \A k \in DOMAIN paid : paid[k].id # id
  BY <1>12 DEF QueueTrue, PaidOnce
<1>16. PaidOnce'
  <2>1. ASSUME NEW k \in DOMAIN paid'
        PROVE  \E j \in DOMAIN log' : log'[j].id = paid'[k].id /\ log'[j].ok
    <3>1. CASE k \in DOMAIN paid
      <4>1. PICK j \in DOMAIN log : log[j].id = paid[k].id /\ log[j].ok
        BY <3>1 DEF QueueTrue, PaidOnce
      <4>2. j \in DOMAIN log' /\ log'[j] = log[j] /\ paid'[k] = paid[k]
        BY <1>7, <1>8, <1>9, <3>1
      <4> QED
        BY <4>1, <4>2
    <3>2. CASE ok /\ k = Len(paid) + 1
      <4>1. paid'[k].id = id
        BY <1>4, <1>8, <3>2
      <4>2. Len(log) + 1 \in DOMAIN log' /\ log'[Len(log) + 1].id = id
        BY <1>6, <1>7
      <4>3. log'[Len(log) + 1].ok
        BY <1>6, <1>7, <3>2, Zenon
      <4> QED
        BY <4>1, <4>2, <4>3
    <3> QED
      BY <1>8, <1>9, <3>1, <3>2
  <2>2. ASSUME NEW j \in DOMAIN log', log'[j].ok
        PROVE  \E k \in DOMAIN paid' : paid'[k].id = log'[j].id
    <3>1. CASE j \in DOMAIN log
      <4>1. log'[j] = log[j]
        BY <1>7, <3>1
      <4>2. PICK k \in DOMAIN paid : paid[k].id = log[j].id
        BY <2>2, <3>1, <4>1 DEF QueueTrue, PaidOnce
      <4>3. k \in DOMAIN paid' /\ paid'[k] = paid[k]
        BY <1>8, <1>9
      <4> QED
        BY <4>1, <4>2, <4>3
    <3>2. CASE j = Len(log) + 1
      <4>1. ok /\ log'[j].id = id
        BY <1>6, <1>7, <2>2, <3>2
      <4>2. Len(paid) + 1 \in DOMAIN paid' /\ paid'[Len(paid) + 1].id = id
        BY <1>4, <1>8, <4>1
      <4> QED
        BY <4>1, <4>2
    <3> QED
      BY <1>7, <3>1, <3>2
  <2>3. ASSUME NEW j \in DOMAIN paid', NEW k \in DOMAIN paid', paid'[j].id = paid'[k].id
        PROVE  j = k
    <3>1. CASE j \in DOMAIN paid /\ k \in DOMAIN paid
      <4>1. paid'[j] = paid[j] /\ paid'[k] = paid[k]
        BY <1>8, <1>9, <3>1
      <4> QED
        BY <2>3, <3>1, <4>1 DEF QueueTrue, PaidOnce
    <3>2. CASE ok /\ j = Len(paid) + 1
      BY <1>4, <1>8, <1>15, <2>3, <3>2
    <3>3. CASE ok /\ k = Len(paid) + 1
      BY <1>4, <1>8, <1>15, <2>3, <3>3
    <3> QED
      BY <1>8, <1>9, <3>1, <3>2, <3>3
  <2> QED
    BY <2>1, <2>2, <2>3 DEF PaidOnce
<1> QED
  BY <1>10, <1>11, <1>14, <1>16 DEF QueueTrue

LEMMA NextQueueTrue == AckInv /\ QueueTrue /\ [Next]_vars => QueueTrue'
<1> SUFFICES ASSUME AckInv, QueueTrue, [Next]_vars PROVE QueueTrue'
  OBVIOUS
<1>1. ASSUME UNCHANGED <<acknowledged, paid, nextId, pending, log>>, height' \in Nat
      PROVE  QueueTrue'
  BY <1>1 DEF QueueTrue, InStep, PendingTrue, LoggedOnce, PaidOnce
<1>2. height \in Nat
  BY DEF QueueTrue, InStep
<1>3. ASSUME NEW v \in Honest, Ask(v) \/ Fetch(v) \/ Restart(v) PROVE QueueTrue'
  BY <1>1, <1>2, <1>3 DEF Ask, Fetch, Restart, ackVars, bankVars, queueVars
<1>4. CASE Finalize \/ UpdateSafetyParams \/ UNCHANGED vars
  BY <1>1, <1>2, <1>4 DEF Finalize, UpdateSafetyParams, vars, ackVars, bankVars, queueVars
<1>5. CASE EndBlock
  <2>1. UNCHANGED <<acknowledged, paid, nextId, pending, log>>
    BY <1>5 DEF EndBlock, Queue!NextBlock, ackVars, bankVars, queueVars
  <2>2. height' = height \/ height' = height + 1
    BY <1>5 DEF EndBlock, Queue!NextBlock, queueVars
  <2> QED
    BY <1>1, <1>2, <2>1, <2>2
<1> QED
  BY <1>3, <1>4, <1>5, DeliverQueueTrue, CompleteQueueTrue DEF Next

\* Sets of at most one element need no induction to be counted.
LEMMA AccountedFromQueue == AckInv /\ QueueTrue => Accounted
<1> SUFFICES ASSUME AckInv, QueueTrue PROVE Accounted
  OBVIOUS
<1> DEFINE Payments(id) == {k \in DOMAIN paid : paid[k].id = id}
           Tries(id) == {k \in DOMAIN log : log[k].id = id}
           Done(id) == {k \in Tries(id) : log[k].ok}
<1>1. nextId \in Nat /\ nextId = acknowledged.nextId
  BY DEF AckInv, AckTypes, QueueTrue, InStep
<1>2. ASSUME NEW id \in 0 .. acknowledged.nextId - 1
      PROVE  /\ (id \in DOMAIN pending) # (Tries(id) # {})
             /\ Cardinality(Tries(id)) <= 1
             /\ Cardinality(Payments(id)) = Cardinality(Done(id))
  <2>1. id \in Nat /\ id < nextId
    BY <1>1
  <2>2. Cardinality({}) = 0 /\ \A k : Cardinality({k}) = 1
    BY FS_EmptySet, FS_Singleton
  <2>3. CASE id \in DOMAIN pending
    <3>1. Tries(id) = {}
      BY <2>3 DEF QueueTrue, LoggedOnce
    <3>2. Payments(id) = {}
      BY <3>1 DEF QueueTrue, PaidOnce
    <3>3. /\ Cardinality(Tries(id)) = 0
          /\ Cardinality(Payments(id)) = 0 /\ Cardinality(Done(id)) = 0
      BY <2>2, <3>1, <3>2
    <3> HIDE DEF Payments, Tries, Done
    <3> QED
      BY <2>3, <3>1, <3>3
  <2>4. CASE id \notin DOMAIN pending
    <3>1. PICK j \in DOMAIN log : log[j].id = id
      BY <2>1, <2>4 DEF QueueTrue, LoggedOnce
    <3>2. Tries(id) = {j}
      BY <3>1 DEF QueueTrue, LoggedOnce
    <3>3. CASE log[j].ok
      <4>1. PICK k \in DOMAIN paid : paid[k].id = id
        BY <3>1, <3>3 DEF QueueTrue, PaidOnce
      <4>2. Payments(id) = {k}
        BY <4>1 DEF QueueTrue, PaidOnce
      <4>3. Done(id) = {j}
        BY <3>2, <3>3
      <4>4. /\ Cardinality(Tries(id)) = 1 /\ Tries(id) # {}
            /\ Cardinality(Payments(id)) = 1 /\ Cardinality(Done(id)) = 1
        BY <2>2, <3>2, <4>2, <4>3
      <4> HIDE DEF Payments, Tries, Done
      <4> QED
        BY <2>4, <4>4
    <3>4. CASE ~log[j].ok
      <4>1. Done(id) = {}
        BY <3>2, <3>4
      <4>2. Payments(id) = {}
        <5> SUFFICES ASSUME NEW k \in DOMAIN paid, paid[k].id = id PROVE FALSE
          OBVIOUS
        <5>1. PICK i \in DOMAIN log : log[i].id = paid[k].id /\ log[i].ok
          BY DEF QueueTrue, PaidOnce
        <5>2. i \in Tries(id)
          BY <5>1
        <5> QED
          BY <3>2, <3>4, <5>1, <5>2
      <4>3. /\ Cardinality(Tries(id)) = 1 /\ Tries(id) # {}
            /\ Cardinality(Payments(id)) = 0 /\ Cardinality(Done(id)) = 0
        BY <2>2, <3>2, <4>1, <4>2
      <4> HIDE DEF Payments, Tries, Done
      <4> QED
        BY <2>4, <4>3
    <3> QED
      BY <3>3, <3>4
  <2> QED
    BY <2>3, <2>4
<1>3. \A k \in DOMAIN paid : paid[k].id < acknowledged.nextId
  <2> SUFFICES ASSUME NEW k \in DOMAIN paid PROVE paid[k].id < acknowledged.nextId
    OBVIOUS
  <2>1. PICK j \in DOMAIN log : log[j].id = paid[k].id
    BY DEF QueueTrue, PaidOnce
  <2> QED
    BY <1>1, <2>1 DEF QueueTrue, LoggedOnce
<1>4. \A k \in DOMAIN paid : paid[k] = EthEvent(paid[k].id)
  <2> SUFFICES ASSUME NEW k \in DOMAIN paid PROVE paid[k] = EthEvent(paid[k].id)
    OBVIOUS
  <2>1. paid[k] \in EthEvents
    BY DEF QueueTrue, InStep
  <2> QED
    BY <2>1 DEF EthEvents, EthEvent
<1> QED
  BY <1>2, <1>3, <1>4 DEF Accounted

\* Every acknowledged event waits in the queue, or CompleteBridge was attempted
\* for it once and it was paid once, as emitted, or refused; nothing else is paid.
THEOREM EveryEventAccounted == Spec => []Accounted
<1>1. Spec => []QueueTrue
  BY InitQueueTrue, NextQueueTrue, AckInvHolds, PTL DEF Spec
<1> QED
  BY <1>1, AccountedFromQueue, AckInvHolds, PTL
=============================================================================

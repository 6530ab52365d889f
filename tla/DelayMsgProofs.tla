--------------------------- MODULE DelayMsgProofs ---------------------------
(***************************************************************************)
(* Proofs about DelayMsg, for any set of messages, any last height and any *)
(* number of delayed messages.                                             *)
(*                                                                         *)
(* The agreement of the two stores is not inductive alone: deleting the    *)
(* head of the snapshot only keeps it because, all through the deleting    *)
(* loop, the snapshot still to visit IS the list of the current block.     *)
(***************************************************************************)
EXTENDS DelayMsg, TLAPS

\* Ids are handed out in order, so an id still to come is not in use.
IdsBelowNext == \A id \in DOMAIN messages : id < nextId

\* What the loops of DispatchMessagesForBlock hold on to.
LoopInv ==
  /\ phase = "deliver" => toExecute = <<>> /\ toDelete = <<>>
  /\ phase = "endblock" => toDelete = blockMessageIds[height]

StoreInv ==
  /\ TypeOK
  /\ IdsBelowNext
  /\ LoopInv
  /\ IndexAgrees
  /\ AscendingIds
  /\ NothingStranded

-----------------------------------------------------------------------------

\* Cutting out the first element leaves the tail (the slice expression of
\* deleteMessageIdFromBlock at i = 0).
LEMMA CutFirst ==
  ASSUME NEW S, NEW s \in Seq(S), s # <<>>
  PROVE  CutAt(s, 1) = Tail(s)
<1>1. SubSeq(s, 1, 0) = <<>>
  OBVIOUS
<1>2. SubSeq(s, 2, Len(s)) = Tail(s)
  OBVIOUS
<1> QED
  BY <1>1, <1>2 DEF CutAt

\* What appending one element does to the elements and their positions.
LEMMA AppendFacts ==
  ASSUME NEW S, NEW s \in Seq(S), NEW e \in S
  PROVE  /\ Append(s, e) \in Seq(S)
         /\ Len(s) \in Nat /\ DOMAIN s = 1 .. Len(s)
         /\ DOMAIN Append(s, e) = 1 .. Len(s) + 1
         /\ \A k \in DOMAIN s : Append(s, e)[k] = s[k]
         /\ Append(s, e)[Len(s) + 1] = e
OBVIOUS

\* In the deleting loop the deletion of the next id takes the head off the
\* list of the current block and touches no other block.
LEMMA DeleteHead ==
  ASSUME StoreInv, DeleteNext
  PROVE  /\ Head(toDelete) \in DOMAIN messages
         /\ messages[Head(toDelete)].blockHeight = height
         /\ messages' = WithoutMessage(Head(toDelete))
         /\ blockMessageIds' = [blockMessageIds EXCEPT ![height] = Tail(@)]
<1> DEFINE s == blockMessageIds[height]
           id == Head(toDelete)
<1>1. toDelete = s /\ s # <<>> /\ s \in Seq(Ids) /\ height \in Heights
  BY DEF StoreInv, LoopInv, DeleteNext, TypeOK, Heights
<1>2. 1 \in DOMAIN s /\ id = s[1] /\ Len(s) \in Nat \ {0}
  BY <1>1
<1>3. id \in DOMAIN messages /\ messages[id].blockHeight = height
  BY <1>1, <1>2 DEF StoreInv, IndexAgrees
<1>4. /\ 1 \in Positions(s, id)
      /\ \A j \in Positions(s, id) : 1 <= j
  BY <1>1, <1>2 DEF Positions
<1>5. (CHOOSE k \in Positions(s, id) : \A j \in Positions(s, id) : k <= j) = 1
  BY <1>4 DEF Positions
<1>6. CutAt(s, 1) = Tail(s)
  BY <1>1, CutFirst
<1>7. DeleteMessageIdFromBlock(id, height)
        = [blockMessageIds EXCEPT ![height] = Tail(@)]
  BY <1>4, <1>5, <1>6 DEF DeleteMessageIdFromBlock
<1> QED
  BY <1>3, <1>7 DEF DeleteNext

LEMMA InitStoreInv == Init => StoreInv
BY DelayMsgAssumption
   DEF Init, StoreInv, TypeOK, IdsBelowNext, LoopInv, IndexAgrees,
       AscendingIds, NothingStranded, Heights, Ids

LEMMA DelayPreserves ==
  ASSUME StoreInv, NEW msg \in Msgs, NEW blockDelay \in Heights,
         DelayMessageByBlocks(msg, blockDelay)
  PROVE  StoreInv'
<1> DEFINE due == height + blockDelay
<1>1. /\ due \in Heights /\ height <= due /\ height \in Nat /\ nextId \in Nat
      /\ nextId < MaxMessages /\ nextId \notin DOMAIN messages
      /\ messages' = WithMessage(nextId, [msg |-> msg, blockHeight |-> due])
      /\ blockMessageIds' = [blockMessageIds EXCEPT ![due] = Append(@, nextId)]
      /\ nextId' = nextId + 1 /\ phase = "deliver"
      /\ UNCHANGED <<height, phase, toExecute, toDelete, attempts>>
  BY DEF DelayMessageByBlocks, FitsUint32, AddMessageIdToBlock, StoreInv, TypeOK, Heights, Ids
<1>2. /\ DOMAIN messages' = DOMAIN messages \cup {nextId}
      /\ messages'[nextId] = [msg |-> msg, blockHeight |-> due]
      /\ \A id \in DOMAIN messages : messages'[id] = messages[id]
  BY <1>1 DEF WithMessage
<1>3. nextId \in Ids /\ nextId' \in Ids
  BY <1>1, DelayMsgAssumption DEF Ids
<1>4. TypeOK'
  <2>1. blockMessageIds' \in [Heights -> Seq(Ids)]
    BY <1>1, <1>3 DEF StoreInv, TypeOK
  <2>2. \A id \in DOMAIN messages' : messages'[id] \in DelayedMessage
    <3>1. [msg |-> msg, blockHeight |-> due] \in DelayedMessage
      BY <1>1 DEF DelayedMessage
    <3> QED
      BY <3>1, <1>2 DEF StoreInv, TypeOK
  <2>3. DOMAIN messages' \subseteq Ids
    BY <1>2, <1>3 DEF StoreInv, TypeOK
  <2> QED
    BY <1>1, <1>3, <2>1, <2>2, <2>3 DEF StoreInv, TypeOK
<1>5. IdsBelowNext'
  <2> SUFFICES ASSUME NEW id \in DOMAIN messages' PROVE id < nextId'
    BY DEF IdsBelowNext
  <2>1. id \in Int
    BY <1>2, <1>3 DEF StoreInv, TypeOK, Ids
  <2> QED
    BY <1>1, <1>2, <2>1 DEF StoreInv, IdsBelowNext
<1>6. LoopInv'
  BY <1>1 DEF StoreInv, LoopInv
<1>7. \A h \in Heights :
        /\ blockMessageIds[h] \in Seq(Ids)
        /\ blockMessageIds'[h] = IF h = due THEN Append(blockMessageIds[h], nextId)
                                            ELSE blockMessageIds[h]
  BY <1>1 DEF StoreInv, TypeOK
<1>8. \A h \in Heights :
        /\ DOMAIN blockMessageIds'[h] =
             IF h = due THEN 1 .. Len(blockMessageIds[h]) + 1
                        ELSE 1 .. Len(blockMessageIds[h])
        /\ DOMAIN blockMessageIds[h] = 1 .. Len(blockMessageIds[h])
        /\ Len(blockMessageIds[h]) \in Nat
        /\ \A k \in DOMAIN blockMessageIds[h] :
             blockMessageIds'[h][k] = blockMessageIds[h][k]
  <2> TAKE h \in Heights
  <2>1. blockMessageIds[h] \in Seq(Ids)
    BY <1>7
  <2>2. CASE h = due
    <3>1. blockMessageIds'[h] = Append(blockMessageIds[h], nextId)
      BY <1>7, <2>2
    <3> QED
      BY <2>1, <2>2, <3>1, <1>3, AppendFacts
  <2>3. CASE h # due
    <3>1. blockMessageIds'[h] = blockMessageIds[h]
      BY <1>7, <2>3
    <3> QED
      BY <2>1, <2>3, <3>1
  <2> QED
    BY <2>2, <2>3
<1>9. blockMessageIds'[due][Len(blockMessageIds[due]) + 1] = nextId
  <2>1. /\ blockMessageIds[due] \in Seq(Ids)
        /\ blockMessageIds'[due] = Append(blockMessageIds[due], nextId)
    BY <1>1, <1>7
  <2> QED
    BY <2>1, <1>3, AppendFacts
<1>10. IndexAgrees'
  <2>1. ASSUME NEW id \in DOMAIN messages'
        PROVE  \E k \in DOMAIN blockMessageIds'[messages'[id].blockHeight] :
                 blockMessageIds'[messages'[id].blockHeight][k] = id
    <3>1. CASE id = nextId
      <4>1. messages'[id].blockHeight = due
        BY <1>2, <3>1
      <4>2. Len(blockMessageIds[due]) + 1 \in DOMAIN blockMessageIds'[due]
        BY <1>1, <1>8
      <4> QED
        BY <3>1, <4>1, <4>2, <1>9
    <3>2. CASE id # nextId
      <4>1. id \in DOMAIN messages /\ messages'[id] = messages[id]
        BY <3>2, <1>2
      <4>2. messages[id].blockHeight \in Heights
        BY <4>1 DEF StoreInv, TypeOK, DelayedMessage
      <4>3. PICK k \in DOMAIN blockMessageIds[messages[id].blockHeight] :
              blockMessageIds[messages[id].blockHeight][k] = id
        BY <4>1 DEF StoreInv, IndexAgrees
      <4>4. /\ k \in DOMAIN blockMessageIds'[messages[id].blockHeight]
            /\ blockMessageIds'[messages[id].blockHeight][k] = id
        BY <4>2, <4>3, <1>8
      <4> QED
        BY <4>1, <4>4
    <3> QED
      BY <3>1, <3>2
  <2>2. ASSUME NEW h \in Heights, NEW k \in DOMAIN blockMessageIds'[h]
        PROVE  /\ blockMessageIds'[h][k] \in DOMAIN messages'
               /\ messages'[blockMessageIds'[h][k]].blockHeight = h
    <3>1. CASE k \in DOMAIN blockMessageIds[h]
      BY <3>1, <1>2, <1>8 DEF StoreInv, IndexAgrees
    <3>2. CASE k \notin DOMAIN blockMessageIds[h]
      <4>1. h = due /\ k = Len(blockMessageIds[due]) + 1
        BY <3>2, <1>8
      <4> QED
        BY <4>1, <1>2, <1>9
    <3> QED
      BY <3>1, <3>2
  <2> QED
    BY <2>1, <2>2 DEF IndexAgrees
<1>11. AscendingIds'
  <2> SUFFICES ASSUME NEW h \in Heights,
                      NEW j \in DOMAIN blockMessageIds'[h],
                      NEW k \in DOMAIN blockMessageIds'[h], j < k
               PROVE  blockMessageIds'[h][j] < blockMessageIds'[h][k]
    BY DEF AscendingIds
  <2>1. j \in DOMAIN blockMessageIds[h]
    BY <1>8
  <2>2. CASE k \in DOMAIN blockMessageIds[h]
    BY <2>1, <2>2, <1>8 DEF StoreInv, AscendingIds
  <2>3. CASE k \notin DOMAIN blockMessageIds[h]
    <3>1. h = due /\ k = Len(blockMessageIds[due]) + 1
      BY <2>3, <1>8
    <3>2. blockMessageIds[h][j] < nextId
      BY <2>1 DEF StoreInv, IndexAgrees, IdsBelowNext
    <3> QED
      BY <2>1, <3>1, <3>2, <1>8, <1>9
  <2> QED
    BY <2>2, <2>3
<1>12. NothingStranded'
  <2> SUFFICES ASSUME NEW id \in DOMAIN messages'
               PROVE  height' <= messages'[id].blockHeight
    BY DEF NothingStranded
  <2>1. CASE id = nextId
    BY <2>1, <1>1, <1>2
  <2>2. CASE id # nextId
    BY <2>2, <1>1, <1>2 DEF StoreInv, NothingStranded
  <2> QED
    BY <2>1, <2>2
<1> QED
  BY <1>4, <1>5, <1>6, <1>10, <1>11, <1>12 DEF StoreInv

LEMMA DeletePreserves == ASSUME StoreInv, DeleteNext PROVE StoreInv'
<1> DEFINE s == blockMessageIds[height]
           gone == Head(toDelete)
<1>1. /\ gone \in DOMAIN messages
      /\ messages[gone].blockHeight = height
      /\ messages' = WithoutMessage(gone)
      /\ blockMessageIds' = [blockMessageIds EXCEPT ![height] = Tail(@)]
  BY DeleteHead
<1>2. /\ toDelete = s /\ s # <<>> /\ s \in Seq(Ids) /\ height \in Heights
      /\ toDelete' = Tail(toDelete) /\ phase = "endblock"
      /\ UNCHANGED <<height, phase, nextId, toExecute, attempts>>
  BY DEF StoreInv, LoopInv, DeleteNext, TypeOK, Heights
<1>3. /\ DOMAIN messages' = DOMAIN messages \ {gone}
      /\ \A id \in DOMAIN messages' : messages'[id] = messages[id]
  BY <1>1 DEF WithoutMessage
<1>4. /\ Tail(s) \in Seq(Ids) /\ Len(s) \in Nat \ {0}
      /\ DOMAIN s = 1 .. Len(s) /\ DOMAIN Tail(s) = 1 .. Len(s) - 1
      /\ \A k \in DOMAIN Tail(s) : Tail(s)[k] = s[k + 1]
      /\ gone = s[1]
  BY <1>2
<1>5. \A h \in Heights :
        blockMessageIds'[h] = IF h = height THEN Tail(s) ELSE blockMessageIds[h]
  BY <1>1, <1>2 DEF StoreInv, TypeOK
<1>6. TypeOK'
  <2>1. blockMessageIds' \in [Heights -> Seq(Ids)]
    BY <1>1, <1>2, <1>4 DEF StoreInv, TypeOK
  <2> QED
    BY <1>2, <1>3, <1>4, <2>1 DEF StoreInv, TypeOK
<1>7. IdsBelowNext' /\ NothingStranded'
  BY <1>2, <1>3 DEF StoreInv, IdsBelowNext, NothingStranded
<1>8. LoopInv'
  BY <1>2, <1>5 DEF LoopInv
<1>9. IndexAgrees'
  <2>1. ASSUME NEW id \in DOMAIN messages'
        PROVE  \E k \in DOMAIN blockMessageIds'[messages'[id].blockHeight] :
                 blockMessageIds'[messages'[id].blockHeight][k] = id
    <3>1. id \in DOMAIN messages /\ id # gone /\ messages'[id] = messages[id]
      BY <1>3
    <3>2. messages[id].blockHeight \in Heights
      BY <3>1 DEF StoreInv, TypeOK, DelayedMessage
    <3>3. PICK k \in DOMAIN blockMessageIds[messages[id].blockHeight] :
            blockMessageIds[messages[id].blockHeight][k] = id
      BY <3>1 DEF StoreInv, IndexAgrees
    <3>4. CASE messages[id].blockHeight = height
      <4>1. k \in 2 .. Len(s)
        BY <3>1, <3>3, <3>4, <1>4
      <4>2. k - 1 \in DOMAIN Tail(s) /\ Tail(s)[k - 1] = s[k]
        BY <4>1, <1>4
      <4> QED
        BY <3>1, <3>3, <3>4, <4>2, <1>2, <1>5
    <3>5. CASE messages[id].blockHeight # height
      BY <3>1, <3>2, <3>3, <3>5, <1>5
    <3> QED
      BY <3>4, <3>5
  <2>2. ASSUME NEW h \in Heights, NEW k \in DOMAIN blockMessageIds'[h]
        PROVE  /\ blockMessageIds'[h][k] \in DOMAIN messages'
               /\ messages'[blockMessageIds'[h][k]].blockHeight = h
    <3>1. CASE h = height
      <4>1. k \in DOMAIN Tail(s) /\ blockMessageIds'[h][k] = s[k + 1]
        BY <3>1, <1>4, <1>5
      <4>2. k + 1 \in DOMAIN s /\ 1 \in DOMAIN s /\ 1 < k + 1
        BY <4>1, <1>4
      <4>3. /\ s[k + 1] \in DOMAIN messages
            /\ messages[s[k + 1]].blockHeight = height
        BY <4>2, <1>2 DEF StoreInv, IndexAgrees
      <4>4. s[1] < s[k + 1]
        BY <4>2, <1>2 DEF StoreInv, AscendingIds
      <4>5. s[1] \in Int
        <5>1. s[1] \in Ids
          BY <4>2, <1>2, <1>4
        <5> QED
          BY <5>1 DEF Ids
      <4>6. s[k + 1] # gone
        BY <4>4, <4>5, <1>4
      <4> QED
        BY <3>1, <4>1, <4>3, <4>6, <1>3
    <3>2. CASE h # height
      <4>1. blockMessageIds'[h] = blockMessageIds[h]
        BY <3>2, <1>5
      <4>2. /\ blockMessageIds[h][k] \in DOMAIN messages
            /\ messages[blockMessageIds[h][k]].blockHeight = h
        BY <4>1 DEF StoreInv, IndexAgrees
      <4> QED
        BY <3>2, <4>1, <4>2, <1>1, <1>3
    <3> QED
      BY <3>1, <3>2
  <2> QED
    BY <2>1, <2>2 DEF IndexAgrees
<1>10. AscendingIds'
  <2> SUFFICES ASSUME NEW h \in Heights,
                      NEW j \in DOMAIN blockMessageIds'[h],
                      NEW k \in DOMAIN blockMessageIds'[h], j < k
               PROVE  blockMessageIds'[h][j] < blockMessageIds'[h][k]
    BY DEF AscendingIds
  <2>1. CASE h = height
    <3> blockMessageIds'[h] = Tail(s) /\ j \in DOMAIN Tail(s) /\ k \in DOMAIN Tail(s)
      BY <2>1, <1>5
    <3>1. /\ j + 1 \in DOMAIN s /\ k + 1 \in DOMAIN s /\ j + 1 < k + 1
          /\ blockMessageIds'[h][j] = s[j + 1]
          /\ blockMessageIds'[h][k] = s[k + 1]
      BY <2>1, <1>4, <1>5
    <3> QED
      BY <3>1, <1>2 DEF StoreInv, AscendingIds
  <2>2. CASE h # height
    BY <2>2, <1>5 DEF StoreInv, AscendingIds
  <2> QED
    BY <2>1, <2>2
<1> QED
  BY <1>6, <1>7, <1>8, <1>9, <1>10 DEF StoreInv

LEMMA CommitPreserves == ASSUME StoreInv, Commit PROVE StoreInv'
<1>1. /\ blockMessageIds[height] = <<>> /\ height \in Heights
      /\ height \in Nat /\ height' = height + 1 /\ height < MaxUint32
      /\ phase' = "deliver" /\ toExecute = <<>> /\ toDelete = <<>>
      /\ UNCHANGED <<nextId, messages, blockMessageIds, toExecute, toDelete,
                     attempts>>
  BY DEF StoreInv, LoopInv, Commit, TypeOK, Heights
<1>2. TypeOK' /\ IdsBelowNext' /\ LoopInv'
  BY <1>1, DelayMsgAssumption DEF StoreInv, TypeOK, IdsBelowNext, LoopInv
<1>3. IndexAgrees' /\ AscendingIds'
  BY <1>1 DEF StoreInv, IndexAgrees, AscendingIds
<1>4. NothingStranded'
  <2> SUFFICES ASSUME NEW id \in DOMAIN messages
               PROVE  height + 1 <= messages[id].blockHeight
    BY <1>1 DEF NothingStranded
  <2>1. messages[id].blockHeight \in Nat /\ height <= messages[id].blockHeight
    BY DEF StoreInv, NothingStranded, TypeOK, DelayedMessage, Heights
  <2>2. messages[id].blockHeight # height
    BY <1>1 DEF StoreInv, IndexAgrees
  <2> QED
    BY <2>1, <2>2, <1>1
<1> QED
  BY <1>2, <1>3, <1>4 DEF StoreInv

LEMMA DispatchPreserves ==
  ASSUME StoreInv, BeginDispatch \/ ExecuteNext \/ UNCHANGED vars
  PROVE  StoreInv'
<1>1. CASE BeginDispatch
  <2>1. height \in Heights
    BY DEF StoreInv, TypeOK, Heights
  <2> QED
    BY <1>1, <2>1 DEF BeginDispatch, GetBlockMessageIds, StoreInv, TypeOK, IdsBelowNext, LoopInv,
                      IndexAgrees, AscendingIds, NothingStranded
<1>2. CASE ExecuteNext
  <2>1. Head(toExecute) \in Ids /\ Tail(toExecute) \in Seq(Ids)
        /\ height \in Heights
    BY <1>2 DEF ExecuteNext, StoreInv, TypeOK, Heights
  <2> DEFINE Attempt == [id : Ids, height : Heights, ok : BOOLEAN]
  <2>2. PICK ok \in BOOLEAN :
          attempts' = IF Head(toExecute) \in DOMAIN messages
                        THEN Append(attempts, [id |-> Head(toExecute),
                                               height |-> height, ok |-> ok])
                        ELSE attempts
    BY <1>2 DEF ExecuteNext
  <2>3. [id |-> Head(toExecute), height |-> height, ok |-> ok] \in Attempt
    BY <2>1
  <2>4. attempts' \in Seq(Attempt)
    <3>1. attempts \in Seq(Attempt)
      BY DEF StoreInv, TypeOK
    <3> HIDE DEF Attempt
    <3> QED
      BY <2>2, <2>3, <3>1
  <2>5. TypeOK'
    BY <1>2, <2>1, <2>4 DEF ExecuteNext, AfterExecution, StoreInv, TypeOK
  <2> QED
    BY <1>2, <2>5 DEF ExecuteNext, StoreInv, IdsBelowNext, LoopInv,
                      IndexAgrees, AscendingIds, NothingStranded
<1>3. CASE UNCHANGED vars
  BY <1>3 DEF vars, StoreInv, TypeOK, IdsBelowNext, LoopInv, IndexAgrees,
              AscendingIds, NothingStranded
<1> QED
  BY <1>1, <1>2, <1>3

\* The inductive invariant holds throughout.
THEOREM StoreInvHolds == Spec => []StoreInv
<1>1. Init => StoreInv
  BY InitStoreInv
<1>2. StoreInv /\ [Next]_vars => StoreInv'
  BY DelayPreserves, DeletePreserves, CommitPreserves, DispatchPreserves
     DEF Next, EndBlock
<1> QED
  BY <1>1, <1>2, PTL DEF Spec

\* Every message is listed exactly under its height, in the order in which
\* messages were delayed, whatever fails in DispatchMessagesForBlock.
THEOREM StoresAgree == Spec => [](IndexAgrees /\ AscendingIds)
<1>1. StoreInv => IndexAgrees /\ AscendingIds
  BY DEF StoreInv
<1> QED
  BY <1>1, StoreInvHolds, PTL

\* DispatchMessagesForBlock leaves no message of a past block in the store.
THEOREM NoneStranded == Spec => []NothingStranded
<1>1. StoreInv => NothingStranded
  BY DEF StoreInv
<1> QED
  BY <1>1, StoreInvHolds, PTL

-----------------------------------------------------------------------------
(* DelayMsg implements DelayQueue.                                         *)

\* The messages that the block may still attempt: those of later blocks, and
\* those the executing loop has not reached.
Later == {id \in DOMAIN messages : messages[id].blockHeight # height}
Reached(ids, id) == \E k \in DOMAIN ids : ids[k] = id

\* What the executing loop has left is in ascending order, listed for this
\* block, and exactly what is due and was not attempted.
AttemptInv ==
  /\ \A k \in DOMAIN attempts : attempts[k].id < nextId
  /\ phase = "deliver" => Unattempted = DOMAIN messages
  /\ phase = "endblock" =>
       \A id \in DOMAIN messages :
         id \in Unattempted <=> id \in Later \/ Reached(toExecute, id)
  /\ \A k \in DOMAIN toExecute : Reached(blockMessageIds[height], toExecute[k])
  /\ \A j, k \in DOMAIN toExecute : j < k => toExecute[j] < toExecute[k]

QueueInv == StoreInv /\ AttemptInv

\* The last conjuncts of AttemptInv for what is left after one iteration.
LEMMA TailFacts ==
  ASSUME NEW s \in Seq(Ids), s # <<>>
  PROVE  /\ Tail(s) \in Seq(Ids) /\ Len(s) \in Nat \ {0}
         /\ DOMAIN s = 1 .. Len(s) /\ DOMAIN Tail(s) = 1 .. Len(s) - 1
         /\ \A k \in DOMAIN Tail(s) : k + 1 \in DOMAIN s /\ Tail(s)[k] = s[k + 1]
         /\ \A k \in DOMAIN s : k # 1 => k - 1 \in DOMAIN Tail(s) /\ Tail(s)[k - 1] = s[k]
         /\ Head(s) = s[1] /\ 1 \in DOMAIN s
OBVIOUS

\* The message the executing loop stands on is stored, due now, not attempted
\* before, and the smallest of those.
LEMMA HeadIsNext ==
  ASSUME QueueInv, phase = "endblock", toExecute # <<>>
  PROVE  LET id == Head(toExecute)
         IN  /\ id \in Unattempted
             /\ id \in DOMAIN messages
             /\ messages[id].blockHeight = height
             /\ \A other \in Unattempted :
                  messages[other].blockHeight <= height => id <= other
<1> DEFINE id == Head(toExecute)
<1>1. toExecute \in Seq(Ids) /\ height \in Heights
  BY DEF QueueInv, StoreInv, TypeOK, Heights
<1>2. id = toExecute[1] /\ 1 \in DOMAIN toExecute /\ DOMAIN toExecute \subseteq Nat \ {0}
  BY <1>1, TailFacts
<1>3. PICK k \in DOMAIN blockMessageIds[height] : blockMessageIds[height][k] = id
  BY <1>2 DEF QueueInv, AttemptInv, Reached
<1>4. id \in DOMAIN messages /\ messages[id].blockHeight = height
  BY <1>1, <1>3 DEF QueueInv, StoreInv, IndexAgrees
<1>5. id \in Unattempted
  BY <1>2, <1>4 DEF QueueInv, AttemptInv, Reached
<1>6. ASSUME NEW other \in Unattempted, messages[other].blockHeight <= height
      PROVE  id <= other
  <2>1. other \in DOMAIN messages
    BY DEF Unattempted
  <2>2. messages[other].blockHeight = height
    BY <2>1, <1>6 DEF QueueInv, StoreInv, NothingStranded, TypeOK, DelayedMessage, Heights
  <2>3. PICK j \in DOMAIN toExecute : toExecute[j] = other
    BY <2>1, <2>2 DEF QueueInv, AttemptInv, Later, Reached
  <2>4. j = 1 \/ 1 < j
    BY <1>2
  <2>5. id \in Int /\ other \in Int
    BY <1>4, <2>1 DEF QueueInv, StoreInv, TypeOK, Ids
  <2> QED
    BY <1>2, <2>3, <2>4, <2>5 DEF QueueInv, AttemptInv
<1> QED
  BY <1>4, <1>5, <1>6

LEMMA InitAttemptInv == Init => AttemptInv
BY DEF Init, AttemptInv, Unattempted, Reached

\* A new message was never attempted: its id is the next one.
LEMMA DelayAttempts ==
  ASSUME QueueInv, NEW msg \in Msgs, NEW blockDelay \in Heights,
         DelayMessageByBlocks(msg, blockDelay)
  PROVE  /\ Unattempted' = Unattempted \cup {nextId}
         /\ AttemptInv'
<1>1. /\ nextId \in Nat /\ nextId' = nextId + 1 /\ phase = "deliver"
      /\ DOMAIN messages' = DOMAIN messages \cup {nextId}
      /\ UNCHANGED <<phase, toExecute, attempts>>
      /\ toExecute = <<>>
  BY DEF DelayMessageByBlocks, WithMessage, QueueInv, StoreInv, TypeOK, Ids, LoopInv
<1>2. attempts \in Seq([id : Ids, height : Heights, ok : BOOLEAN])
  BY DEF QueueInv, StoreInv, TypeOK
<1>3. \A k \in DOMAIN attempts : attempts[k].id \in Nat /\ attempts[k].id < nextId
  <2> DEFINE A == [id : Ids, height : Heights, ok : BOOLEAN]
  <2> TAKE k \in DOMAIN attempts
  <2>1. attempts \in Seq(A)
    BY <1>2
  <2>2. \A a \in A : a.id \in Nat
    BY DEF Ids
  <2> HIDE DEF A
  <2>3. attempts[k] \in A
    BY <2>1
  <2> QED
    BY <2>2, <2>3 DEF QueueInv, AttemptInv
<1>4. Unattempted' = Unattempted \cup {nextId}
  BY <1>1, <1>3 DEF Unattempted
<1>5. Unattempted = DOMAIN messages
  BY <1>1 DEF QueueInv, AttemptInv
<1>6. \A k \in DOMAIN attempts' : attempts'[k].id < nextId'
  BY <1>1, <1>3
<1> QED
  BY <1>1, <1>4, <1>5, <1>6 DEF AttemptInv

\* The loops start on all messages of the block.
LEMMA BeginAttempts ==
  ASSUME QueueInv, BeginDispatch
  PROVE  Unattempted' = Unattempted /\ AttemptInv'
<1>1. /\ height \in Heights /\ phase = "deliver" /\ phase' = "endblock"
      /\ toExecute' = blockMessageIds[height]
      /\ UNCHANGED <<height, nextId, messages, blockMessageIds, attempts>>
  BY DEF BeginDispatch, GetBlockMessageIds, QueueInv, StoreInv, TypeOK, Heights
<1>2. Unattempted' = Unattempted /\ Later' = Later
  BY <1>1 DEF Unattempted, Later
<1>3. Unattempted = DOMAIN messages
  BY <1>1 DEF QueueInv, AttemptInv
<1>4. ASSUME NEW id \in DOMAIN messages, id \notin Later
      PROVE  Reached(blockMessageIds[height], id)
  BY <1>4 DEF Later, Reached, QueueInv, StoreInv, IndexAgrees
<1>5. \A j, k \in DOMAIN toExecute' : j < k => toExecute'[j] < toExecute'[k]
  BY <1>1 DEF QueueInv, StoreInv, AscendingIds
<1>6. \A k \in DOMAIN toExecute' : Reached(blockMessageIds'[height'], toExecute'[k])
  BY <1>1 DEF Reached
<1>7. \A id \in DOMAIN messages' :
        id \in Unattempted' <=> id \in Later' \/ Reached(toExecute', id)
  BY <1>1, <1>2, <1>3, <1>4
<1>8. \A k \in DOMAIN attempts' : attempts'[k].id < nextId'
  BY <1>1 DEF QueueInv, AttemptInv
<1> QED
  BY <1>1, <1>2, <1>5, <1>6, <1>7, <1>8 DEF AttemptInv

\* One iteration attempts the message it stands on, and no other.
LEMMA ExecuteAttempts ==
  ASSUME QueueInv, ExecuteNext
  PROVE  /\ Unattempted' = Unattempted \ {Head(toExecute)}
         /\ \E ok \in BOOLEAN :
              attempts' = Append(attempts, [id |-> Head(toExecute), height |-> height,
                                            ok |-> ok])
         /\ AttemptInv'
<1> DEFINE gone == Head(toExecute)
           Entry(ok) == [id |-> gone, height |-> height, ok |-> ok]
<1>1. /\ phase = "endblock" /\ toExecute # <<>> /\ toExecute' = Tail(toExecute)
      /\ UNCHANGED <<height, phase, nextId, messages, blockMessageIds>>
  BY DEF ExecuteNext, AfterExecution
<1>2. /\ gone \in Unattempted /\ gone \in DOMAIN messages
      /\ messages[gone].blockHeight = height
  BY <1>1, HeadIsNext
<1>3. PICK ok \in BOOLEAN : attempts' = Append(attempts, Entry(ok))
  BY <1>2 DEF ExecuteNext
<1>4. toExecute \in Seq(Ids) /\ nextId \in Nat /\ DOMAIN messages \subseteq Nat
  BY DEF QueueInv, StoreInv, TypeOK, Ids
<1>5. /\ DOMAIN attempts' = DOMAIN attempts \cup {Len(attempts) + 1}
      /\ \A k \in DOMAIN attempts : attempts'[k] = attempts[k]
      /\ attempts'[Len(attempts) + 1].id = gone
  <2> DEFINE A == [id : Ids, height : Heights, ok : BOOLEAN]
  <2>1. attempts \in Seq(A)
    BY DEF QueueInv, StoreInv, TypeOK
  <2>2. Entry(ok) \in A
    BY <1>2 DEF QueueInv, StoreInv, TypeOK, Heights
  <2>3. Entry(ok).id = gone
    OBVIOUS
  <2> HIDE DEF A, Entry
  <2>4. /\ DOMAIN attempts = 1 .. Len(attempts) /\ Len(attempts) \in Nat
        /\ DOMAIN attempts' = 1 .. Len(attempts) + 1
        /\ \A k \in DOMAIN attempts : attempts'[k] = attempts[k]
        /\ attempts'[Len(attempts) + 1] = Entry(ok)
    BY <2>1, <2>2, <1>3, AppendFacts
  <2> QED
    BY <2>3, <2>4
<1>6. Unattempted' = Unattempted \ {gone}
  BY <1>1, <1>5 DEF Unattempted
<1>7. \A k \in DOMAIN attempts' : attempts'[k].id < nextId'
  BY <1>1, <1>2, <1>5 DEF QueueInv, StoreInv, IdsBelowNext, AttemptInv
<1>8. /\ DOMAIN toExecute \subseteq Nat \ {0} /\ 1 \in DOMAIN toExecute /\ gone = toExecute[1]
      /\ \A k \in DOMAIN toExecute' :
           k \in Nat \ {0} /\ k + 1 \in DOMAIN toExecute /\ toExecute'[k] = toExecute[k + 1]
      /\ \A k \in DOMAIN toExecute : k # 1 =>
           k - 1 \in DOMAIN toExecute' /\ toExecute'[k - 1] = toExecute[k]
  BY <1>1, <1>4, TailFacts
<1>9. \A j, k \in DOMAIN toExecute' : j < k => toExecute'[j] < toExecute'[k]
  BY <1>8 DEF QueueInv, AttemptInv
<1>10. \A k \in DOMAIN toExecute' : Reached(blockMessageIds'[height'], toExecute'[k])
  BY <1>1, <1>8 DEF QueueInv, AttemptInv
<1>11. ASSUME NEW id \in DOMAIN messages
       PROVE  Reached(toExecute', id) <=> Reached(toExecute, id) /\ id # gone
  <2>1. ASSUME Reached(toExecute', id) PROVE Reached(toExecute, id) /\ id # gone
    <3>1. PICK k \in DOMAIN toExecute' : toExecute'[k] = id
      BY <2>1 DEF Reached
    <3>2. k + 1 \in DOMAIN toExecute /\ toExecute[k + 1] = id /\ 1 < k + 1
      BY <3>1, <1>8
    <3>3. gone < id
      BY <3>2, <1>8 DEF QueueInv, AttemptInv
    <3>4. gone \in Nat /\ id \in Nat
      BY <1>2, <1>4
    <3> QED
      BY <3>2, <3>3, <3>4 DEF Reached
  <2>2. ASSUME Reached(toExecute, id), id # gone PROVE Reached(toExecute', id)
    BY <2>2, <1>8 DEF Reached
  <2> QED
    BY <2>1, <2>2
<1>12. Later' = Later /\ gone \notin Later
  BY <1>1, <1>2 DEF Later
<1>13. \A id \in DOMAIN messages' :
         id \in Unattempted' <=> id \in Later' \/ Reached(toExecute', id)
  BY <1>1, <1>6, <1>11, <1>12 DEF QueueInv, AttemptInv
<1>14. AttemptInv'
  BY <1>1, <1>7, <1>9, <1>10, <1>13 DEF AttemptInv
<1> QED
  BY <1>3, <1>6, <1>14

\* Only attempted messages are deleted.
LEMMA DeleteAttempts ==
  ASSUME QueueInv, DeleteNext
  PROVE  /\ Unattempted' = Unattempted
         /\ \A id \in Unattempted : messages'[id] = messages[id]
         /\ AttemptInv'
<1> DEFINE gone == Head(toDelete)
<1>1. /\ phase = "endblock" /\ toExecute = <<>>
      /\ UNCHANGED <<height, phase, nextId, toExecute, attempts>>
  BY DEF DeleteNext
<1>2. /\ gone \in DOMAIN messages /\ messages[gone].blockHeight = height
      /\ messages' = WithoutMessage(gone)
  BY DeleteHead DEF QueueInv
<1>3. /\ DOMAIN messages' = DOMAIN messages \ {gone}
      /\ \A id \in DOMAIN messages' : messages'[id] = messages[id]
  BY <1>2 DEF WithoutMessage
<1>4. gone \notin Unattempted
  BY <1>1, <1>2 DEF QueueInv, AttemptInv, Later, Reached
<1>5. Unattempted' = Unattempted
  BY <1>1, <1>3, <1>4 DEF Unattempted
<1>6. \A id \in DOMAIN messages' : id \in Later' <=> id \in Later
  BY <1>1, <1>3 DEF Later
<1>7. AttemptInv'
  BY <1>1, <1>3, <1>5, <1>6 DEF QueueInv, AttemptInv, Reached
<1> QED
  BY <1>3, <1>4, <1>5, <1>7 DEF Unattempted

\* A block is committed when nothing of it is left.
LEMMA CommitAttempts ==
  ASSUME QueueInv, Commit
  PROVE  /\ Unattempted' = Unattempted
         /\ \A id \in Unattempted : height < messages[id].blockHeight
         /\ AttemptInv'
<1>1. /\ phase = "endblock" /\ phase' = "deliver" /\ toExecute = <<>> /\ toDelete = <<>>
      /\ UNCHANGED <<nextId, messages, blockMessageIds, toExecute, attempts>>
      /\ height \in Heights /\ height \in Nat /\ blockMessageIds[height] = <<>>
  BY DEF Commit, QueueInv, StoreInv, LoopInv, TypeOK, Heights
<1>2. \A id \in DOMAIN messages : messages[id].blockHeight # height
  BY <1>1 DEF QueueInv, StoreInv, IndexAgrees
<1>3. \A id \in DOMAIN messages : height < messages[id].blockHeight
  BY <1>1, <1>2 DEF QueueInv, StoreInv, NothingStranded, TypeOK, DelayedMessage, Heights
<1>4. Unattempted = DOMAIN messages
  BY <1>1, <1>2 DEF QueueInv, AttemptInv, Later, Unattempted
<1>5. Unattempted' = Unattempted
  BY <1>1 DEF Unattempted
<1>6. AttemptInv'
  BY <1>1, <1>4, <1>5 DEF QueueInv, AttemptInv
<1> QED
  BY <1>3, <1>4, <1>5, <1>6

LEMMA NextAttemptInv == QueueInv /\ [Next]_vars => AttemptInv'
<1> SUFFICES ASSUME QueueInv, [Next]_vars PROVE AttemptInv'
  OBVIOUS
<1>1. CASE UNCHANGED vars
  BY <1>1 DEF vars, QueueInv, AttemptInv, Unattempted, Later, Reached
<1> QED
  BY <1>1, DelayAttempts, BeginAttempts, ExecuteAttempts, DeleteAttempts, CommitAttempts
     DEF Next, EndBlock

\* What every step of DelayMsg is to its callers.
LEMMA StepImplements ==
  ASSUME QueueInv, [Next]_vars
  PROVE  [Queue!Next]_(Queue!queueVars)
<1> DEFINE pending == [id \in Unattempted |-> messages[id]]
<1>1. ASSUME NEW msg \in Msgs, NEW blockDelay \in Heights,
             DelayMessageByBlocks(msg, blockDelay)
      PROVE  Queue!Next
  <2> DEFINE due == height + blockDelay
  <2>1. /\ msg \in Routable /\ due \in height .. MaxUint32 /\ due \in 0 .. MaxUint32
        /\ nextId \in Nat /\ nextId' = nextId + 1 /\ UNCHANGED <<height, attempts>>
        /\ messages' = WithMessage(nextId, [msg |-> msg, blockHeight |-> due])
        /\ nextId \notin DOMAIN messages
    BY <1>1, DelayMsgAssumption DEF DelayMessageByBlocks, ValidateMsg, FitsUint32, QueueInv, StoreInv,
       TypeOK, Heights, Ids
  <2>2. Unattempted' = Unattempted \cup {nextId}
    BY <1>1, DelayAttempts
  <2>3. \A id \in Unattempted : id \in DOMAIN messages /\ id < nextId /\ messages'[id] = messages[id]
    BY <2>1 DEF Unattempted, QueueInv, StoreInv, IdsBelowNext, WithMessage
  <2>4. messages'[nextId] = [msg |-> msg, blockHeight |-> due]
    BY <2>1 DEF WithMessage
  <2>5. nextId .. nextId + Len(<<msg>>) - 1 = {nextId} /\ nextId' = nextId + Len(<<msg>>)
    BY <2>1
  <2>6. pending' = [id \in DOMAIN pending \cup nextId .. nextId + Len(<<msg>>) - 1 |->
                      IF id < nextId
                        THEN pending[id]
                        ELSE [msg |-> <<msg>>[id - nextId + 1], blockHeight |-> due]]
    <3>1. <<msg>>[nextId - nextId + 1] = msg /\ ~(nextId < nextId)
      BY <2>1
    <3> QED
      BY <2>2, <2>3, <2>4, <2>5, <3>1
  <2>7. PICK d \in 0 .. MaxUint32 : d = due
    BY <2>1
  <2>8. Queue!Delay(<<msg>>, d)
    BY <2>1, <2>5, <2>6, <2>7 DEF Queue!Delay
  <2> QED
    BY <2>1, <2>8 DEF Queue!Next
<1>2. ASSUME ExecuteNext PROVE Queue!Next
  <2> DEFINE id == Head(toExecute)
  <2>1. /\ phase = "endblock" /\ toExecute # <<>> /\ UNCHANGED <<height, nextId, messages>>
    BY <1>2 DEF ExecuteNext
  <2>2. /\ id \in Unattempted /\ messages[id].blockHeight = height /\ height \in Nat
        /\ \A other \in Unattempted : messages[other].blockHeight <= height => id <= other
    BY <2>1, HeadIsNext DEF QueueInv, StoreInv, TypeOK
  <2>3. Unattempted' = Unattempted \ {id}
    BY <1>2, ExecuteAttempts
  <2>4. PICK ok \in BOOLEAN :
          attempts' = Append(attempts, [id |-> id, height |-> height, ok |-> ok])
    BY <1>2, ExecuteAttempts
  <2>5. pending' = [other \in DOMAIN pending \ {id} |-> pending[other]]
    BY <2>1, <2>3
  <2>6. id \in Queue!DueBy(height) /\ \A other \in Queue!DueBy(height) : id <= other
    BY <2>2 DEF Queue!DueBy
  <2>7. Queue!Attempt(id, ok)
    BY <2>1, <2>4, <2>5, <2>6 DEF Queue!Attempt
  <2> QED
    BY <2>2, <2>7 DEF Queue!Next
<1>3. ASSUME Commit PROVE Queue!Next
  <2>1. /\ Unattempted' = Unattempted
        /\ \A id \in Unattempted : height < messages[id].blockHeight
    BY <1>3, CommitAttempts
  <2>2. \A id \in Unattempted : messages[id].blockHeight \in Nat
    BY DEF Unattempted, QueueInv, StoreInv, TypeOK, DelayedMessage, Heights
  <2>3. height \in Nat
    BY DEF QueueInv, StoreInv, TypeOK
  <2>4. Queue!DueBy(height) = {}
    BY <2>1, <2>2, <2>3 DEF Queue!DueBy
  <2>5. pending' = pending
    BY <1>3, <2>1 DEF Commit
  <2> QED
    BY <1>3, <2>4, <2>5 DEF Commit, Queue!NextBlock, Queue!Next
<1>4. ASSUME BeginDispatch \/ DeleteNext \/ UNCHANGED vars
      PROVE  UNCHANGED Queue!queueVars
  <2>1. UNCHANGED <<height, nextId, attempts>>
    BY <1>4 DEF BeginDispatch, DeleteNext, vars
  <2>2. Unattempted' = Unattempted /\ \A id \in Unattempted : messages'[id] = messages[id]
    <3>1. CASE DeleteNext
      BY <3>1, DeleteAttempts
    <3>2. CASE BeginDispatch \/ UNCHANGED vars
      BY <3>2 DEF BeginDispatch, vars, Unattempted
    <3> QED
      BY <1>4, <3>1, <3>2
  <2>3. pending' = pending
    BY <2>2
  <2> QED
    BY <2>1, <2>3 DEF Queue!queueVars
<1> QED
  BY <1>1, <1>2, <1>3, <1>4 DEF Next, EndBlock

\* Every attempt of a message is the one that DelayQueue allows at that moment:
\* the two stores and the two loops of DispatchMessagesForBlock implement a queue
\* that attempts each message once, at its block, in the order of the calls of
\* DelayMessageByBlocks.
THEOREM DelayMsgImplementsQueue == Spec => ImplementsQueue
<1>1. Init => Queue!Init
  BY DEF Init, Queue!Init, Unattempted
<1>2. Init => AttemptInv
  BY InitAttemptInv
<1>3. StoreInv /\ AttemptInv /\ [Next]_vars => AttemptInv'
  BY NextAttemptInv DEF QueueInv
<1>4. StoreInv /\ AttemptInv /\ [Next]_vars => [Queue!Next]_(Queue!queueVars)
  BY StepImplements DEF QueueInv
<1> QED
  BY <1>1, <1>2, <1>3, <1>4, StoreInvHolds, PTL DEF Spec, ImplementsQueue, Queue!Spec
=============================================================================

------------------------------ MODULE DelayMsg ------------------------------
(***************************************************************************)
(* x/delaymsg: messages (a governance message, a MsgCompleteBridge, a      *)
(* MsgUnlockShares) are stored under an id and executed at the end of the  *)
(* block whose height was fixed when they were delayed.                    *)
(*                                                                         *)
(* The keeper keeps two prefix stores that must agree: the messages by id, *)
(* and for every block height the ids to execute there.  A height that has *)
(* no entry in the second store is modelled by the empty sequence: the     *)
(* code deletes an entry the moment it becomes empty.                      *)
(*                                                                         *)
(* EndBlocker runs two loops over a SNAPSHOT of the ids of the block, one  *)
(* executing and one deleting.  Each iteration is an action here, so that  *)
(* what a failing iteration leaves behind is visible.                      *)
(***************************************************************************)
EXTENDS Integers, Sequences

CONSTANTS
  Msgs,         \* the messages other modules may try to delay
  Routable,     \* those that pass ValidateMsg (routable, valid, right signer)
  MaxUint32,    \* the last block height a uint32 can hold
  MaxMessages   \* bound: how many messages are ever delayed

ASSUME DelayMsgAssumption ==
  /\ Routable \subseteq Msgs
  /\ MaxUint32 \in Nat \ {0}
  /\ MaxMessages \in Nat

VARIABLES
  height,           \* ctx.BlockHeight()
  phase,            \* "deliver" while transactions and earlier EndBlockers run,
                    \* "endblock" while DispatchMessagesForBlock runs
  nextId,           \* NextDelayedMessageId
  messages,         \* id |-> [msg, blockHeight], the DelayedMessage store
  blockMessageIds,  \* height |-> ids, the BlockMessageIds store
  toExecute,        \* ids the executing loop has still to visit
  toDelete,         \* ids the deleting loop has still to visit
  attempts          \* history: every execution attempted, in order

vars == <<height, phase, nextId, messages, blockMessageIds, toExecute,
          toDelete, attempts>>

Heights == 0 .. MaxUint32
Ids == 0 .. MaxMessages
DelayedMessage == [msg : Msgs, blockHeight : Heights]

Init ==
  /\ height = 1
  /\ phase = "deliver"
  /\ nextId = 0
  /\ messages = [id \in {} |-> 0]
  /\ blockMessageIds = [h \in Heights |-> <<>>]
  /\ toExecute = <<>>
  /\ toDelete = <<>>
  /\ attempts = <<>>

-----------------------------------------------------------------------------
(* Keeper operations.                                                      *)

ValidateMsg(msg) == msg \in Routable

\* The message store with one more entry.
WithMessage(id, entry) ==
  [i \in DOMAIN messages \cup {id} |-> IF i = id THEN entry ELSE messages[i]]

WithoutMessage(id) == [i \in DOMAIN messages \ {id} |-> messages[i]]

\* A slice with the element at position k cut out.
CutAt(s, k) == SubSeq(s, 1, k - 1) \o SubSeq(s, k + 1, Len(s))

Positions(s, e) == {k \in 1 .. Len(s) : s[k] = e}

\* Mutant: the new id is put in front of the ids already listed.
ListInFront(id, h) == [blockMessageIds EXCEPT ![h] = <<id>> \o @]

\* addMessageIdToBlock: the id goes to the end of the list of its block.
AddMessageIdToBlock(id, h) == [blockMessageIds EXCEPT ![h] = Append(@, id)]

\* Mutant: the message is deleted and its listing forgotten.
KeepListing(id, h) == blockMessageIds

\* deleteMessageIdFromBlock: the first occurrence goes, order is kept; an id
\* that is not listed is an error that changes nothing.
DeleteMessageIdFromBlock(id, h) ==
  IF Positions(blockMessageIds[h], id) = {}
    THEN blockMessageIds
    ELSE LET first == CHOOSE k \in Positions(blockMessageIds[h], id) :
                        \A j \in Positions(blockMessageIds[h], id) : k <= j
         IN  [blockMessageIds EXCEPT ![h] = CutAt(@, first)]

\* AddUint32 only refuses a sum that overflows int64; it is the conversion to
\* uint32 after it that fails, by a panic the caller recovers from.
FitsUint32(due) == due \in Heights

\* Mutant: the last id of the block is left out.
AllButLastId(h) ==
  SubSeq(blockMessageIds[h], 1, Len(blockMessageIds[h]) - 1)

GetBlockMessageIds(h) == blockMessageIds[h]

-----------------------------------------------------------------------------
(* DelayMessageByBlocks, called by the message server (governance), by     *)
(* bridge acknowledgements and by vault share locks.  All callers run      *)
(* before this module's EndBlocker.  A call that fails (an invalid         *)
(* message, a height beyond uint32, an id in use) changes nothing.         *)
DelayMessageByBlocks(msg, blockDelay) ==
  LET due == height + blockDelay
  IN  /\ phase = "deliver"
      /\ nextId < MaxMessages
      /\ FitsUint32(due)
      /\ ValidateMsg(msg)
      /\ height <= due
      /\ nextId \notin DOMAIN messages
      /\ messages' = WithMessage(nextId, [msg |-> msg, blockHeight |-> due])
      /\ blockMessageIds' = AddMessageIdToBlock(nextId, due)
      /\ nextId' = nextId + 1
      /\ UNCHANGED <<height, phase, toExecute, toDelete, attempts>>

\* The ids of the block are read once; both loops range over that copy.
BeginDispatch ==
  /\ phase = "deliver"
  /\ phase' = "endblock"
  /\ toExecute' = GetBlockMessageIds(height)
  /\ toDelete' = GetBlockMessageIds(height)
  /\ UNCHANGED <<height, nextId, messages, blockMessageIds, attempts>>

\* What the executing loop still has to visit after one message: RunCached
\* turns a failed or panicking handler into a logged error, the loop goes on.
AfterExecution(ids, ok) == Tail(ids)

\* One iteration of the executing loop.
ExecuteNext ==
  /\ phase = "endblock"
  /\ toExecute # <<>>
  /\ \E ok \in BOOLEAN :
       /\ toExecute' = AfterExecution(toExecute, ok)
       /\ attempts' = IF Head(toExecute) \in DOMAIN messages
                        THEN Append(attempts, [id |-> Head(toExecute),
                                               height |-> height, ok |-> ok])
                        ELSE attempts
  /\ UNCHANGED <<height, phase, nextId, messages, blockMessageIds, toDelete>>

\* One iteration of the deleting loop: DeleteMessage removes the message
\* first and the listing second; errors are only logged.
DeleteNext ==
  /\ phase = "endblock"
  /\ toExecute = <<>>
  /\ toDelete # <<>>
  /\ toDelete' = Tail(toDelete)
  /\ LET id == Head(toDelete)
     IN  IF id \in DOMAIN messages
           THEN /\ messages' = WithoutMessage(id)
                /\ blockMessageIds' =
                     DeleteMessageIdFromBlock(id, messages[id].blockHeight)
           ELSE UNCHANGED <<messages, blockMessageIds>>
  /\ UNCHANGED <<height, phase, nextId, toExecute, attempts>>

\* The block is committed.  At the last uint32 height the conversion of the
\* block height panics, so the chain stops there.
Commit ==
  /\ phase = "endblock"
  /\ toExecute = <<>>
  /\ toDelete = <<>>
  /\ height < MaxUint32
  /\ height' = height + 1
  /\ phase' = "deliver"
  /\ UNCHANGED <<nextId, messages, blockMessageIds, toExecute, toDelete,
                 attempts>>

EndBlock == BeginDispatch \/ ExecuteNext \/ DeleteNext \/ Commit

Next ==
  \/ \E msg \in Msgs, blockDelay \in Heights :
       DelayMessageByBlocks(msg, blockDelay)
  \/ EndBlock

Spec == Init /\ [][Next]_vars

\* Consensus keeps producing blocks.
FairSpec == Spec /\ WF_vars(EndBlock)

-----------------------------------------------------------------------------
(* Properties.                                                             *)

TypeOK ==
  /\ height \in 1 .. MaxUint32
  /\ phase \in {"deliver", "endblock"}
  /\ nextId \in Ids
  /\ DOMAIN messages \subseteq Ids
  /\ \A id \in DOMAIN messages : messages[id] \in DelayedMessage
  /\ blockMessageIds \in [Heights -> Seq(Ids)]
  /\ toExecute \in Seq(Ids)
  /\ toDelete \in Seq(Ids)
  /\ attempts \in Seq([id : Ids, height : Heights, ok : BOOLEAN])

\* The two stores agree between any two iterations: every stored message is
\* listed once, under its own height, and every listed id is a stored message
\* of that height.  DeleteMessage relies on it: if it failed, the deletion
\* would leave a dangling id or an unreachable message behind.
IndexAgrees ==
  /\ \A id \in DOMAIN messages :
       \E k \in DOMAIN blockMessageIds[messages[id].blockHeight] :
         blockMessageIds[messages[id].blockHeight][k] = id
  /\ \A h \in Heights : \A k \in DOMAIN blockMessageIds[h] :
       /\ blockMessageIds[h][k] \in DOMAIN messages
       /\ messages[blockMessageIds[h][k]].blockHeight = h

\* "the message ids for a block height will always be in ascending order":
\* the loops run delayed messages in the order they were delayed.
AscendingIds ==
  \A h \in Heights : \A j, k \in DOMAIN blockMessageIds[h] :
    j < k => blockMessageIds[h][j] < blockMessageIds[h][k]

\* No message is left behind: a message whose height has passed is gone, so
\* nothing waits for a block that will never come again.
NothingStranded ==
  \A id \in DOMAIN messages : height <= messages[id].blockHeight

\* What is pending to the callers: stored and not attempted yet.
Unattempted ==
  {id \in DOMAIN messages : \A k \in DOMAIN attempts : attempts[k].id # id}

Queue == INSTANCE DelayQueue WITH
  Payloads <- Routable,
  MaxHeight <- MaxUint32,
  pending <- [id \in Unattempted |-> messages[id]],
  log <- attempts

\* The two stores and the two loops over a snapshot implement the queue the
\* callers count on: every message is attempted once, at its block, in the
\* order of the calls, and the block does not end before.
ImplementsQueue == Queue!Spec

\* A delayed message is eventually taken out of the store.
EventuallyDispatched ==
  \A id \in Ids : id \in DOMAIN messages ~> id \notin DOMAIN messages
=============================================================================

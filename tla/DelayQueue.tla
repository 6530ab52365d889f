----------------------------- MODULE DelayQueue -----------------------------
(***************************************************************************)
(* What x/delaymsg promises to the modules that delay messages through it: *)
(* a queue ordered by due block, first come first served within a block,   *)
(* which attempts each message exactly once, at the block it is due.       *)
(* DelayMsg implements it with two stores and two loops.                   *)
(***************************************************************************)
EXTENDS Integers, Sequences

CONSTANTS
  Payloads,   \* the messages the queue may carry
  MaxHeight   \* the last block

VARIABLES
  height,     \* the current block
  nextId,     \* the id of the next message
  pending,    \* id |-> [msg, blockHeight]: delayed and not attempted yet
  log         \* every attempt so far, in order: [id, height, ok]

queueVars == <<height, nextId, pending, log>>

DueBy(h) == {id \in DOMAIN pending : pending[id].blockHeight <= h}

Init ==
  /\ height = 1
  /\ nextId = 0
  /\ pending = [id \in {} |-> 0]
  /\ log = <<>>

\* A transaction may delay several messages: they get consecutive ids.
Delay(msgs, due) ==
  /\ due \in height .. MaxHeight
  /\ pending' = [id \in DOMAIN pending \cup nextId .. nextId + Len(msgs) - 1 |->
                   IF id < nextId
                     THEN pending[id]
                     ELSE [msg |-> msgs[id - nextId + 1], blockHeight |-> due]]
  /\ nextId' = nextId + Len(msgs)
  /\ UNCHANGED <<height, log>>

\* The oldest message due now is attempted, and is gone whatever comes of it.
Attempt(id, ok) ==
  /\ id \in DueBy(height)
  /\ \A other \in DueBy(height) : id <= other
  /\ pending' = [other \in DOMAIN pending \ {id} |-> pending[other]]
  /\ log' = Append(log, [id |-> id, height |-> height, ok |-> ok])
  /\ UNCHANGED <<height, nextId>>

\* A block ends only when nothing is due any more.
NextBlock ==
  /\ DueBy(height) = {}
  /\ height < MaxHeight
  /\ height' = height + 1
  /\ UNCHANGED <<nextId, pending, log>>

Next ==
  \/ \E msg \in Payloads, due \in 0 .. MaxHeight : Delay(<<msg>>, due)
  \/ \E id \in DOMAIN pending, ok \in BOOLEAN : Attempt(id, ok)
  \/ NextBlock

Spec == Init /\ [][Next]_queueVars
=============================================================================

--------------------------- MODULE TimestampNonce ---------------------------
(***************************************************************************)
(* Replay protection of an account's transactions (app/ante and            *)
(* x/accountplus): a transaction carries the account's next sequence       *)
(* number or, from Cutoff on, a time stamp that is accepted in any order   *)
(* but once.                                                               *)
(***************************************************************************)
EXTENDS Integers, FiniteSets

CONSTANTS
  Cutoff,       \* TimestampNonceSequenceCutoff
  ArrSize,      \* MaxTimestampNonceArrSize
  Past, Future, \* MaxTimeInPastMs, MaxTimeInFutureMs
  MaxSequence,  \* bound: sequence numbers used
  Start,        \* time of the first block
  End           \* bound: time of the last block

ASSUME NonceAssumption ==
  /\ Cutoff \in Nat /\ ArrSize \in Nat \ {0}
  /\ Past \in Nat /\ Future \in Nat
  /\ MaxSequence \in Nat /\ MaxSequence < Cutoff
  /\ Start \in Nat /\ End \in Nat
  /\ Start <= End
  /\ Start >= Past       \* uint64 subtraction of the window
  /\ Start - Past >= Cutoff

VARIABLES
  now,          \* time of the block
  sequence,     \* sequence number of the account
  found,        \* the account has a time stamp state
  maxEjected,   \* MaxEjectedNonce
  nonces,       \* TimestampNonces, which has no duplicates
  used          \* numbers of the transactions accepted so far

state == <<found, maxEjected, nonces>>
vars == <<now, sequence, state, used>>

IsTimestampNonce(n) == n >= Cutoff

Init ==
  /\ now = Start
  /\ sequence = 0
  /\ found = FALSE /\ maxEjected = Cutoff /\ nonces = {}
  /\ used = {}

IsValidTimestampNonce(n) == n >= now - Past /\ n <= now + Future

-----------------------------------------------------------------------------
(* EjectStaleTimestampNonces.                                              *)

Stale == {x \in nonces : x < now - Past}
Kept == nonces \ Stale

\* The largest of the stale nonces and of the ones ejected before.
IsEjected(m) ==
  /\ m \in Stale \cup {maxEjected}
  /\ \A x \in Stale \cup {maxEjected} : x <= m

IsSmallest(m) == m \in Kept /\ \A x \in Kept : m <= x

\* Mutant: a nonce that is listed comes again.
Unchecked(n) == TRUE

Unlisted(n) == n \notin Kept

HasRoom == Cardinality(Kept) < ArrSize

\* isLargerThanSmallestValue.
LargerThanSmallest(n, s) == IsSmallest(s) /\ n > s

\* AttemptTimestampNonceUpdate, after the stale nonces have left and with m
\* the last nonce ejected.
TryNonce(n, m) ==
  /\ n > m
  /\ Unlisted(n)
  /\ \/ /\ HasRoom
        /\ nonces' = Kept \cup {n}
        /\ maxEjected' = m
     \/ /\ ~HasRoom
        /\ \E s \in Kept :
             /\ LargerThanSmallest(n, s)
             /\ nonces' = (Kept \ {s}) \cup {n}
             /\ maxEjected' = s

-----------------------------------------------------------------------------

\* Whether a transaction numbered n would be accepted now: the guards of
\* ProcessTimestampNonce without its writes.
Accepts(n) ==
  IF IsTimestampNonce(n)
  THEN /\ IsValidTimestampNonce(n)
       /\ found => \E m \in Stale \cup {maxEjected} :
                     /\ IsEjected(m)
                     /\ n > m
                     /\ Unlisted(n)
                     /\ HasRoom \/ \E s \in Kept : LargerThanSmallest(n, s)
  ELSE n = sequence

\* ProcessTimestampNonce, for a transaction that passes the rest of the ante
\* handler; of one that does not, nothing is written.
ProcessTimestampNonce(n) ==
  /\ IsTimestampNonce(n)
  /\ IsValidTimestampNonce(n)
  /\ \/ /\ ~found
        /\ found' = TRUE
        /\ nonces' = {n}
        /\ maxEjected' = Cutoff
     \/ /\ found
        /\ \E m \in Stale \cup {maxEjected} : IsEjected(m) /\ TryNonce(n, m)
        /\ UNCHANGED found
  /\ used' = used \cup {n}
  /\ UNCHANGED <<now, sequence>>

\* A transaction with a sequence number: checked, and incremented by the SDK.
ProcessSequence(n) ==
  /\ ~IsTimestampNonce(n)
  /\ n = sequence
  /\ sequence < MaxSequence
  /\ sequence' = sequence + 1
  /\ used' = used \cup {n}
  /\ UNCHANGED <<now, state>>

\* Time moves on with the blocks, by any amount.
NextBlock(t) ==
  /\ t > now
  /\ now' = t
  /\ UNCHANGED <<sequence, state, used>>

Numbers == 0 .. MaxSequence \cup Cutoff .. (End + Future)

Next ==
  \/ \E n \in Numbers : ProcessTimestampNonce(n) \/ ProcessSequence(n)
  \/ \E t \in Start .. End : NextBlock(t)

Spec == Init /\ [][Next]_vars

-----------------------------------------------------------------------------
(* Properties.                                                             *)

\* Types; the list of an account never outgrows the array.
TypeOK ==
  /\ now \in Start .. End
  /\ sequence \in 0 .. MaxSequence
  /\ found \in BOOLEAN
  /\ maxEjected \in Nat
  /\ nonces \subseteq Nat /\ IsFiniteSet(nonces) /\ Cardinality(nonces) <= ArrSize
  /\ used \subseteq Nat

\* No transaction is accepted twice, whatever was ejected from the list, for
\* age or to make room, in between.
NoReplay == \A n \in used : ~Accepts(n)
=============================================================================

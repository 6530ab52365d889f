---------------------------- MODULE AnteHandler -----------------------------
(***************************************************************************)
(* The locking ante handler (app/ante.go): CheckTx calls that run at the   *)
(* same time, on branches of the check state, under a lock for each signer *)
(* and a global lock.  Signatures carry sequence numbers; time-stamp       *)
(* nonces, which leave these alone, are in TimestampNonce.                 *)
(***************************************************************************)
EXTENDS Integers, FiniteSets

CONSTANTS
  Accounts,   \* numbered in the order in which the store takes their locks
  Threads,    \* goroutines that run CheckTx
  Kinds,      \* of "short" (clob, GoodTilBlock), "stateful" (clob), "other"
  MaxSequence \* bound: sequence numbers

ASSUME AnteAssumption ==
  /\ Accounts \subseteq Nat
  /\ Kinds \subseteq {"short", "stateful", "other"}
  /\ MaxSequence \in Nat

\* A transaction: who signs it, and the sequence number of each signature.
Signers == SUBSET Accounts \ {{}}
Txs == UNION {[kind : Kinds, seqs : [s -> 0 .. MaxSequence]] : s \in Signers}
SignersOf(tx) == DOMAIN tx.seqs
IsClob(tx) == tx.kind # "other"

NoTx == [kind |-> "none", seqs |-> [a \in {} |-> 0]]

VARIABLES
  pc,         \* thread |-> where its AnteHandle is
  tx,         \* thread |-> its transaction
  branch,     \* thread |-> the sequence numbers in its branch of the store
  held,       \* thread |-> accounts whose locks it holds
  globalLock, \* threads that hold the global lock
  sequences,  \* check state: account |-> sequence number
  committed,  \* the same, in the committed state
  passed      \* history: account |-> how often each sequence number was accepted
              \* since the last commit

threads == <<pc, tx, branch, held, globalLock>>
vars == <<threads, sequences, committed, passed>>

Zeros == [a \in Accounts |-> 0]
NonePassed == [a \in Accounts |-> [n \in 0 .. MaxSequence |-> 0]]

Init ==
  /\ pc = [t \in Threads |-> "idle"]
  /\ tx = [t \in Threads |-> NoTx]
  /\ branch = [t \in Threads |-> [a \in {} |-> 0]]
  /\ held = [t \in Threads |-> {}]
  /\ globalLock = {}
  /\ sequences = Zeros /\ committed = Zeros
  /\ passed = NonePassed

-----------------------------------------------------------------------------
(* Locks.                                                                  *)

\* CheckTx holds app.mtx for reading: the decorators before the locks read
\* only what a commit changes.  A call that they refuse leaves no trace.
Begin(t, x) ==
  /\ pc[t] = "idle"
  /\ pc' = [pc EXCEPT ![t] = "lock"]
  /\ tx' = [tx EXCEPT ![t] = x]
  /\ UNCHANGED <<branch, held, globalLock, sequences, committed, passed>>

\* Mutant: the locks are taken in the order of the signers.
AnyOrder(t, a) == a \in SignersOf(tx[t]) \ held[t]

\* CacheMultiStoreWithLocking takes the locks in the order of their keys.
NextLock(t, a) ==
  /\ a \in SignersOf(tx[t]) \ held[t]
  /\ \A b \in SignersOf(tx[t]) \ held[t] : a <= b

Free(a) == \A t \in Threads : a \notin held[t]

LockAccount(t, a) ==
  /\ pc[t] = "lock"
  /\ NextLock(t, a)
  /\ Free(a)
  /\ held' = [held EXCEPT ![t] = @ \cup {a}]
  /\ UNCHANGED <<pc, tx, branch, globalLock, sequences, committed, passed>>

\* Mutant: a branch is made before all its locks are held.
SomeLock(t) == held[t] # {}

AllLocked(t) == held[t] = SignersOf(tx[t])

\* otherMsgAnteHandle takes the global lock as well before it goes on.
Locked(t) ==
  /\ pc[t] = "lock"
  /\ AllLocked(t)
  /\ pc' = [pc EXCEPT ![t] = IF IsClob(tx[t]) THEN "read" ELSE "global"]
  /\ UNCHANGED <<tx, branch, held, globalLock, sequences, committed, passed>>

GlobalFree(t) == globalLock = {}

LockGlobal(t) ==
  /\ pc[t] = "global"
  /\ GlobalFree(t)
  /\ globalLock' = globalLock \cup {t}
  /\ pc' = [pc EXCEPT ![t] = IF IsClob(tx[t]) THEN "clob" ELSE "read"]
  /\ UNCHANGED <<tx, branch, held, sequences, committed, passed>>

-----------------------------------------------------------------------------
(* Decorators.                                                             *)

\* The reads of replayProtection and sigVerification, from the check state.
Read(t) ==
  /\ pc[t] = "read"
  /\ branch' = [branch EXCEPT ![t] = [a \in SignersOf(tx[t]) |-> sequences[a]]]
  /\ pc' = [pc EXCEPT ![t] = "verify"]
  /\ UNCHANGED <<tx, held, globalLock, sequences, committed, passed>>

\* A transaction of short-term orders is protected by GoodTilBlock instead.
Replayable(t) ==
  tx[t].kind = "short" \/ \A a \in SignersOf(tx[t]) : tx[t].seqs[a] = branch[t][a]

\* incrementSequence writes to the branch.
Incremented(t) ==
  IF tx[t].kind = "short" THEN branch[t]
  ELSE [a \in SignersOf(tx[t]) |-> branch[t][a] + 1]

Verify(t) ==
  /\ pc[t] = "verify"
  /\ Replayable(t)
  /\ \A a \in SignersOf(tx[t]) : branch[t][a] < MaxSequence
  /\ branch' = [branch EXCEPT ![t] = Incremented(t)]
  /\ pc' = [pc EXCEPT ![t] = IF IsClob(tx[t]) THEN "global" ELSE "write"]
  /\ UNCHANGED <<tx, held, globalLock, sequences, committed, passed>>

\* The clob decorator changes the memclob; rate limits or it may refuse (Fail).
Clob(t) ==
  /\ pc[t] = "clob"
  /\ pc' = [pc EXCEPT ![t] = "write"]
  /\ UNCHANGED <<tx, branch, held, globalLock, sequences, committed, passed>>

\* The deferred unlocks, and the end of CheckTx.
Released(t) ==
  /\ held' = [held EXCEPT ![t] = {}]
  /\ globalLock' = globalLock \ {t}
  /\ pc' = [pc EXCEPT ![t] = "idle"]
  /\ tx' = [tx EXCEPT ![t] = NoTx]
  /\ branch' = [branch EXCEPT ![t] = [a \in {} |-> 0]]

\* Any decorator after the locks may fail: nothing is written.
Fail(t) ==
  /\ pc[t] \in {"read", "verify", "clob"}
  /\ Released(t)
  /\ UNCHANGED <<sequences, committed, passed>>

\* cacheMs.Write: what the branch changed goes to the check state.
Write(t) ==
  /\ pc[t] = "write"
  /\ sequences' = IF tx[t].kind = "short" THEN sequences
                  ELSE [a \in Accounts |-> IF a \in SignersOf(tx[t]) THEN branch[t][a]
                                           ELSE sequences[a]]
  /\ passed' = IF tx[t].kind = "short" THEN passed
               ELSE [a \in Accounts |->
                       IF a \in SignersOf(tx[t]) THEN [passed[a] EXCEPT ![tx[t].seqs[a]] = @ + 1]
                       ELSE passed[a]]
  /\ Released(t)
  /\ UNCHANGED committed

\* Commit holds app.mtx for writing: no CheckTx runs. The check state becomes
\* the committed one, with the transactions of the block.
Commit(a) ==
  /\ \A t \in Threads : pc[t] = "idle"
  /\ committed[a] < MaxSequence
  /\ committed' = [committed EXCEPT ![a] = @ + 1]
  /\ sequences' = committed'
  /\ passed' = NonePassed
  /\ UNCHANGED threads

Step(t) ==
  \/ \E a \in Accounts : LockAccount(t, a)
  \/ Locked(t) \/ LockGlobal(t)
  \/ Read(t) \/ Verify(t) \/ Clob(t) \/ Fail(t) \/ Write(t)

Next ==
  \/ \E t \in Threads : (\E x \in Txs : Begin(t, x)) \/ Step(t)
  \/ \E a \in Accounts : Commit(a)

Spec == Init /\ [][Next]_vars

\* A goroutine goes on when it can, and a mutex is not passed to others for
\* ever while one waits.
FairSpec == Spec /\ \A t \in Threads : SF_vars(Step(t))

-----------------------------------------------------------------------------
(* Properties.                                                             *)

\* The check state is what it would be had the calls run one after the other:
\* each sequence number from the committed one on was accepted once, and no
\* write of one branch undid another's.
Serial ==
  \A a \in Accounts, n \in 0 .. MaxSequence :
    passed[a][n] = IF n \in committed[a] .. sequences[a] - 1 THEN 1 ELSE 0

\* Every CheckTx ends: goroutines do not wait for each other's account locks
\* and the global lock in a circle.
AlwaysEnds == \A t \in Threads : pc[t] # "idle" ~> pc[t] = "idle"
=============================================================================

------------------------- MODULE AnteHandlerProofs --------------------------
(***************************************************************************)
(* Concurrent CheckTx calls are serializable in the sequence numbers they  *)
(* check and advance, for any number of goroutines, accounts and signers.  *)
(*                                                                         *)
(* Serial alone is not inductive: a Write puts back what was read several  *)
(* steps before.  It is harmless because, from the read on, the branch of  *)
(* a call that holds the locks of all its signers IS the check state of    *)
(* those signers, and no other call can hold one of them.                  *)
(***************************************************************************)
EXTENDS AnteHandler, TLAPS

\* Each lock has at most one holder (the account mutexes).
Exclusive == \A t, u \in Threads : t # u => held[t] \cap held[u] = {}

\* The sequence numbers of a call have been verified and not been written yet.
\* A clob transaction waits for the global lock after, another before.
Verified(t) ==
  \/ pc[t] \in {"clob", "write"}
  \/ pc[t] = "global" /\ IsClob(tx[t])

\* What a call in each of its stages can rely on.
Holds(t) ==
  /\ held[t] \subseteq SignersOf(tx[t])
  /\ pc[t] = "idle" => held[t] = {}
  /\ pc[t] \notin {"idle", "lock"} => held[t] = SignersOf(tx[t])

Fresh(t) ==
  /\ pc[t] = "verify" => \A a \in SignersOf(tx[t]) : branch[t][a] = sequences[a]
  /\ Verified(t) /\ tx[t].kind # "short" =>
       \A a \in SignersOf(tx[t]) :
         /\ tx[t].seqs[a] = sequences[a]
         /\ branch[t][a] = sequences[a] + 1
         /\ sequences[a] < MaxSequence

\* Domains and ranges; a transaction is signed by accounts.
Typed ==
  /\ DOMAIN pc = Threads /\ DOMAIN tx = Threads
  /\ DOMAIN branch = Threads /\ DOMAIN held = Threads
  /\ \A t \in Threads :
       /\ SignersOf(tx[t]) \subseteq Accounts
       /\ \A a \in SignersOf(tx[t]) : tx[t].seqs[a] \in 0 .. MaxSequence
  /\ sequences \in [Accounts -> 0 .. MaxSequence]
  /\ committed \in [Accounts -> 0 .. MaxSequence]
  /\ \A a \in Accounts : committed[a] <= sequences[a]
  /\ passed \in [Accounts -> [0 .. MaxSequence -> Nat]]

LockInv ==
  /\ Typed
  /\ Exclusive
  /\ \A t \in Threads : Holds(t) /\ Fresh(t)
  /\ Serial

USE AnteAssumption

-----------------------------------------------------------------------------

\* Of a transaction the proofs use no more than this.
LEMMA TxFacts ==
  ASSUME NEW x \in Txs
  PROVE  /\ DOMAIN x.seqs \subseteq Accounts
         /\ \A a \in DOMAIN x.seqs : x.seqs[a] \in 0 .. MaxSequence
<1>1. PICK s \in Signers : x \in [kind : Kinds, seqs : [s -> 0 .. MaxSequence]]
  BY DEF Txs
<1>2. s \subseteq Accounts
  BY DEF Signers
<1> QED
  BY <1>1, <1>2

\* The locks of a call keep the other calls from its signers.
LEMMA OthersElsewhere ==
  ASSUME LockInv, NEW t \in Threads, NEW u \in Threads, u # t,
         pc[t] \notin {"idle", "lock"}, pc[u] \notin {"idle", "lock"}
  PROVE  SignersOf(tx[t]) \cap SignersOf(tx[u]) = {}
<1>1. held[t] = SignersOf(tx[t]) /\ held[u] = SignersOf(tx[u])
  BY DEF LockInv, Holds
<1> QED
  BY <1>1 DEF LockInv, Exclusive

LEMMA InitLockInv == Init => LockInv
<1> SUFFICES ASSUME Init PROVE LockInv
  OBVIOUS
<1>1. Typed
  BY DEF Init, Typed, NoTx, SignersOf, Zeros, NonePassed
<1>2. Exclusive
  BY DEF Init, Exclusive
<1>3. ASSUME NEW t \in Threads PROVE Holds(t) /\ Fresh(t)
  BY DEF Init, Holds, Fresh, Verified, NoTx, SignersOf
<1>4. Serial
  BY DEF Init, Serial, Zeros, NonePassed
<1> QED
  BY <1>1, <1>2, <1>3, <1>4 DEF LockInv

\* A step that leaves the sequence numbers alone and touches one call only
\* has to keep what that call relies on.
LEMMA LocalStep ==
  ASSUME LockInv, NEW t \in Threads,
         UNCHANGED <<sequences, committed, passed>>,
         DOMAIN pc' = Threads, DOMAIN tx' = Threads,
         DOMAIN branch' = Threads, DOMAIN held' = Threads,
         \A u \in Threads \ {t} : /\ pc'[u] = pc[u] /\ tx'[u] = tx[u]
                                  /\ branch'[u] = branch[u] /\ held'[u] = held[u],
         SignersOf(tx'[t]) \subseteq Accounts,
         \A a \in SignersOf(tx'[t]) : tx'[t].seqs[a] \in 0 .. MaxSequence,
         \A u \in Threads \ {t} : held'[t] \cap held[u] = {},
         Holds(t)', Fresh(t)'
  PROVE  LockInv'
<1>1. Typed'
  <2>1. ASSUME NEW u \in Threads
        PROVE  /\ SignersOf(tx'[u]) \subseteq Accounts
               /\ \A a \in SignersOf(tx'[u]) : tx'[u].seqs[a] \in 0 .. MaxSequence
    <3>1. CASE u = t
      BY <3>1
    <3>2. CASE u # t
      BY <3>2 DEF LockInv, Typed
    <3> QED
      BY <3>1, <3>2
  <2> QED
    BY <2>1 DEF LockInv, Typed, SignersOf
<1>2. Exclusive'
  BY DEF LockInv, Exclusive
<1>3. ASSUME NEW u \in Threads PROVE Holds(u)' /\ Fresh(u)'
  <2>1. CASE u = t
    BY <2>1
  <2>2. CASE u # t
    <3>1. /\ pc'[u] = pc[u] /\ tx'[u] = tx[u] /\ branch'[u] = branch[u]
          /\ held'[u] = held[u] /\ Holds(u) /\ Fresh(u)
      BY <2>2 DEF LockInv
    <3> QED
      BY <3>1 DEF Holds, Fresh, Verified, SignersOf, IsClob
  <2> QED
    BY <2>1, <2>2
<1>4. Serial'
  BY DEF LockInv, Serial
<1> QED
  BY <1>1, <1>2, <1>3, <1>4 DEF LockInv

LEMMA BeginPreserves ==
  ASSUME LockInv, NEW t \in Threads, NEW x \in Txs, Begin(t, x)
  PROVE  LockInv'
<1>1. /\ DOMAIN pc = Threads /\ DOMAIN tx = Threads
      /\ DOMAIN branch = Threads /\ DOMAIN held = Threads
  BY DEF LockInv, Typed
<1>2. /\ DOMAIN pc' = Threads /\ DOMAIN tx' = Threads
      /\ pc'[t] = "lock" /\ tx'[t] = x /\ pc[t] = "idle"
      /\ \A u \in Threads \ {t} : pc'[u] = pc[u] /\ tx'[u] = tx[u]
      /\ UNCHANGED <<branch, held, sequences, committed, passed>>
  BY <1>1 DEF Begin
<1>3. \A u \in Threads \ {t} : held'[t] \cap held[u] = {}
  BY <1>2 DEF LockInv, Exclusive
<1>4. Holds(t)' /\ Fresh(t)'
  BY <1>2 DEF Holds, Fresh, Verified, Begin, LockInv
<1> QED
  BY <1>1, <1>2, <1>3, <1>4, TxFacts, LocalStep DEF SignersOf

LEMMA LockPreserves ==
  ASSUME LockInv, NEW t \in Threads, NEW a \in Accounts, LockAccount(t, a)
  PROVE  LockInv'
<1>1. /\ DOMAIN held = Threads /\ DOMAIN held' = Threads
      /\ held'[t] = held[t] \cup {a} /\ pc[t] = "lock" /\ a \in SignersOf(tx[t])
      /\ \A u \in Threads \ {t} : held'[u] = held[u] /\ a \notin held[u]
      /\ UNCHANGED <<pc, tx, branch, sequences, committed, passed>>
  BY DEF LockInv, Typed, LockAccount, NextLock, Free
<1>2. \A u \in Threads \ {t} : held'[t] \cap held[u] = {}
  BY <1>1 DEF LockInv, Exclusive
<1>3. Holds(t)' /\ Fresh(t)'
  BY <1>1 DEF LockInv, Holds, Fresh, Verified, SignersOf
<1> QED
  BY <1>1, <1>2, <1>3, LocalStep DEF LockInv, Typed, SignersOf

\* The steps between the locks and the end: they change where the call is and
\* its branch.
LEMMA MiddlePreserves ==
  ASSUME LockInv, NEW t \in Threads,
         Locked(t) \/ LockGlobal(t) \/ Read(t) \/ Verify(t) \/ Clob(t)
  PROVE  LockInv'
<1>1. /\ DOMAIN pc = Threads /\ DOMAIN tx = Threads
      /\ DOMAIN branch = Threads /\ DOMAIN held = Threads
      /\ SignersOf(tx[t]) \subseteq Accounts
      /\ \A a \in Accounts : sequences[a] \in 0 .. MaxSequence
  BY DEF LockInv, Typed
<1>2. /\ UNCHANGED <<tx, held, sequences, committed, passed>>
      /\ DOMAIN pc' = Threads /\ DOMAIN branch' = Threads
      /\ \A u \in Threads \ {t} : pc'[u] = pc[u] /\ branch'[u] = branch[u]
  BY <1>1 DEF Locked, LockGlobal, Read, Verify, Clob
<1>3. \A u \in Threads \ {t} : held'[t] \cap held[u] = {}
  BY <1>2 DEF LockInv, Exclusive
<1>4. Holds(t)'
  BY <1>1, <1>2 DEF LockInv, Holds, SignersOf, Locked, AllLocked, LockGlobal, Read, Verify, Clob
<1>5. Fresh(t)'
  <2>1. CASE Locked(t)
    BY <2>1, <1>1, <1>2 DEF Locked, Fresh, Verified, IsClob, SignersOf
  <2>2. CASE LockGlobal(t)
    BY <2>2, <1>1, <1>2 DEF LockInv, LockGlobal, Fresh, Verified, IsClob, SignersOf
  <2>3. CASE Read(t)
    BY <2>3, <1>1, <1>2 DEF Read, Fresh, Verified, IsClob, SignersOf
  <2>4. CASE Verify(t)
    <3>1. pc[t] = "verify" /\ \A a \in SignersOf(tx[t]) : branch[t][a] = sequences[a]
      BY <2>4 DEF Verify, LockInv, Fresh
    <3>2. pc'[t] # "verify" /\ branch'[t] = Incremented(t)
      BY <2>4, <1>1 DEF Verify
    <3>3. ASSUME tx[t].kind # "short", NEW a \in SignersOf(tx[t])
          PROVE  /\ tx[t].seqs[a] = sequences[a]
                 /\ branch'[t][a] = sequences[a] + 1
                 /\ sequences[a] < MaxSequence
      BY <2>4, <3>1, <3>2, <3>3 DEF Verify, Replayable, Incremented
    <3> QED
      BY <1>2, <3>2, <3>3 DEF Fresh, SignersOf
  <2>5. CASE Clob(t)
    BY <2>5, <1>1, <1>2 DEF LockInv, Clob, Fresh, Verified, SignersOf
  <2> QED
    BY <2>1, <2>2, <2>3, <2>4, <2>5
<1> QED
  BY <1>1, <1>2, <1>3, <1>4, <1>5, LocalStep DEF LockInv, Typed, SignersOf

\* The end of a call lets go of everything.
LEMMA ReleasedFacts ==
  ASSUME LockInv, NEW t \in Threads, Released(t)
  PROVE  /\ DOMAIN pc' = Threads /\ DOMAIN tx' = Threads
         /\ DOMAIN branch' = Threads /\ DOMAIN held' = Threads
         /\ \A u \in Threads \ {t} : /\ pc'[u] = pc[u] /\ tx'[u] = tx[u]
                                     /\ branch'[u] = branch[u] /\ held'[u] = held[u]
         /\ pc'[t] = "idle" /\ held'[t] = {} /\ tx'[t] = NoTx
         /\ SignersOf(tx'[t]) = {}
         /\ Holds(t)' /\ Fresh(t)'
<1>1. /\ DOMAIN pc = Threads /\ DOMAIN tx = Threads
      /\ DOMAIN branch = Threads /\ DOMAIN held = Threads
  BY DEF LockInv, Typed
<1>2. /\ DOMAIN pc' = Threads /\ DOMAIN tx' = Threads
      /\ DOMAIN branch' = Threads /\ DOMAIN held' = Threads
      /\ \A u \in Threads \ {t} : /\ pc'[u] = pc[u] /\ tx'[u] = tx[u]
                                  /\ branch'[u] = branch[u] /\ held'[u] = held[u]
      /\ pc'[t] = "idle" /\ held'[t] = {} /\ tx'[t] = NoTx
  BY <1>1 DEF Released
<1>3. SignersOf(tx'[t]) = {}
  BY <1>2 DEF SignersOf, NoTx
<1> QED
  BY <1>2, <1>3 DEF Holds, Fresh, Verified

LEMMA FailPreserves ==
  ASSUME LockInv, NEW t \in Threads, Fail(t)
  PROVE  LockInv'
<1>1. Released(t) /\ UNCHANGED <<sequences, committed, passed>>
  BY DEF Fail
<1> QED
  BY <1>1, ReleasedFacts, LocalStep

LEMMA WritePreserves ==
  ASSUME LockInv, NEW t \in Threads, Write(t)
  PROVE  LockInv'
<1> DEFINE S == SignersOf(tx[t])
<1>1. Released(t) /\ pc[t] = "write" /\ committed' = committed
  BY DEF Write
<1>2. CASE tx[t].kind = "short"
  <2>1. UNCHANGED <<sequences, committed, passed>>
    BY <1>2 DEF Write
  <2> QED
    BY <1>1, <2>1, ReleasedFacts, LocalStep
<1>3. CASE tx[t].kind # "short"
  <2>1. /\ S \subseteq Accounts /\ \A a \in S : tx[t].seqs[a] \in 0 .. MaxSequence
        /\ sequences \in [Accounts -> 0 .. MaxSequence]
        /\ committed \in [Accounts -> 0 .. MaxSequence]
        /\ passed \in [Accounts -> [0 .. MaxSequence -> Nat]]
        /\ \A a \in Accounts : committed[a] <= sequences[a]
    BY DEF LockInv, Typed
  <2>2. \A a \in S : /\ tx[t].seqs[a] = sequences[a]
                     /\ branch[t][a] = sequences[a] + 1
                     /\ sequences[a] < MaxSequence
    BY <1>1, <1>3 DEF LockInv, Fresh, Verified
  <2>3. /\ DOMAIN sequences' = Accounts
        /\ \A a \in Accounts : sequences'[a] = IF a \in S THEN sequences[a] + 1
                                                         ELSE sequences[a]
        /\ sequences' = [a \in Accounts |-> sequences'[a]]
    BY <1>3, <2>2 DEF Write
  <2>4. \A a \in Accounts : passed'[a] = IF a \in S
                                           THEN [passed[a] EXCEPT ![sequences[a]] = @ + 1]
                                           ELSE passed[a]
    BY <1>3, <2>2 DEF Write
  <2>5. \A a \in Accounts : /\ sequences[a] \in 0 .. MaxSequence
                               /\ passed[a] \in [0 .. MaxSequence -> Nat]
    BY <2>1
  <2>6. sequences' \in [Accounts -> 0 .. MaxSequence]
    <3>1. ASSUME NEW a \in Accounts PROVE sequences'[a] \in 0 .. MaxSequence
      <4>1. sequences[a] \in 0 .. MaxSequence
        BY <2>5
      <4>2. CASE a \in S
        <5>1. sequences'[a] = sequences[a] + 1 /\ sequences[a] < MaxSequence
          BY <4>2, <2>2, <2>3
        <5> QED
          BY <4>1, <5>1
      <4>3. CASE a \notin S
        BY <4>1, <4>3, <2>3
      <4> QED
        BY <4>2, <4>3
    <3> QED
      BY <2>3, <3>1
  <2>7. passed' \in [Accounts -> [0 .. MaxSequence -> Nat]]
    <3>1. ASSUME NEW a \in Accounts PROVE passed'[a] \in [0 .. MaxSequence -> Nat]
      <4>1. passed[a] \in [0 .. MaxSequence -> Nat] /\ sequences[a] \in 0 .. MaxSequence
        BY <2>5
      <4>2. passed'[a] = passed[a]
              \/ passed'[a] = [passed[a] EXCEPT ![sequences[a]] = @ + 1]
        BY <2>4
      <4>3. CASE passed'[a] = passed[a]
        BY <4>1, <4>3
      <4>4. CASE passed'[a] = [passed[a] EXCEPT ![sequences[a]] = @ + 1]
        <5>1. passed[a][sequences[a]] + 1 \in Nat
          BY <4>1
        <5> QED
          BY <4>1, <4>4, <5>1
      <4> QED
        BY <4>2, <4>3, <4>4
    <3>2. passed' = [a \in Accounts |-> passed'[a]]
      BY <1>3 DEF Write
    <3> QED
      BY <3>1, <3>2
  <2>8. Typed'
    <3>1. \A a \in Accounts : committed'[a] <= sequences'[a]
      BY <1>1, <2>1, <2>3
    <3>2. ASSUME NEW u \in Threads
          PROVE  /\ SignersOf(tx'[u]) \subseteq Accounts
                 /\ \A a \in SignersOf(tx'[u]) : tx'[u].seqs[a] \in 0 .. MaxSequence
      <4>1. CASE u = t
        BY <4>1, <1>1, ReleasedFacts
      <4>2. CASE u # t
        <5>1. tx'[u] = tx[u]
          BY <4>2, <1>1, ReleasedFacts
        <5> QED
          BY <5>1 DEF LockInv, Typed
      <4> QED
        BY <4>1, <4>2
    <3> QED
      BY <1>1, <2>1, <2>6, <2>7, <3>1, <3>2, ReleasedFacts DEF Typed, SignersOf
  <2>9. Exclusive'
    <3>1. /\ held'[t] = {}
          /\ \A u \in Threads \ {t} : held'[u] = held[u]
      BY <1>1, ReleasedFacts
    <3> QED
      BY <3>1 DEF LockInv, Exclusive
  <2>10. ASSUME NEW u \in Threads PROVE Holds(u)' /\ Fresh(u)'
    <3>1. CASE u = t
      BY <3>1, <1>1, ReleasedFacts
    <3>2. CASE u # t
      <4>1. /\ pc'[u] = pc[u] /\ tx'[u] = tx[u] /\ branch'[u] = branch[u]
            /\ held'[u] = held[u] /\ Holds(u) /\ Fresh(u)
        BY <3>2, <1>1, ReleasedFacts DEF LockInv
      <4>2. Holds(u)'
        BY <4>1 DEF Holds, SignersOf
      <4>3. CASE pc[u] \in {"idle", "lock"}
        BY <4>1, <4>2, <4>3 DEF Fresh, Verified
      <4>4. CASE pc[u] \notin {"idle", "lock"}
        <5>1. SignersOf(tx[u]) \cap S = {}
          BY <3>2, <4>4, <1>1, OthersElsewhere
        <5>2. SignersOf(tx[u]) \subseteq Accounts
          BY DEF LockInv, Typed
        <5>3. \A a \in SignersOf(tx[u]) : sequences'[a] = sequences[a]
          BY <5>1, <5>2, <2>3
        <5> QED
          BY <4>1, <4>2, <5>3 DEF Fresh, Verified, SignersOf, IsClob
      <4> QED
        BY <4>2, <4>3, <4>4
    <3> QED
      BY <3>1, <3>2
  <2>11. Serial'
    <3> SUFFICES ASSUME NEW a \in Accounts, NEW n \in 0 .. MaxSequence
                 PROVE  passed'[a][n] =
                          IF n \in committed[a] .. sequences'[a] - 1 THEN 1 ELSE 0
      BY <1>1 DEF Serial
    <3>1. passed[a][n] = IF n \in committed[a] .. sequences[a] - 1 THEN 1 ELSE 0
      BY DEF LockInv, Serial
    <3>2. CASE a \in S
      <4>1. passed'[a][n] = IF n = sequences[a] THEN passed[a][n] + 1 ELSE passed[a][n]
        <5>1. passed[a] \in [0 .. MaxSequence -> Nat] /\ sequences[a] \in 0 .. MaxSequence
          BY <2>5
        <5>2. passed'[a] = [passed[a] EXCEPT ![sequences[a]] = @ + 1]
          BY <2>4, <3>2
        <5> QED
          BY <5>1, <5>2
      <4>2. sequences'[a] = sequences[a] + 1 /\ committed[a] <= sequences[a]
            /\ sequences[a] \in Nat /\ committed[a] \in Nat
        BY <2>1, <2>3, <3>2
      <4> QED
        BY <3>1, <4>1, <4>2
    <3>3. CASE a \notin S
      BY <2>3, <2>4, <3>1, <3>3
    <3> QED
      BY <3>2, <3>3
  <2> QED
    BY <2>8, <2>9, <2>10, <2>11 DEF LockInv
<1> QED
  BY <1>2, <1>3

LEMMA CommitPreserves ==
  ASSUME LockInv, NEW a \in Accounts, Commit(a)
  PROVE  LockInv'
<1>1. /\ committed \in [Accounts -> 0 .. MaxSequence] /\ committed[a] < MaxSequence
      /\ committed' = [committed EXCEPT ![a] = @ + 1] /\ sequences' = committed'
      /\ passed' = NonePassed /\ UNCHANGED <<pc, tx, branch, held>>
      /\ \A t \in Threads : pc[t] = "idle"
  BY DEF Commit, LockInv, Typed, threads
<1>2. committed' \in [Accounts -> 0 .. MaxSequence]
  BY <1>1
<1>3. Typed'
  <2>1. \A b \in Accounts : committed'[b] <= sequences'[b]
    BY <1>1, <1>2
  <2>2. passed' \in [Accounts -> [0 .. MaxSequence -> Nat]]
    BY <1>1 DEF NonePassed
  <2> QED
    BY <1>1, <1>2, <2>1, <2>2 DEF LockInv, Typed, SignersOf
<1>4. Exclusive' /\ \A t \in Threads : Holds(t)' /\ Fresh(t)'
  BY <1>1 DEF LockInv, Exclusive, Holds, Fresh, Verified, SignersOf
<1>5. Serial'
  BY <1>1, <1>2 DEF Serial, NonePassed
<1> QED
  BY <1>3, <1>4, <1>5 DEF LockInv

LEMMA NextLockInv == LockInv /\ [Next]_vars => LockInv'
<1> SUFFICES ASSUME LockInv, [Next]_vars PROVE LockInv'
  OBVIOUS
<1>1. ASSUME NEW t \in Threads, Step(t) PROVE LockInv'
  BY <1>1, LockPreserves, MiddlePreserves, FailPreserves, WritePreserves DEF Step
<1>2. CASE UNCHANGED vars
  BY <1>2 DEF vars, threads, LockInv, Typed, Exclusive, Holds, Fresh, Verified, Serial,
              SignersOf, IsClob
<1> QED
  BY <1>1, <1>2, BeginPreserves, CommitPreserves DEF Next

-----------------------------------------------------------------------------

\* The inductive invariant: exclusive locks, and branches that are fresh while
\* their locks are held.
THEOREM LockInvHolds == Spec => []LockInv
BY InitLockInv, NextLockInv, PTL DEF Spec

\* However many CheckTx calls run at the same time, the sequence numbers in the
\* check state are those of a serial execution: none is accepted twice, and no
\* increment is lost when a branch is written back.
THEOREM ChecksSerial == Spec => []Serial
<1>1. LockInv => Serial
  BY DEF LockInv
<1> QED
  BY <1>1, LockInvHolds, PTL
=============================================================================

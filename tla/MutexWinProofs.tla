--------------------------- MODULE MutexWinProofs ---------------------------
(***************************************************************************)
(* Proofs about the mutexes of the Windows port, for any number of threads,*)
(* any depth, any number of mutexes and any initial length of the table.   *)
(* The lock does not exclude; what is proved of it is what it does keep.   *)
(***************************************************************************)
EXTENDS RWMutexWin, LockTable, FiniteSetTheorems, TLAPS

-----------------------------------------------------------------------------
(* One mutex.                                                              *)

\* With a record, the SRW lock is held and the depth counts the write locks; with
\* none there are none.  A thread about to record itself is the only one to.
RecordInv ==
    /\ IsFiniteSet(WriteLocks)
    /\ Recorded => excl # NoThread /\ writelock_depth = Cardinality(WriteLocks)
    /\ ~Recorded => WriteLocks = {}
    /\ \A t \in Thread : at[t] = "own" => excl = t /\ ~Recorded

\* A thread on its way into or out of the SRW lock has no lock granted, and one
\* with no write lock has at most one read lock.
CallInv ==
    \A t \in Thread :
        /\ at[t] # "out" => hw[t] = 0 /\ hr[t] = 0
        /\ hw[t] = 0 => hr[t] <= 1
        /\ t \in direct => hw[t] = 0 /\ (at[t] = "unread" \/ (at[t] = "out" /\ hr[t] = 1))

\* The SRW lock is not held both ways, and until a stray release its shared holds
\* are those of the threads that waited for it.
SharedInv ==
    /\ shared > 0 => excl = NoThread
    /\ ~stray => IsFiniteSet(direct) /\ shared = Cardinality(direct)

IInv == LockTypeOK /\ RecordInv /\ CallInv /\ SharedInv

-----------------------------------------------------------------------------
(* The set of write locks.                                                 *)

\* A pair is a lock of its thread.
LEMMA LocksAre ==
    ASSUME NEW f \in [Thread -> Nat]
    PROVE  \A p : p \in UNION {{t} \X (1..f[t]) : t \in Thread}
                    <=> \E t \in Thread, k \in Nat : p = <<t, k>> /\ 1 <= k /\ k <= f[t]
  OBVIOUS

\* One more lock of a thread is one more pair.
LEMMA OneMore ==
    ASSUME LockTypeOK, NEW t \in Thread, hw' = [hw EXCEPT ![t] = @ + 1]
    PROVE  /\ WriteLocks' = WriteLocks \cup {<<t, hw[t] + 1>>}
           /\ <<t, hw[t] + 1>> \notin WriteLocks
<1>1. hw \in [Thread -> Nat] /\ hw' \in [Thread -> Nat]
  BY DEF LockTypeOK
<1>2. \A p : p \in WriteLocks
              <=> \E u \in Thread, k \in Nat : p = <<u, k>> /\ 1 <= k /\ k <= hw[u]
  BY <1>1, LocksAre DEF WriteLocks
<1>3. \A p : p \in WriteLocks'
              <=> \E u \in Thread, k \in Nat : p = <<u, k>> /\ 1 <= k /\ k <= hw'[u]
  BY <1>1, LocksAre DEF WriteLocks
<1>4. \A u \in Thread : hw'[u] = IF u = t THEN hw[t] + 1 ELSE hw[u]
  BY <1>1
<1>5. \A u \in Thread, k \in Nat : k <= hw'[u] <=> k <= hw[u] \/ (u = t /\ k = hw[t] + 1)
  BY <1>1, <1>4
<1>6. hw[t] + 1 \in Nat /\ 1 <= hw[t] + 1 /\ ~(hw[t] + 1 <= hw[t])
  BY <1>1
<1>7. ASSUME NEW p, p \in WriteLocks' PROVE p \in WriteLocks \cup {<<t, hw[t] + 1>>}
  <2>1. PICK u \in Thread, k \in Nat : p = <<u, k>> /\ 1 <= k /\ k <= hw'[u]
    BY <1>3, <1>7, Zenon
  <2>2. CASE k <= hw[u]
    BY <1>2, <2>1, <2>2, Zenon
  <2>3. CASE u = t /\ k = hw[t] + 1
    BY <2>1, <2>3, Zenon
  <2> QED
    BY <1>5, <2>1, <2>2, <2>3, Zenon
<1>8. ASSUME NEW p, p \in WriteLocks PROVE p \in WriteLocks'
  BY <1>2, <1>3, <1>5, <1>8, Zenon
<1>9. <<t, hw[t] + 1>> \in WriteLocks'
  BY <1>3, <1>5, <1>6, Zenon
<1>10. <<t, hw[t] + 1>> \notin WriteLocks
  <2>1. SUFFICES ASSUME NEW u \in Thread, NEW k \in Nat, <<t, hw[t] + 1>> = <<u, k>>, k <= hw[u]
                 PROVE  FALSE
    BY <1>2, Zenon
  <2>2. u = t /\ k = hw[t] + 1
    BY <2>1
  <2> QED
    BY <1>6, <2>1, <2>2
<1> QED
  BY <1>7, <1>8, <1>9, <1>10

\* One lock less is one pair less.
LEMMA OneLess ==
    ASSUME LockTypeOK, NEW t \in Thread, hw[t] > 0, hw' = [hw EXCEPT ![t] = @ - 1]
    PROVE  /\ WriteLocks' = WriteLocks \ {<<t, hw[t]>>}
           /\ <<t, hw[t]>> \in WriteLocks
<1>1. hw \in [Thread -> Nat] /\ hw' \in [Thread -> Nat]
  BY DEF LockTypeOK
<1>2. \A p : p \in WriteLocks
              <=> \E u \in Thread, k \in Nat : p = <<u, k>> /\ 1 <= k /\ k <= hw[u]
  BY <1>1, LocksAre DEF WriteLocks
<1>3. \A p : p \in WriteLocks'
              <=> \E u \in Thread, k \in Nat : p = <<u, k>> /\ 1 <= k /\ k <= hw'[u]
  BY <1>1, LocksAre DEF WriteLocks
<1>4. \A u \in Thread : hw'[u] = IF u = t THEN hw[t] - 1 ELSE hw[u]
  BY <1>1
<1>5. \A u \in Thread, k \in Nat : k <= hw'[u] <=> k <= hw[u] /\ ~(u = t /\ k = hw[t])
  BY <1>1, <1>4
<1>6. hw[t] \in Nat /\ 1 <= hw[t] /\ hw[t] <= hw[t]
  BY <1>1
<1>7. ASSUME NEW p, p \in WriteLocks' PROVE p \in WriteLocks \ {<<t, hw[t]>>}
  <2>1. PICK u \in Thread, k \in Nat : p = <<u, k>> /\ 1 <= k /\ k <= hw'[u]
    BY <1>3, <1>7, Zenon
  <2>2. k <= hw[u] /\ ~(u = t /\ k = hw[t])
    BY <1>5, <2>1, Zenon
  <2>3. p \in WriteLocks
    BY <1>2, <2>1, <2>2, Zenon
  <2>4. p # <<t, hw[t]>>
    BY <2>1, <2>2
  <2> QED
    BY <2>3, <2>4
<1>8. ASSUME NEW p, p \in WriteLocks, p # <<t, hw[t]>> PROVE p \in WriteLocks'
  <2>1. PICK u \in Thread, k \in Nat : p = <<u, k>> /\ 1 <= k /\ k <= hw[u]
    BY <1>2, <1>8, Zenon
  <2>2. ~(u = t /\ k = hw[t])
    BY <1>8, <2>1
  <2> QED
    BY <1>3, <1>5, <2>1, <2>2, Zenon
<1>9. <<t, hw[t]>> \in WriteLocks
  BY <1>2, <1>6, Zenon
<1> QED
  BY <1>7, <1>8, <1>9

\* A thread has a write lock if and only if there is a pair of it.
LEMMA NoneMeansNone ==
    ASSUME LockTypeOK, WriteLocks = {}
    PROVE  \A t \in Thread : hw[t] = 0
<1>1. hw \in [Thread -> Nat]
  BY DEF LockTypeOK
<1>2. SUFFICES ASSUME NEW t \in Thread, hw[t] > 0 PROVE FALSE
  BY <1>1
<1>3. <<t, 1>> \in WriteLocks
  BY <1>1, <1>2, LocksAre DEF WriteLocks
<1> QED
  BY <1>3

-----------------------------------------------------------------------------
\* The mutex starts free.
LEMMA LockInitIInv == LockInit => IInv
<1>1. SUFFICES ASSUME LockInit PROVE IInv
  OBVIOUS
<1>2. LockTypeOK
  <2>1. /\ [t \in Thread |-> "out"] \in [Thread -> {"out", "read", "unread", "write", "own"}]
        /\ [t \in Thread |-> 0] \in [Thread -> Nat]
    OBVIOUS
  <2>2. /\ at \in [Thread -> {"out", "read", "unread", "write", "own"}]
        /\ hw \in [Thread -> Nat] /\ hr \in [Thread -> Nat]
    BY <1>1, <2>1 DEF LockInit
  <2>3. raised \in BOOLEAN /\ stray \in BOOLEAN
    BY <1>1, Zenon DEF LockInit
  <2>4. shared \in Nat /\ writelock_depth \in Nat /\ readlock_depth \in Int
    BY <1>1 DEF LockInit
  <2> QED
    BY <1>1, <2>2, <2>3, <2>4 DEF LockInit, LockTypeOK
<1>3. WriteLocks = {}
  BY <1>1 DEF LockInit, WriteLocks
<1>4. RecordInv
  BY <1>1, <1>3, MutexAssumption, FS_EmptySet DEF LockInit, RecordInv, Recorded
<1>5. CallInv /\ SharedInv
  BY <1>1, FS_EmptySet DEF LockInit, CallInv, SharedInv
<1> QED
  BY <1>2, <1>4, <1>5 DEF IInv

-----------------------------------------------------------------------------
(* What each step does to the parts of the invariant.                      *)

Moving(t) ==
    \/ ReadLock(t) \/ AcquireShared(t) \/ ReadUnlock(t) \/ ReleaseShared(t)
    \/ WriteLock(t) \/ AcquireExclusive(t) \/ Own(t) \/ WriteUnlock(t)

\* write_thread is the pseudo handle or null.
LEMMA RecordedOrNot == ASSUME LockTypeOK, ~Recorded PROVE write_thread = NoHandle
  BY DEF LockTypeOK, Recorded

\* A depth that counts at least one lock is not 0.
LEMMA DepthIsPositive ==
    ASSUME IInv, NEW t \in Thread, hw[t] > 0
    PROVE  /\ Recorded /\ excl # NoThread
           /\ writelock_depth = Cardinality(WriteLocks)
           /\ writelock_depth \in Nat \ {0}
<1>1. <<t, hw[t]>> \in WriteLocks
  BY LocksAre DEF IInv, LockTypeOK, WriteLocks
<1>2. Recorded /\ excl # NoThread /\ writelock_depth = Cardinality(WriteLocks)
  BY <1>1 DEF IInv, RecordInv
<1>3. Cardinality(WriteLocks) # 0
  BY <1>1, FS_EmptySet DEF IInv, RecordInv
<1> QED
  BY <1>2, <1>3 DEF IInv, LockTypeOK

\* Steps that grant and release no write lock.
LEMMA SameLocks == ASSUME UNCHANGED hw PROVE WriteLocks' = WriteLocks
  BY DEF WriteLocks

\* The types.
LEMMA StepTyped == ASSUME IInv, NEW t \in Thread, Moving(t) PROVE LockTypeOK'
<1>1. LockTypeOK
  BY DEF IInv
<1>2. CASE ReadLock(t)
  BY <1>1, <1>2 DEF LockTypeOK, ReadLock, Moves, fields
<1>3. CASE AcquireShared(t)
  BY <1>1, <1>3 DEF LockTypeOK, AcquireShared, Moves, fields
<1>4. CASE ReadUnlock(t)
  <2>1. hr[t] > 0 /\ hr' = [hr EXCEPT ![t] = @ - 1]
    BY <1>4 DEF ReadUnlock
  <2>2. hr' \in [Thread -> Nat]
    BY <1>1, <2>1 DEF LockTypeOK
  <2> QED
    BY <1>1, <1>4, <2>2 DEF LockTypeOK, ReadUnlock, Moves, fields
<1>5. CASE ReleaseShared(t)
  <2>1. stray' \in BOOLEAN /\ raised' \in BOOLEAN
    BY <1>1, <1>5 DEF LockTypeOK, ReleaseShared
  <2>2. at' \in [Thread -> {"out", "read", "unread", "write", "own"}]
    BY <1>1, <1>5 DEF LockTypeOK, ReleaseShared, Moves
  <2>3. shared' \in Nat /\ direct' \subseteq Thread
    BY <1>1, <1>5 DEF LockTypeOK, ReleaseShared
  <2>4. UNCHANGED <<excl, fields, hw, hr>>
    BY <1>5 DEF ReleaseShared
  <2> QED
    BY <1>1, <2>1, <2>2, <2>3, <2>4 DEF LockTypeOK, fields
<1>6. CASE WriteLock(t)
  BY <1>1, <1>6 DEF LockTypeOK, WriteLock, Moves, fields
<1>7. CASE AcquireExclusive(t)
  BY <1>1, <1>7 DEF LockTypeOK, AcquireExclusive, Moves, fields
<1>8. CASE Own(t)
  BY <1>1, <1>8 DEF LockTypeOK, Own, Moves
<1>9. CASE WriteUnlock(t)
  <2>1. hw[t] > 0 /\ hw' = [hw EXCEPT ![t] = @ - 1]
    BY <1>9 DEF WriteUnlock
  <2>2. hw' \in [Thread -> Nat]
    BY <1>1, <2>1 DEF LockTypeOK
  <2>3. writelock_depth' \in Nat
    BY <1>9, <2>1, DepthIsPositive DEF WriteUnlock
  <2> QED
    BY <1>1, <1>9, <2>2, <2>3 DEF LockTypeOK, WriteUnlock
<1> QED
  BY <1>2, <1>3, <1>4, <1>5, <1>6, <1>7, <1>8, <1>9 DEF Moving

\* The record and the depth: grants under a record and the last unlock.
LEMMA StepRecorded == ASSUME IInv, NEW t \in Thread, Moving(t) PROVE RecordInv'
<1>1. LockTypeOK /\ RecordInv /\ CallInv
  BY DEF IInv
<1>2. at \in [Thread -> {"out", "read", "unread", "write", "own"}]
  BY <1>1 DEF LockTypeOK
<1>3. ASSUME UNCHANGED <<hw, excl, write_thread, writelock_depth>>,
             \A u \in Thread : at'[u] = "own" => at[u] = "own"
      PROVE  RecordInv'
  <2>1. WriteLocks' = WriteLocks
    BY <1>3, SameLocks
  <2>2. Recorded' <=> Recorded
    BY <1>3 DEF Recorded
  <2> QED
    BY <1>1, <1>3, <2>1, <2>2 DEF RecordInv
<1>4. CASE ReadLock(t)
  BY <1>2, <1>3, <1>4 DEF ReadLock, Moves, fields
<1>5. CASE AcquireShared(t)
  BY <1>2, <1>3, <1>5 DEF AcquireShared, Moves, fields
<1>6. CASE ReadUnlock(t)
  BY <1>2, <1>3, <1>6 DEF ReadUnlock, Moves, fields
<1>7. CASE ReleaseShared(t)
  BY <1>2, <1>3, <1>7 DEF ReleaseShared, Moves, fields
<1>8. CASE WriteLock(t)
  <2>1. CASE Recorded
    <3>1. /\ hw' = [hw EXCEPT ![t] = @ + 1] /\ writelock_depth' = writelock_depth + 1
          /\ UNCHANGED <<write_thread, at, excl>>
      BY <1>8, <2>1 DEF WriteLock
    <3>2. WriteLocks' = WriteLocks \cup {<<t, hw[t] + 1>>} /\ <<t, hw[t] + 1>> \notin WriteLocks
      BY <1>1, <3>1, OneMore
    <3>3. IsFiniteSet(WriteLocks') /\ Cardinality(WriteLocks') = Cardinality(WriteLocks) + 1
      BY <1>1, <3>2, FS_AddElement DEF RecordInv
    <3>4. Recorded' /\ excl # NoThread /\ writelock_depth = Cardinality(WriteLocks)
      BY <1>1, <2>1, <3>1 DEF RecordInv, Recorded
    <3> QED
      BY <1>1, <2>1, <3>1, <3>3, <3>4 DEF RecordInv
  <2>2. CASE ~Recorded
    BY <1>2, <1>3, <1>8, <2>2 DEF WriteLock, Moves, fields
  <2> QED
    BY <2>1, <2>2
<1>9. CASE AcquireExclusive(t)
  <2>1. /\ excl = NoThread /\ excl' = t /\ at' = [at EXCEPT ![t] = "own"]
        /\ UNCHANGED <<hw, write_thread, writelock_depth>>
    BY <1>9 DEF AcquireExclusive, Moves, fields
  <2>2. ~Recorded /\ \A u \in Thread : at[u] # "own"
    BY <1>1, <2>1, MutexAssumption DEF RecordInv
  <2>3. WriteLocks' = WriteLocks
    BY <2>1, SameLocks
  <2>4. ~Recorded'
    BY <2>1, <2>2 DEF Recorded
  <2>5. \A u \in Thread : at'[u] = "own" => u = t
    BY <1>2, <2>1, <2>2
  <2> QED
    BY <1>1, <2>1, <2>2, <2>3, <2>4, <2>5 DEF RecordInv
<1>10. CASE Own(t)
  <2>1. /\ at[t] = "own" /\ at' = [at EXCEPT ![t] = "out"]
        /\ write_thread' = Pseudo /\ writelock_depth' = 1
        /\ hw' = [hw EXCEPT ![t] = @ + 1] /\ UNCHANGED excl
    BY <1>10 DEF Own, Moves
  <2>2. excl = t /\ ~Recorded /\ WriteLocks = {}
    BY <1>1, <2>1 DEF RecordInv
  <2>3. WriteLocks' = WriteLocks \cup {<<t, hw[t] + 1>>} /\ <<t, hw[t] + 1>> \notin WriteLocks
    BY <1>1, <2>1, OneMore
  <2>4. IsFiniteSet(WriteLocks') /\ Cardinality(WriteLocks') = 1
    <3>1. IsFiniteSet(WriteLocks) /\ Cardinality(WriteLocks) = 0
      BY <2>2, FS_EmptySet
    <3>2. IsFiniteSet(WriteLocks') /\ Cardinality(WriteLocks') = Cardinality(WriteLocks) + 1
      BY <2>3, <3>1, FS_AddElement
    <3> QED
      BY <3>1, <3>2
  <2>5. \A u \in Thread : at'[u] # "own"
    <3>1. \A u \in Thread : at[u] = "own" => u = t
      BY <1>1, <2>2 DEF RecordInv
    <3> QED
      BY <1>2, <2>1, <3>1
  <2>6. excl' # NoThread /\ Recorded'
    BY <2>1, <2>2, MutexAssumption DEF Recorded
  <2> QED
    BY <2>1, <2>4, <2>5, <2>6 DEF RecordInv
<1>11. CASE WriteUnlock(t)
  <2>1. /\ hw[t] > 0 /\ hw' = [hw EXCEPT ![t] = @ - 1] /\ UNCHANGED at
    BY <1>11 DEF WriteUnlock
  <2>2. /\ Recorded /\ excl # NoThread
        /\ writelock_depth = Cardinality(WriteLocks) /\ writelock_depth \in Nat \ {0}
    BY <2>1, DepthIsPositive
  <2>3. WriteLocks' = WriteLocks \ {<<t, hw[t]>>} /\ <<t, hw[t]>> \in WriteLocks
    BY <1>1, <2>1, OneLess
  <2>4. /\ IsFiniteSet(WriteLocks') /\ Cardinality(WriteLocks') = Cardinality(WriteLocks) - 1
    BY <1>1, <2>3, FS_RemoveElement DEF RecordInv
  <2>5. writelock_depth' = writelock_depth - 1 /\ writelock_depth' \in Nat
    BY <1>11, <2>2 DEF WriteUnlock
  <2>6. \A u \in Thread : at'[u] # "own"
    BY <1>1, <2>1, <2>2 DEF RecordInv
  <2>7. CASE writelock_depth' > 0
    <3>1. UNCHANGED <<excl, write_thread>>
      BY <1>11, <2>2, <2>7 DEF WriteUnlock
    <3> QED
      BY <2>2, <2>4, <2>5, <2>6, <3>1 DEF RecordInv, Recorded
  <2>8. CASE writelock_depth' = 0
    <3>1. write_thread' = NoHandle
      BY <1>11, <2>8 DEF WriteUnlock
    <3>2. WriteLocks' = {}
      BY <2>2, <2>4, <2>5, <2>8, FS_EmptySet
    <3> QED
      BY <2>4, <2>6, <3>1, <3>2, MutexAssumption DEF RecordInv, Recorded
  <2>9. \A n \in Nat : n = 0 \/ n > 0
    OBVIOUS
  <2>10. writelock_depth' = 0 \/ writelock_depth' > 0
    BY <2>5, <2>9, Zenon
  <2> QED
    BY <2>7, <2>8, <2>10
<1> QED
  BY <1>4, <1>5, <1>6, <1>7, <1>8, <1>9, <1>10, <1>11 DEF Moving

\* Where a thread is, and what it has: the contract of the callers.
LEMMA StepCalls == ASSUME IInv, NEW t \in Thread, Moving(t) PROVE CallInv'
<1>1. LockTypeOK /\ RecordInv /\ CallInv
  BY DEF IInv
<1>2. /\ at \in [Thread -> {"out", "read", "unread", "write", "own"}]
      /\ hw \in [Thread -> Nat] /\ hr \in [Thread -> Nat]
  BY <1>1 DEF LockTypeOK
<1>3. ~Recorded => \A u \in Thread : hw[u] = 0
  BY <1>1, NoneMeansNone DEF RecordInv
<1>4. CASE ReadLock(t)
  <2>1. CASE Recorded
    BY <1>1, <1>2, <1>4, <2>1 DEF CallInv, ReadLock, MayLock
  <2>2. CASE ~Recorded
    BY <1>1, <1>2, <1>3, <1>4, <2>2 DEF CallInv, ReadLock, MayLock, Moves
  <2> QED
    BY <2>1, <2>2
<1>5. CASE AcquireShared(t)
  BY <1>1, <1>2, <1>5 DEF CallInv, AcquireShared, Moves
<1>6. CASE ReadUnlock(t)
  <2>1. CASE Recorded
    BY <1>1, <1>2, <1>6, <2>1 DEF CallInv, ReadUnlock
  <2>2. CASE ~Recorded
    BY <1>1, <1>2, <1>3, <1>6, <2>2 DEF CallInv, ReadUnlock, Moves
  <2> QED
    BY <2>1, <2>2
<1>7. CASE ReleaseShared(t)
  BY <1>1, <1>2, <1>7 DEF CallInv, ReleaseShared, Moves
<1>8. CASE WriteLock(t)
  <2>1. CASE Recorded
    BY <1>1, <1>2, <1>8, <2>1 DEF CallInv, WriteLock, MayLock
  <2>2. CASE ~Recorded
    BY <1>1, <1>2, <1>3, <1>8, <2>2 DEF CallInv, WriteLock, MayLock, Moves
  <2> QED
    BY <2>1, <2>2
<1>9. CASE AcquireExclusive(t)
  BY <1>1, <1>2, <1>9 DEF CallInv, AcquireExclusive, Moves
<1>10. CASE Own(t)
  BY <1>1, <1>2, <1>10 DEF CallInv, Own, Moves
<1>11. CASE WriteUnlock(t)
  BY <1>1, <1>2, <1>11 DEF CallInv, WriteUnlock
<1> QED
  BY <1>4, <1>5, <1>6, <1>7, <1>8, <1>9, <1>10, <1>11 DEF Moving

\* The shared holds: each is taken when there is no exclusive one, and given up by
\* the thread that took it as long as nothing has strayed.
LEMMA StepShared == ASSUME IInv, NEW t \in Thread, Moving(t) PROVE SharedInv'
<1>1. LockTypeOK /\ RecordInv /\ CallInv /\ SharedInv
  BY DEF IInv
<1>2. shared \in Nat /\ direct \subseteq Thread /\ stray \in BOOLEAN
  BY <1>1 DEF LockTypeOK
<1>3. CASE ReadLock(t)
  BY <1>1, <1>3 DEF SharedInv, ReadLock
<1>4. CASE AcquireShared(t)
  <2>1. at[t] = "read" /\ excl = NoThread /\ shared' = shared + 1
        /\ direct' = direct \cup {t} /\ UNCHANGED <<excl, stray>>
    BY <1>4 DEF AcquireShared
  <2>2. t \notin direct
    BY <1>1, <2>1 DEF CallInv
  <2>3. ~stray => IsFiniteSet(direct') /\ Cardinality(direct') = Cardinality(direct) + 1
    BY <1>1, <2>1, <2>2, FS_AddElement DEF SharedInv
  <2> QED
    BY <1>1, <1>2, <2>1, <2>3 DEF SharedInv
<1>5. CASE ReadUnlock(t)
  <2>1. CASE Recorded
    <3>1. direct' = direct \ {t} /\ UNCHANGED <<excl, shared, stray>>
      BY <1>5, <2>1 DEF ReadUnlock
    <3>2. excl # NoThread /\ shared = 0
      BY <1>1, <1>2, <2>1 DEF RecordInv, SharedInv
    <3>3. ~stray => direct = {}
      BY <1>1, <3>2, FS_EmptySet DEF SharedInv
    <3>4. ~stray => direct' = direct
      BY <3>1, <3>3
    <3> QED
      BY <1>1, <3>1, <3>4 DEF SharedInv
  <2>2. CASE ~Recorded
    BY <1>1, <1>5, <2>2 DEF SharedInv, ReadUnlock
  <2> QED
    BY <2>1, <2>2
<1>6. CASE ReleaseShared(t)
  <2>1. /\ stray' = (stray \/ t \notin direct) /\ direct' = direct \ {t} /\ excl' = excl
        /\ (shared > 0 /\ shared' = shared - 1) \/ (shared = 0 /\ shared' = shared)
    BY <1>6 DEF ReleaseShared
  <2>2. shared' > 0 => excl' = NoThread
    BY <1>1, <1>2, <2>1 DEF SharedInv
  <2>3. ASSUME ~stray' PROVE IsFiniteSet(direct') /\ shared' = Cardinality(direct')
    <3>1. ~stray /\ t \in direct
      BY <1>2, <2>1, <2>3
    <3>2. IsFiniteSet(direct) /\ shared = Cardinality(direct)
      BY <1>1, <3>1 DEF SharedInv
    <3>3. IsFiniteSet(direct') /\ Cardinality(direct') = Cardinality(direct) - 1
      BY <2>1, <3>1, <3>2, FS_RemoveElement
    <3>4. shared # 0
      BY <3>1, <3>2, FS_EmptySet
    <3> QED
      BY <1>2, <2>1, <3>2, <3>3, <3>4
  <2> QED
    BY <2>2, <2>3 DEF SharedInv
<1>7. CASE WriteLock(t)
  BY <1>1, <1>7 DEF SharedInv, WriteLock
<1>8. CASE AcquireExclusive(t)
  BY <1>1, <1>2, <1>8 DEF SharedInv, AcquireExclusive
<1>9. CASE Own(t)
  BY <1>1, <1>9 DEF SharedInv, Own
<1>10. CASE WriteUnlock(t)
  <2>1. UNCHANGED <<shared, direct, stray>> /\ (excl' = excl \/ excl' = NoThread)
    BY <1>10 DEF WriteUnlock
  <2> QED
    BY <1>1, <2>1 DEF SharedInv
<1> QED
  BY <1>3, <1>4, <1>5, <1>6, <1>7, <1>8, <1>9, <1>10 DEF Moving

\* The invariant is inductive.
LEMMA LockNextIInv == IInv /\ [LockNext]_lockVars => IInv'
<1>1. SUFFICES ASSUME IInv, [LockNext]_lockVars PROVE IInv'
  OBVIOUS
<1>2. ASSUME NEW t \in Thread, Moving(t) PROVE IInv'
  BY <1>1, <1>2, StepTyped, StepRecorded, StepCalls, StepShared DEF IInv
<1>3. CASE UNCHANGED lockVars
  <2>1. WriteLocks' = WriteLocks
    BY <1>3, SameLocks DEF lockVars
  <2> QED
    BY <1>1, <1>3, <2>1 DEF lockVars, fields, IInv, LockTypeOK, RecordInv, CallInv, SharedInv, Recorded
<1> QED
  BY <1>1, <1>2, <1>3 DEF LockNext, Moving

\* The inductive invariant holds throughout.
LEMMA Inductive == LockSpec => []IInv
  BY LockInitIInv, LockNextIInv, PTL DEF LockSpec

-----------------------------------------------------------------------------
\* The depth is the number of write locks of all the threads that were let in, so
\* no decrement underflows, and the SRW lock is held exactly while there is one:
\* although a second writer is not kept out, none is ever inside unlocked.
THEOREM DepthsAreExact == LockSpec => [](LockTypeOK /\ DepthsExact)
<1>1. IInv => LockTypeOK /\ DepthsExact
  BY DEF IInv, RecordInv, DepthsExact
<1> QED
  BY <1>1, Inductive, PTL

\* A reader that waited for the SRW lock keeps every writer out, until a read lock
\* that was let in under a record is released on the SRW lock.
THEOREM WaitingReadersExclude == LockSpec => []ReadersKeepWritersOut
<1>1. ASSUME IInv, ~stray, direct # {} PROVE WriteLocks = {}
  <2>1. shared # 0 /\ shared \in Nat
    BY <1>1, FS_EmptySet DEF IInv, SharedInv, LockTypeOK
  <2>2. excl = NoThread
    BY <1>1, <2>1 DEF IInv, SharedInv
  <2> QED
    BY <1>1, <2>2 DEF IInv, RecordInv
<1>2. IInv => ReadersKeepWritersOut
  BY <1>1 DEF ReadersKeepWritersOut
<1> QED
  BY <1>2, Inductive, PTL

-----------------------------------------------------------------------------
(* The table.                                                              *)

\* The three invariants hold together: a position is found because infos_free
\* is exact, and infos_free stays exact because a deleted mutex has a position
\* that is in use and no other mutex's.
TableInv == TableTypeOK /\ DistinctLocks /\ FreeIsExact

\* The positions in use are a finite part of the table, so they can be counted.
LEMMA UsedIsFinite ==
    ASSUME TableTypeOK
    PROVE  /\ IsFiniteSet(used)
           /\ Cardinality(used) \in Nat
           /\ Cardinality(used) <= infos_len
  <1>1. infos_len \in Nat /\ used \in SUBSET (0..(infos_len - 1))
    BY DEF TableTypeOK
  <1>2. IsFiniteSet(0..(infos_len - 1)) /\ Cardinality(0..(infos_len - 1)) <= infos_len
    BY <1>1, FS_Interval
  <1>3. IsFiniteSet(used) /\ Cardinality(used) <= Cardinality(0..(infos_len - 1))
    BY <1>1, <1>2, FS_Subset
  <1>4. Cardinality(0..(infos_len - 1)) \in Nat /\ Cardinality(used) \in Nat
    BY <1>2, <1>3, FS_CardinalityType
  <1>5. QED
    BY <1>1, <1>2, <1>3, <1>4

\* The table starts empty.
LEMMA TableInitInv == TableInit => TableInv
  <1>1. SUFFICES ASSUME TableInit PROVE TableInv
    OBVIOUS
  <1>2. inside \in [Lockers -> {<<>>} \cup (Mutexes \X Nat)] /\ fatal \in BOOLEAN
    BY <1>1 DEF TableInit
  <1>3. TableTypeOK
    BY <1>1, <1>2 DEF TableInit, TableTypeOK
  <1>4. DistinctLocks
    BY <1>1 DEF TableInit, DistinctLocks
  <1>5. FreeIsExact
    BY <1>1, FS_EmptySet DEF TableInit, FreeIsExact
  <1>6. QED
    BY <1>3, <1>4, <1>5 DEF TableInv

\* alloc_lock finds at least one free position in the table as it is then.
LEMMA RoomToAllocate ==
    ASSUME TableInv
    PROVE  /\ Length \in Nat /\ Length >= infos_len /\ Length > 0
           /\ infos_free + (Length - infos_len) - 1 \in Nat
  <1>1. infos_len \in Nat /\ infos_free \in Nat
    BY DEF TableInv, TableTypeOK
  <1>2. infos_free = infos_len - Cardinality(used) /\ Cardinality(used) \in Nat
    BY UsedIsFinite DEF TableInv, FreeIsExact
  <1>3. QED
    BY <1>1, <1>2, LockTableAssumption DEF Length

\* alloc_lock takes a position nobody has and counts it, in the table as it is or
\* in one that was just doubled.
LEMMA NewInv ==
    ASSUME TableInv, NEW m \in Mutexes, New(m)
    PROVE  TableInv'
  <1>1. PICK pos \in 0..(Length - 1) :
            /\ pos \notin used
            /\ used' = used \cup {pos}
            /\ infos_curpos' = pos
            /\ id' = [id EXCEPT ![m] = pos + 1]
    BY DEF New, StopsAt
  <1>2. infos_len' = Length /\ infos_free' = infos_free + (Length - infos_len) - 1
        /\ inside' = inside /\ fatal' = fatal
    BY DEF New
  <1>3. /\ Length \in Nat /\ Length >= infos_len /\ Length > 0
        /\ infos_free + (Length - infos_len) - 1 \in Nat
    BY RoomToAllocate
  <1>4. block' \in Nat
    BY DEF New, TableInv, TableTypeOK
  <1>5. pos \in Nat /\ pos < Length
    BY <1>1, <1>3
  <1>6. infos_len \in Nat /\ infos_free \in Nat /\ used \subseteq 0..(infos_len - 1)
        /\ id \in [Mutexes -> 0..infos_len]
    BY DEF TableInv, TableTypeOK
  <1>7. TableTypeOK'
    <2>1. used' \subseteq 0..(infos_len' - 1)
      BY <1>1, <1>2, <1>3, <1>5, <1>6
    <2>2. id' \in [Mutexes -> 0..infos_len']
      BY <1>1, <1>2, <1>3, <1>5, <1>6
    <2>3. inside' \in [Lockers -> {<<>>} \cup (Mutexes \X Nat)] /\ fatal' \in BOOLEAN
      BY <1>2 DEF TableInv, TableTypeOK
    <2>4. QED
      BY <2>1, <2>2, <2>3, <1>1, <1>2, <1>3, <1>4, <1>5 DEF TableTypeOK
  <1>8. DistinctLocks'
    <2>1. \A n \in Mutexes : id[n] # 0 => id[n] - 1 \in used
      BY DEF TableInv, DistinctLocks
    <2>2. \A n \in Mutexes : id[n] # pos + 1
      BY <2>1, <1>1, <1>5, <1>6
    <2>3. \A n \in Mutexes : id'[n] = IF n = m THEN pos + 1 ELSE id[n]
      BY <1>1, <1>6
    <2>4. \A n, o \in Mutexes : id'[n] # 0 /\ id'[n] = id'[o] => n = o
      BY <2>2, <2>3 DEF TableInv, DistinctLocks
    <2>5. \A n \in Mutexes : id'[n] # 0 => id'[n] - 1 \in used'
      BY <2>1, <2>3, <1>1, <1>5
    <2>6. QED
      BY <2>4, <2>5 DEF DistinctLocks
  <1>9. FreeIsExact'
    <2>1. IsFiniteSet(used) /\ Cardinality(used) \in Nat
      BY UsedIsFinite DEF TableInv
    <2>2. Cardinality(used') = Cardinality(used) + 1
      BY <2>1, <1>1, FS_AddElement
    <2>3. QED
      BY <2>1, <2>2, <1>2, <1>3, <1>6 DEF TableInv, FreeIsExact
  <1>10. QED
    BY <1>7, <1>8, <1>9 DEF TableInv

\* free_lock gives back one position that was in use, and no other mutex has it.
LEMMA DeleteInv ==
    ASSUME TableInv, NEW m \in Mutexes, Delete(m)
    PROVE  TableInv'
  <1>1. infos_len \in Nat /\ infos_free \in Nat /\ used \subseteq 0..(infos_len - 1)
        /\ id \in [Mutexes -> 0..infos_len]
    BY DEF TableInv, TableTypeOK
  <1>2. id[m] # 0 /\ id[m] - 1 \in used
    BY DEF Delete, TableInv, DistinctLocks
  <1>3. /\ used' = used \ {id[m] - 1} /\ infos_free' = infos_free + 1
        /\ id' = [id EXCEPT ![m] = 0]
        /\ UNCHANGED <<infos_len, infos_curpos, block, inside, fatal>>
    BY DEF Delete
  <1>4. TableTypeOK'
    <2>1. inside' \in [Lockers -> {<<>>} \cup (Mutexes \X Nat)] /\ fatal' \in BOOLEAN
      BY <1>3 DEF TableInv, TableTypeOK
    <2>2. infos_len' = infos_len /\ 0 \in 0..infos_len
      BY <1>1, <1>3
    <2>3. id' \in [Mutexes -> 0..infos_len']
      BY <2>2, <1>1, <1>3
    <2>4. used' \subseteq 0..(infos_len' - 1)
      BY <2>2, <1>1, <1>3
    <2>5. infos_free' \in Nat
      BY <1>1, <1>3
    <2>6. QED
      BY <2>1, <2>2, <2>3, <2>4, <2>5, <1>3 DEF TableInv, TableTypeOK
  <1>5. DistinctLocks'
    <2>1. \A n \in Mutexes : id'[n] = IF n = m THEN 0 ELSE id[n]
      BY <1>1, <1>3
    <2>2. \A n \in Mutexes : id[n] # 0 => id[n] - 1 \in used
      BY DEF TableInv, DistinctLocks
    <2>3. \A n \in Mutexes : n # m /\ id[n] # 0 => id[n] # id[m]
      BY DEF TableInv, DistinctLocks
    <2>4. \A n \in Mutexes : n # m /\ id[n] # 0 => id[n] - 1 # id[m] - 1
      BY <2>3, <1>1
    <2>5. \A n, o \in Mutexes : id'[n] # 0 /\ id'[n] = id'[o] => n = o
      BY <2>1 DEF TableInv, DistinctLocks
    <2>6. \A n \in Mutexes : id'[n] # 0 => id'[n] - 1 \in used'
      BY <2>1, <2>2, <2>4, <1>3
    <2>7. QED
      BY <2>5, <2>6 DEF DistinctLocks
  <1>6. FreeIsExact'
    <2>1. IsFiniteSet(used) /\ Cardinality(used) \in Nat
      BY UsedIsFinite DEF TableInv
    <2>2. Cardinality(used') = Cardinality(used) - 1
      BY <2>1, <1>2, <1>3, FS_RemoveElement
    <2>3. QED
      BY <2>1, <2>2, <1>1, <1>3 DEF TableInv, FreeIsExact
  <1>7. QED
    BY <1>4, <1>5, <1>6 DEF TableInv

\* The invariant is inductive; the steps other than New and Delete change only who
\* is inside a call, or end the process.
LEMMA TableNextInv == TableInv /\ [TableNext]_tableVars => TableInv'
  <1>1. SUFFICES ASSUME TableInv, [TableNext]_tableVars PROVE TableInv'
    OBVIOUS
  <1>2. CASE DeleteAgain
    BY <1>1, <1>2 DEF TableInv, TableTypeOK, DistinctLocks, FreeIsExact, DeleteAgain
  <1>3. ASSUME NEW m \in Mutexes, New(m) PROVE TableInv'
    BY <1>1, <1>3, NewInv
  <1>4. ASSUME NEW m \in Mutexes, Delete(m) PROVE TableInv'
    BY <1>1, <1>4, DeleteInv
  <1>5. ASSUME NEW m \in Mutexes, NEW t \in Lockers, Enter(t, m) PROVE TableInv'
    BY <1>1, <1>5 DEF TableInv, TableTypeOK, DistinctLocks, FreeIsExact, Enter
  <1>6. ASSUME NEW t \in Lockers, Leave(t) PROVE TableInv'
    BY <1>1, <1>6 DEF TableInv, TableTypeOK, DistinctLocks, FreeIsExact, Leave
  <1>7. CASE UNCHANGED tableVars
    BY <1>1, <1>7 DEF TableInv, TableTypeOK, DistinctLocks, FreeIsExact, tableVars
  <1>8. QED
    BY <1>1, <1>2, <1>3, <1>4, <1>5, <1>6, <1>7 DEF TableNext

\* The invariant holds throughout.
LEMMA Invariance == TableSpec => []TableInv
  <1>1. QED
    BY TableInitInv, TableNextInv, PTL DEF TableSpec

\* Every variable of the table keeps its type: infos_free never wraps below 0
\* and infos_curpos stays inside the table through every growth.
THEOREM TableTyped == TableSpec => []TableTypeOK
  <1>1. TableInv => TableTypeOK
    BY DEF TableInv
  <1>2. QED
    BY <1>1, Invariance, PTL

\* No two mutexes are ever the same lock.
THEOREM LocksAreDistinct == TableSpec => []DistinctLocks
  <1>1. TableInv => DistinctLocks
    BY DEF TableInv
  <1>2. QED
    BY <1>1, Invariance, PTL

\* infos_free counts the unused positions, so the loop of alloc_lock ends.
THEOREM FreeCountIsExact == TableSpec => []FreeIsExact
  <1>1. TableInv => FreeIsExact
    BY DEF TableInv
  <1>2. QED
    BY <1>1, Invariance, PTL
=============================================================================

----------------------------- MODULE RWMutexWin -----------------------------
(***************************************************************************)
(* The recursive reader/writer mutex of the Windows port                   *)
(* (cflare-windows/mutex.c), built from two SRW locks of the system: "lock"*)
(* is held for as long as the mutex is, "internallock" around each look at *)
(* the owner.  Nothing blocks inside an internallock section, so each such *)
(* section is one step.                                                    *)
(*                                                                         *)
(* The owner is recorded by what GetCurrentThread() returns, which is one  *)
(* pseudo handle, the same in every thread: a thread that looks finds      *)
(* itself recorded as soon as any thread is.                               *)
(*                                                                         *)
(* Callers keep the contract of SRW locks: a thread that has the mutex for *)
(* reading only does not lock it again, and nested read locks are released *)
(* before the write lock they are under.                                   *)
(*                                                                         *)
(* Bound: MaxDepth, how often a thread locks the mutex it already has.     *)
(***************************************************************************)
EXTENDS Integers, FiniteSets

CONSTANTS Thread,
          Pseudo,     \* what GetCurrentThread() returns, in every thread
          NoHandle,   \* the null HANDLE
          NoThread,
          MaxDepth

ASSUME MutexAssumption ==
    /\ NoThread \notin Thread
    /\ Pseudo # NoHandle
    /\ MaxDepth \in Nat

VARIABLES
    excl,             \* SRWLOCK lock: the thread that took it exclusively
    shared,           \* SRWLOCK lock: how many times it is held shared
    write_thread,
    writelock_depth,
    readlock_depth,   \* a size_t that may wrap; nothing ever looks at it
    raised,           \* a shared release of a lock not held shared
    at,               \* where in a call each thread is, "out" outside
    hw, hr,           \* write and read locks the calls have granted each thread
    direct,           \* threads whose read lock is a shared hold of the SRW lock
    stray             \* history: a read lock that was only counted was released
                      \* on the SRW lock

fields == <<write_thread, writelock_depth, readlock_depth>>
lockVars == <<excl, shared, fields, raised, at, hw, hr, direct, stray>>

LockInit ==
    /\ excl = NoThread /\ shared = 0
    /\ write_thread = NoHandle /\ writelock_depth = 0 /\ readlock_depth = 0
    /\ raised = FALSE
    /\ at = [t \in Thread |-> "out"]
    /\ hw = [t \in Thread |-> 0] /\ hr = [t \in Thread |-> 0]
    /\ direct = {} /\ stray = FALSE

Recorded == write_thread = Pseudo
Moves(t, l) == at' = [at EXCEPT ![t] = l]
MayLock(t) == ~raised /\ at[t] = "out" /\ (hr[t] = 0 \/ hw[t] > 0)

-----------------------------------------------------------------------------
\* cflare_rwmutex_read_lock: under a recorded write lock it only counts...
ReadLock(t) ==
    /\ MayLock(t) /\ hr[t] <= MaxDepth
    /\ \/ /\ Recorded
          /\ readlock_depth' = readlock_depth + 1
          /\ hr' = [hr EXCEPT ![t] = @ + 1]
          /\ UNCHANGED <<write_thread, writelock_depth, at>>
       \/ /\ ~Recorded
          /\ Moves(t, "read")
          /\ UNCHANGED <<fields, hr>>
    /\ UNCHANGED <<excl, shared, raised, hw, direct, stray>>

\* ... otherwise it waits for AcquireSRWLockShared(&lock).
AcquireShared(t) ==
    /\ ~raised /\ at[t] = "read" /\ excl = NoThread
    /\ shared' = shared + 1
    /\ direct' = direct \cup {t}
    /\ Moves(t, "out")
    /\ hr' = [hr EXCEPT ![t] = @ + 1]
    /\ UNCHANGED <<excl, fields, raised, hw, stray>>

\* cflare_rwmutex_read_unlock: under a record it counts down, whatever was locked;
\* otherwise it releases lock, whatever was locked.
ReadUnlock(t) ==
    /\ ~raised /\ at[t] = "out" /\ hr[t] > 0
    /\ hr' = [hr EXCEPT ![t] = @ - 1]
    /\ \/ /\ Recorded
          /\ readlock_depth' = readlock_depth - 1
          /\ direct' = direct \ {t}
          /\ UNCHANGED <<write_thread, writelock_depth, at>>
       \/ /\ ~Recorded
          /\ Moves(t, "unread")
          /\ UNCHANGED <<fields, direct>>
    /\ UNCHANGED <<excl, shared, raised, hw, stray>>

\* ReleaseSRWLockShared(&lock).  The system does not know whose hold it is; with
\* no shared hold at all it raises an exception, and the process ends.
ReleaseShared(t) ==
    /\ ~raised /\ at[t] = "unread"
    /\ stray' = (stray \/ t \notin direct)
    /\ direct' = direct \ {t}
    /\ \/ shared > 0 /\ shared' = shared - 1 /\ Moves(t, "out") /\ UNCHANGED raised
       \/ shared = 0 /\ raised' = TRUE /\ UNCHANGED <<shared, at>>
    /\ UNCHANGED <<excl, fields, hw, hr>>

\* A slip: the owner is recorded before the SRW lock is waited for.
WriteLockRecordsFirst(t) ==
    /\ MayLock(t) /\ hw[t] <= MaxDepth
    /\ \/ /\ Recorded
          /\ writelock_depth' = writelock_depth + 1
          /\ hw' = [hw EXCEPT ![t] = @ + 1]
          /\ UNCHANGED <<write_thread, readlock_depth, at>>
       \/ /\ ~Recorded
          /\ write_thread' = Pseudo /\ writelock_depth' = 1
          /\ Moves(t, "write")
          /\ UNCHANGED <<readlock_depth, hw>>
    /\ UNCHANGED <<excl, shared, raised, hr, direct, stray>>

\* cflare_rwmutex_write_lock: under a record it goes one deeper, whoever asks...
WriteLock(t) ==
    /\ MayLock(t) /\ hw[t] <= MaxDepth
    /\ \/ /\ Recorded
          /\ writelock_depth' = writelock_depth + 1
          /\ hw' = [hw EXCEPT ![t] = @ + 1]
          /\ UNCHANGED <<write_thread, readlock_depth, at>>
       \/ /\ ~Recorded
          /\ Moves(t, "write")
          /\ UNCHANGED <<fields, hw>>
    /\ UNCHANGED <<excl, shared, raised, hr, direct, stray>>

\* ... otherwise it waits for AcquireSRWLockExclusive(&lock)...
AcquireExclusive(t) ==
    /\ ~raised /\ at[t] = "write" /\ excl = NoThread /\ shared = 0
    /\ excl' = t
    /\ Moves(t, "own")
    /\ UNCHANGED <<shared, fields, raised, hw, hr, direct, stray>>

\* ... and then, in a section of its own, records the owner.
Own(t) ==
    /\ ~raised /\ at[t] = "own"
    /\ write_thread' = Pseudo /\ writelock_depth' = 1
    /\ Moves(t, "out")
    /\ hw' = [hw EXCEPT ![t] = @ + 1]
    /\ UNCHANGED <<excl, shared, readlock_depth, raised, hr, direct, stray>>

\* A slip: any unlock releases the lock.
WriteUnlockIgnoresDepth(t) ==
    /\ ~raised /\ at[t] = "out" /\ hw[t] > 0 /\ (hw[t] > 1 \/ hr[t] = 0)
    /\ hw' = [hw EXCEPT ![t] = @ - 1]
    /\ writelock_depth' = writelock_depth - 1
    /\ write_thread' = NoHandle /\ excl' = NoThread
    /\ UNCHANGED <<shared, readlock_depth, raised, at, hr, direct, stray>>

\* cflare_rwmutex_write_unlock: all in one internallock section.  The system lets
\* any thread release what another has taken exclusively.
WriteUnlock(t) ==
    /\ ~raised /\ at[t] = "out" /\ hw[t] > 0 /\ (hw[t] > 1 \/ hr[t] = 0)
    /\ hw' = [hw EXCEPT ![t] = @ - 1]
    /\ writelock_depth' = IF Recorded THEN writelock_depth - 1 ELSE writelock_depth
    /\ \/ /\ Recorded /\ writelock_depth' > 0
          /\ UNCHANGED <<excl, write_thread>>
       \/ /\ ~(Recorded /\ writelock_depth' > 0)
          /\ write_thread' = NoHandle
          /\ excl' = NoThread
    /\ UNCHANGED <<shared, readlock_depth, raised, at, hr, direct, stray>>

-----------------------------------------------------------------------------
LockNext == \E t \in Thread :
    \/ ReadLock(t) \/ AcquireShared(t) \/ ReadUnlock(t) \/ ReleaseShared(t)
    \/ WriteLock(t) \/ AcquireExclusive(t) \/ Own(t) \/ WriteUnlock(t)

LockSpec == LockInit /\ [][LockNext]_lockVars

-----------------------------------------------------------------------------
\* Every variable has its type.
LockTypeOK ==
    /\ excl \in Thread \cup {NoThread} /\ shared \in Nat
    /\ write_thread \in {Pseudo, NoHandle}
    /\ writelock_depth \in Nat /\ readlock_depth \in Int /\ raised \in BOOLEAN
    /\ at \in [Thread -> {"out", "read", "unread", "write", "own"}]
    /\ hw \in [Thread -> Nat] /\ hr \in [Thread -> Nat]
    /\ direct \subseteq Thread /\ stray \in BOOLEAN


\* The write locks that were granted, the threads that were let in under the
\* record of another included.
WriteLocks == UNION {{t} \X (1..hw[t]) : t \in Thread}

\* What does hold: writelock_depth counts the write locks of all the threads that
\* are inside, so it never underflows, and the SRW lock is held until the last of
\* them unlocks and no longer (mutex.c:213-225).
DepthsExact ==
    /\ Recorded => excl # NoThread /\ writelock_depth = Cardinality(WriteLocks)
    /\ ~Recorded => WriteLocks = {}

\* And: a reader that waited for the SRW lock keeps all writers out, up to the
\* first read lock that was let in under a record and outlived it, whose unlock
\* gives up somebody else's hold (mutex.c:185-187).
ReadersKeepWritersOut == ~stray /\ direct # {} => WriteLocks = {}
=============================================================================

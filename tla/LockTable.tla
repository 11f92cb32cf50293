----------------------------- MODULE LockTable -----------------------------
(***************************************************************************)
(* The table of lockinfo structs behind every mutex of the Windows port    *)
(* (cflare-windows/mutex.c): a mutex is an index into "infos", which grows *)
(* by realloc.  alloc_lock and free_lock run under infos_lock and are one  *)
(* step each; get_info takes no lock, and its result, a pointer into the   *)
(* table, is used until the call on the mutex returns, which may be long   *)
(* when it waits for another thread.                                       *)
(*                                                                         *)
(* The first mutex is made by cflare_load before there are other threads.  *)
(* Bounds: StartLen for the 16 of the code; MaxLen, the size up to which   *)
(* the table grows; Mutexes, the mutexes alive at once.                    *)
(***************************************************************************)
EXTENDS Integers, FiniteSets

CONSTANTS Mutexes, Lockers, StartLen, MaxLen

ASSUME LockTableAssumption == StartLen \in Nat \ {0} /\ MaxLen \in Nat /\ IsFiniteSet(Mutexes)

VARIABLES
    infos_len, infos_free, infos_curpos,
    used,       \* positions with is_used
    block,      \* which block of memory infos is: realloc may move it
    id,         \* the id each mutex was given, 0 when it does not exist
    inside,     \* threads in a call on a mutex: <<mutex, block>>, or <<>>
    fatal       \* free_lock found the mutex already free

tableVars == <<infos_len, infos_free, infos_curpos, used, block, id, inside, fatal>>

TableInit ==
    /\ infos_len = 0 /\ infos_free = 0 /\ infos_curpos = 0
    /\ used = {} /\ block = 0
    /\ id = [m \in Mutexes |-> 0] /\ inside = [t \in Lockers |-> <<>>]
    /\ fatal = FALSE

Users(m) == {t \in Lockers : inside[t] # <<>> /\ inside[t][1] = m}

\* realloc_locks: the length the table has when a position is looked for.
Length ==
    IF infos_len = 0 THEN StartLen
    ELSE IF infos_free = 0 THEN infos_len * 2 ELSE infos_len

\* A slip: a position that is in use is passed over only once.
StopsAtSlip(pos, len) ==
    \/ pos = infos_curpos /\ pos \notin used
    \/ pos = (infos_curpos + 1) % len /\ infos_curpos \in used

\* The loop in alloc_lock ends at the first free position from infos_curpos on,
\* round the end of the table.
StopsAt(pos, len) ==
    /\ pos \notin used
    /\ \A p \in 0..(len - 1) :
          (p - infos_curpos) % len < (pos - infos_curpos) % len => p \in used

\* A slip: the search is to go on behind the position that was taken.
NewMovesOn(m) ==
    /\ ~fatal /\ id[m] = 0 /\ Length <= MaxLen
    /\ infos_len' = Length
    /\ \E pos \in 0..(Length - 1) :
          /\ StopsAt(pos, Length)
          /\ used' = used \cup {pos}
          /\ infos_curpos' = pos + 1
          /\ id' = [id EXCEPT ![m] = pos + 1]
    /\ infos_free' = infos_free + (Length - infos_len) - 1
    /\ block' \in (IF Length = infos_len THEN {block} ELSE {block, block + 1})
    /\ UNCHANGED <<inside, fatal>>

\* alloc_lock, from cflare_rwmutex_new.
New(m) ==
    /\ ~fatal /\ id[m] = 0 /\ Length <= MaxLen
    /\ infos_len' = Length
    /\ \E pos \in 0..(Length - 1) :
          /\ StopsAt(pos, Length)
          /\ used' = used \cup {pos}
          /\ infos_curpos' = pos
          /\ id' = [id EXCEPT ![m] = pos + 1]
    /\ infos_free' = infos_free + (Length - infos_len) - 1
    /\ block' \in (IF Length = infos_len THEN {block} ELSE {block, block + 1})
    /\ UNCHANGED <<inside, fatal>>

\* A slip: the position is not counted as free again.
DeleteUncounted(m) ==
    /\ ~fatal /\ id[m] # 0 /\ Users(m) = {}
    /\ used' = used \ {id[m] - 1}
    /\ id' = [id EXCEPT ![m] = 0]
    /\ UNCHANGED <<infos_len, infos_free, infos_curpos, block, inside, fatal>>

\* free_lock, from cflare_rwmutex_delete of a mutex nobody uses.
Delete(m) ==
    /\ ~fatal /\ id[m] # 0 /\ Users(m) = {}
    /\ used' = used \ {id[m] - 1}
    /\ infos_free' = infos_free + 1
    /\ id' = [id EXCEPT ![m] = 0]
    /\ UNCHANGED <<infos_len, infos_curpos, block, inside, fatal>>

\* free_lock of a mutex that was deleted before, when it is noticed.
DeleteAgain ==
    /\ ~fatal /\ \E pos \in 0..(infos_len - 1) : pos \notin used
    /\ fatal' = TRUE
    /\ UNCHANGED <<infos_len, infos_free, infos_curpos, used, block, id, inside>>

\* A lock or unlock call: get_info, then work on what it points to.
Enter(t, m) ==
    /\ ~fatal /\ inside[t] = <<>> /\ id[m] # 0
    /\ inside' = [inside EXCEPT ![t] = <<m, block>>]
    /\ UNCHANGED <<infos_len, infos_free, infos_curpos, used, block, id, fatal>>

Leave(t) ==
    /\ ~fatal /\ inside[t] # <<>>
    /\ inside' = [inside EXCEPT ![t] = <<>>]
    /\ UNCHANGED <<infos_len, infos_free, infos_curpos, used, block, id, fatal>>

TableNext ==
    \/ DeleteAgain
    \/ \E m \in Mutexes : New(m) \/ Delete(m) \/ \E t \in Lockers : Enter(t, m)
    \/ \E t \in Lockers : Leave(t)

TableSpec == TableInit /\ [][TableNext]_tableVars

-----------------------------------------------------------------------------
\* Every variable has its type.
TableTypeOK ==
    /\ infos_len \in Nat /\ infos_free \in Nat /\ infos_curpos \in Nat /\ block \in Nat
    /\ infos_len > 0 => infos_curpos < infos_len
    /\ used \subseteq 0..(infos_len - 1)
    /\ id \in [Mutexes -> 0..infos_len] /\ fatal \in BOOLEAN
    /\ inside \in [Lockers -> {<<>>} \cup (Mutexes \X Nat)]

\* Two mutexes are never the same lock, through growth, reuse and wrap-around;
\* and a mutex's position stays reserved for as long as it exists.
DistinctLocks ==
    /\ \A m, n \in Mutexes : id[m] # 0 /\ id[m] = id[n] => m = n
    /\ \A m \in Mutexes : id[m] # 0 => id[m] - 1 \in used

\* infos_free is the number of unused positions: the loop in alloc_lock, which
\* ends only at an unused one, is entered only when there is one.
FreeIsExact == infos_free = infos_len - Cardinality(used)

\* 50.mutex.def on a mutex: "only one thread may have it locked at any one time";
\* so the threads in calls on mutexes work on the table that is in use, not on
\* memory that realloc has freed.
WorksOnTable == \A t \in Lockers : inside[t] # <<>> => inside[t][2] = block
=============================================================================

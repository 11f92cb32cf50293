----------------------------- MODULE Hashtable -----------------------------
(***************************************************************************)
(* The hashtable (cflare/hashtable.c) and the threads that use it.  Its    *)
(* read/write mutex makes cflare_hashtable_rebuild, the second part of     *)
(* cflare_hashtable_set and cflare_hashtable_get atomic; but set decides   *)
(* on a new size before it takes the mutex, from fields that other threads *)
(* change meanwhile.                                                       *)
(*                                                                         *)
(* A value is the copy the table makes of the caller's bytes.  Setting the *)
(* value a key already has stands for bytes that compare equal.            *)
(*                                                                         *)
(* Bounds: Keys, with Hash their hash; Values, the copies alive at once;   *)
(* StartSize for start_size (32); Rebuilds, the sizes clients ask for;     *)
(* SizeT for the range of size_t.                                          *)
(***************************************************************************)
EXTENDS Integers, Sequences, SequencesExt, FiniteSets

CONSTANTS Threads, Keys, Hash, Values, NoValue, NoCall, StartSize, Rebuilds, SizeT

ASSUME HashtableAssumption ==
    /\ IsFiniteSet(Keys) /\ Hash \in [Keys -> Nat] /\ NoValue \notin Values
    /\ NoCall \notin Keys \X (Values \cup {NoValue})
    /\ StartSize \in Nat \ {0} /\ Rebuilds \subseteq Nat \ {0}
    /\ SizeT \in Nat /\ SizeT > Cardinality(Keys) + 1

VARIABLES
    buckets,         \* map->buckets: the list of containers in each bucket
    buckets_count,
    count,
    pc,              \* "idle", "size", "rebuild", "set" of each thread
    asked,           \* the key and value of each thread's set
    newsize,         \* the local newsize of each thread's set
    got,             \* the key and the result of the last get
    alive,           \* the values that were copied and not given to the deleter
    status           \* "ok", "deleted", or "aborted" by a failed assertion

table == <<buckets, buckets_count, count, alive>>
vars == <<table, pc, asked, newsize, got, status>>

Init ==
    /\ buckets = [i \in {} |-> <<>>] /\ buckets_count = 0 /\ count = 0
    /\ pc = [t \in Threads |-> "idle"]
    /\ asked = [t \in Threads |-> NoCall]
    /\ newsize = [t \in Threads |-> 0]
    /\ got = NoCall
    /\ alive = {} /\ status = "ok"

BucketOf(k) == Hash[k] % buckets_count

\* A place is a bucket and a position in its list.
Places == UNION {{i} \X DOMAIN buckets[i] : i \in DOMAIN buckets}
At(q) == buckets[q[1]][q[2]]
Entries == {At(q) : q \in Places}

\* The search in a bucket: the position of the container with this key, or 0.
Find(k) == SelectInSeq(buckets[BucketOf(k)], LAMBDA e : e.key = k)

\* What a get of this key finds.
Lookup(k) ==
    IF buckets_count = 0 THEN NoValue
    ELSE IF Find(k) = 0 THEN NoValue ELSE buckets[BucketOf(k)][Find(k)].value

-----------------------------------------------------------------------------
(* cflare_hashtable_rebuild: all containers move, in order, to new buckets.*)

\* The walk over all buckets gets to place q before it gets to place r.
Earlier(q, r) == q[1] < r[1] \/ (q[1] = r[1] /\ q[2] < r[2])

\* The containers at these places as the walk appends them to a new list: the
\* k-th is the one that has k - 1 before it.
InOrder(P) ==
    [k \in 1..Cardinality(P) |-> At(CHOOSE q \in P : Cardinality({r \in P : Earlier(r, q)}) = k - 1)]

\* A slip: the new buckets are chosen with the old number of buckets.
MovedStale(n) == [p \in 0..(n - 1) |-> InOrder({q \in Places : BucketOf(At(q).key) = p})]

Moved(n) == [p \in 0..(n - 1) |-> InOrder({q \in Places : Hash[At(q).key] % n = p})]

Rebuilt(n) ==
    /\ buckets' = Moved(n) /\ buckets_count' = n
    /\ UNCHANGED <<count, alive>>

\* A client asks for a number of buckets.
Rebuild(t) ==
    /\ status = "ok" /\ pc[t] = "idle"
    /\ \E n \in Rebuilds : Rebuilt(n)
    /\ UNCHANGED <<pc, asked, newsize, got, status>>

-----------------------------------------------------------------------------
(* cflare_hashtable_set, of NoValue for a null pointer.                    *)

\* The copies a caller's bytes may become: a new one, or for bytes equal to
\* those stored under the key, the stored one.
Bytes(k) ==
    {NoValue} \cup (Values \ (alive \cup {asked[t][2] : t \in {u \in Threads : asked[u] # NoCall}}))
    \cup {Lookup(k)}

\* map->count + 1 > map->buckets_count * 2, and map->count - 1 < map->buckets_count / 8
MustGrow == count + 1 > buckets_count * 2
MustShrink == (count - 1) % SizeT < buckets_count \div 8

\* The first look at the size.
Set(t) ==
    /\ status = "ok" /\ pc[t] = "idle"
    /\ \E k \in Keys : \E v \in Bytes(k) :
          /\ asked' = [asked EXCEPT ![t] = <<k, v>>]
          /\ pc' = [pc EXCEPT ![t] = IF (v # NoValue /\ MustGrow) \/ (v = NoValue /\ MustShrink)
                                     THEN "size" ELSE "set"]
    /\ UNCHANGED <<table, newsize, got, status>>

\* The second: newsize is computed from buckets_count as it is then.
SetSize(t) ==
    /\ status = "ok" /\ pc[t] = "size"
    /\ LET n == IF asked[t][2] = NoValue THEN buckets_count \div 4
                ELSE IF buckets_count * 4 < StartSize THEN StartSize ELSE buckets_count * 4
       IN  IF asked[t][2] # NoValue \/ n > StartSize
           THEN pc' = [pc EXCEPT ![t] = "rebuild"] /\ newsize' = [newsize EXCEPT ![t] = n]
           ELSE pc' = [pc EXCEPT ![t] = "set"] /\ UNCHANGED newsize
    /\ UNCHANGED <<table, asked, got, status>>

SetRebuild(t) ==
    /\ status = "ok" /\ pc[t] = "rebuild"
    /\ Rebuilt(newsize[t])
    /\ pc' = [pc EXCEPT ![t] = "set"]
    /\ newsize' = [newsize EXCEPT ![t] = 0]     \* not used again
    /\ UNCHANGED <<asked, got, status>>

\* The containers of bucket b after key k was set to v there.
Stored(b, k, v) ==
    LET i == SelectInSeq(b, LAMBDA e : e.key = k)
    IN  IF v = NoValue THEN IF i = 0 THEN b ELSE RemoveAt(b, i)
        ELSE IF i = 0 THEN Append(b, [key |-> k, value |-> v])
        ELSE [b EXCEPT ![i].value = v]

\* A slip: the value that is replaced is not given to the deleter.
KeepsOldValue(k, v) == IF v = NoValue THEN alive \ {Lookup(k)} ELSE alive \cup {v}

\* The old value goes to the deleter unless its bytes are the new ones.
Disposed(k, v) == (alive \ {Lookup(k)}) \cup ({v} \ {NoValue})

\* The part under the mutex; the assertion before it is that there are buckets.
SetStores(t) ==
    /\ status = "ok" /\ pc[t] = "set" /\ buckets_count > 0
    /\ LET k == asked[t][1]
           v == asked[t][2]
           p == BucketOf(k)
       IN  /\ buckets' = [buckets EXCEPT ![p] = Stored(@, k, v)]
           /\ count' = count + Len(buckets'[p]) - Len(buckets[p])
           /\ alive' = Disposed(k, v)
    /\ pc' = [pc EXCEPT ![t] = "idle"]
    /\ asked' = [asked EXCEPT ![t] = NoCall]
    /\ UNCHANGED <<buckets_count, newsize, got, status>>

SetAborts(t) ==
    /\ status = "ok" /\ pc[t] = "set" /\ buckets_count = 0
    /\ status' = "aborted"
    /\ UNCHANGED <<table, pc, asked, newsize, got>>

-----------------------------------------------------------------------------
\* A slip: the search ends at the first container of the bucket.
GetFirst(t) ==
    /\ status = "ok" /\ pc[t] = "idle"
    /\ \E k \in Keys :
          got' = <<k, IF buckets_count = 0 \/ Lookup(k) = NoValue THEN NoValue
                      ELSE buckets[BucketOf(k)][1].value>>
    /\ UNCHANGED <<table, pc, asked, newsize, status>>

\* cflare_hashtable_get.
Get(t) ==
    /\ status = "ok" /\ pc[t] = "idle"
    /\ \E k \in Keys : got' = <<k, Lookup(k)>>
    /\ UNCHANGED <<table, pc, asked, newsize, status>>

\* cflare_hashtable_delete, when no thread uses the table any more.
Delete ==
    /\ status = "ok" /\ \A t \in Threads : pc[t] = "idle"
    /\ status' = "deleted"
    /\ buckets' = [i \in {} |-> <<>>] /\ buckets_count' = 0
    /\ alive' = alive \ {e.value : e \in Entries}
    /\ UNCHANGED <<count, pc, asked, newsize, got>>

Next ==
    \/ Delete
    \/ \E t \in Threads :
          Rebuild(t) \/ Set(t) \/ SetSize(t) \/ SetRebuild(t) \/ SetStores(t) \/ SetAborts(t) \/ Get(t)

Spec == Init /\ [][Next]_vars

-----------------------------------------------------------------------------
\* Every variable has its type.
TypeOK ==
    /\ buckets_count \in Nat /\ DOMAIN buckets = 0..(buckets_count - 1)
    /\ Entries \subseteq [key : Keys, value : Values]
    /\ count \in 0..Cardinality(Keys)
    /\ pc \in [Threads -> {"idle", "size", "rebuild", "set"}]
    /\ asked \in [Threads -> {NoCall} \cup (Keys \X (Values \cup {NoValue}))]
    /\ newsize \in [Threads -> Nat] /\ got \in {NoCall} \cup (Keys \X (Values \cup {NoValue}))
    /\ alive \subseteq Values /\ status \in {"ok", "deleted", "aborted"}

\* However resizes race with each other, every container can be found again: it
\* is in the bucket its hash selects now, once, and count counts them.
Findable ==
    status = "ok" =>
        /\ \A i \in DOMAIN buckets : \A j \in DOMAIN buckets[i] : BucketOf(buckets[i][j].key) = i
        /\ \A i \in DOMAIN buckets : \A j, l \in DOMAIN buckets[i] :
              buckets[i][j].key = buckets[i][l].key => j = l
        /\ count = Cardinality(Entries)

\* "Upon freeing an element, call the deleter": the table's copies are those in
\* its containers, none is lost without the deleter having run and none stays
\* in the table after it has.
Owned == alive = {e.value : e \in Entries}

\* 50.hashtable.def on the value of set: "If this is null, then it removes the
\* value held by the key."
RemoveIsTotal == status # "aborted"

\* The table is a map: what the search finds for each key changes only by the
\* set calls, each at once, and never by a resize.
Abstract ==
    INSTANCE Map WITH
        map <- [k \in Keys |-> Lookup(k)],
        asked <- asked, got <- got
Implements == Abstract!Spec
=============================================================================

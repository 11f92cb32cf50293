--------------------------- MODULE HashtableProofs ---------------------------
(***************************************************************************)
(* Proofs about Hashtable, for any threads, keys, hash values and sizes:   *)
(* however resizes race, every container stays where the search looks for  *)
(* it, the table owns exactly the copies in its containers, and it is a    *)
(* map to its threads.                                                     *)
(*                                                                         *)
(* The lemmas speak of any buckets b, n of them, so that they apply to the *)
(* table before and after a step.                                          *)
(***************************************************************************)
EXTENDS Hashtable, SequenceTheorems, FiniteSetTheorems, TLAPS

Containers == [key : Keys, value : Values]

\* The bucket a key belongs to when there are n.
Slot(k, n) == Hash[k] % n

\* No two containers of a bucket have the same key.
KeysDistinct(s) == \A i, j \in 1..Len(s) : s[i].key = s[j].key => i = j

\* Every container is in the bucket of its key, and no key is there twice.
Sound(b, n) ==
    /\ n \in Nat /\ b \in [0..(n - 1) -> Seq(Containers)]
    /\ \A i \in 0..(n - 1) : \A j \in 1..Len(b[i]) : Slot(b[i][j].key, n) = i
    /\ \A i \in 0..(n - 1) : KeysDistinct(b[i])

\* e is a container in these buckets.
Holds(b, n, e) == \E i \in 0..(n - 1) : \E j \in 1..Len(b[i]) : e = b[i][j]

Held(b, n) == {e \in Containers : Holds(b, n, e)}

\* The bucket of a key is one of the buckets.
LEMMA SlotInRange ==
    ASSUME NEW k \in Keys, NEW n \in Nat \ {0} PROVE Slot(k, n) \in 0..(n - 1)
  <1>1. Hash[k] \in Nat
    BY HashtableAssumption
  <1> QED
    BY <1>1 DEF Slot

\* What is in sound buckets is a container.
LEMMA HeldContainers ==
    ASSUME NEW n, NEW b, Sound(b, n), NEW i \in 0..(n - 1), NEW j \in 1..Len(b[i])
    PROVE  b[i][j] \in Containers /\ b[i][j].key \in Keys /\ b[i][j].value \in Values /\ b[i][j] \in Held(b, n)
  <1>1. b[i] \in Seq(Containers)
    BY DEF Sound
  <1>2. b[i][j] \in Containers
    BY <1>1, ElementOfSeq
  <1> QED
    BY <1>2 DEF Containers, Held, Holds

\* A key is in sound buckets at most once.
LEMMA OnePlace ==
    ASSUME NEW n, NEW b, Sound(b, n), NEW i \in 0..(n - 1), NEW j \in 1..Len(b[i]),
           NEW h \in 0..(n - 1), NEW l \in 1..Len(b[h]), b[i][j].key = b[h][l].key
    PROVE  i = h /\ j = l
  <1>1. i = h
    BY DEF Sound
  <1> QED
    BY <1>1 DEF Sound, KeysDistinct

\* So the containers of one key are one.
LEMMA OneContainer ==
    ASSUME NEW n, NEW b, Sound(b, n), NEW e \in Held(b, n), NEW f \in Held(b, n), e.key = f.key
    PROVE  e = f
  <1>1. PICK i \in 0..(n - 1) : \E j \in 1..Len(b[i]) : e = b[i][j]
    BY DEF Held, Holds
  <1>2. PICK j \in 1..Len(b[i]) : e = b[i][j]
    BY <1>1
  <1>3. PICK h \in 0..(n - 1) : \E l \in 1..Len(b[h]) : f = b[h][l]
    BY DEF Held, Holds
  <1>4. PICK l \in 1..Len(b[h]) : f = b[h][l]
    BY <1>3
  <1> QED
    BY <1>2, <1>4, OnePlace

\* There are finitely many containers, not more than keys.
LEMMA HeldIsFinite ==
    ASSUME NEW n, NEW b, Sound(b, n)
    PROVE  IsFiniteSet(Held(b, n)) /\ Cardinality(Held(b, n)) \in 0..Cardinality(Keys)
  <1> DEFINE H == Held(b, n)
             f == [e \in H |-> e.key]
  <1>1. f \in Injection(H, Keys)
    <2>1. f \in [H -> Keys]
      BY DEF Held, Containers
    <2>2. ASSUME NEW e \in H, NEW g \in H, f[e] = f[g] PROVE e = g
      BY <2>2, OneContainer
    <2> QED
      BY <2>1, <2>2 DEF Injection, IsInjective
  <1>2. IsFiniteSet(Keys)
    BY HashtableAssumption
  <1>3. IsFiniteSet(H) /\ Cardinality(H) <= Cardinality(Keys)
    BY <1>1, <1>2, FS_Injection
  <1>4. Cardinality(H) \in Nat /\ Cardinality(Keys) \in Nat
    BY <1>2, <1>3, FS_CardinalityType
  <1> QED
    BY <1>3, <1>4

-----------------------------------------------------------------------------
(* The search.                                                             *)

\* The search in the list of one bucket.
FindIn(s, k) == SelectInSeq(s, LAMBDA e : e.key = k)

\* Lookup, of any buckets.
LookupIn(b, n, k) ==
    IF n = 0 THEN NoValue
    ELSE IF FindIn(b[Slot(k, n)], k) = 0 THEN NoValue
    ELSE b[Slot(k, n)][FindIn(b[Slot(k, n)], k)].value

\* Lookup is LookupIn of the variables, in this state and the next.
LEMMA LookupIs ==
    ASSUME NEW k
    PROVE  /\ Lookup(k) = LookupIn(buckets, buckets_count, k)
           /\ Lookup(k)' = LookupIn(buckets', buckets_count', k)
  BY DEF Lookup, Find, BucketOf, LookupIn, FindIn, SelectInSeq, Slot

\* It finds the container of a key in a list that has the key once.
LEMMA Found ==
    ASSUME NEW s \in Seq(Containers), KeysDistinct(s), NEW k, NEW j \in 1..Len(s), s[j].key = k
    PROVE  FindIn(s, k) = j
  <1>1. {i \in 1..Len(s) : s[i].key = k} = {j}
    BY DEF KeysDistinct
  <1>2. Len(s) \in Nat /\ j \in Nat
    BY LenProperties
  <1>3. Min({j}) = j
    BY <1>2 DEF Min
  <1> QED
    BY <1>1, <1>3 DEF FindIn, SelectInSeq

\* It finds none when no container has the key.
LEMMA NotFound ==
    ASSUME NEW s \in Seq(Containers), NEW k, \A j \in 1..Len(s) : s[j].key # k
    PROVE  FindIn(s, k) = 0
  <1>1. {i \in 1..Len(s) : s[i].key = k} = {}
    OBVIOUS
  <1> QED
    BY <1>1 DEF FindIn, SelectInSeq

\* The search finds the container of a key if there is one in any bucket.
LEMMA SearchFinds ==
    ASSUME NEW n, NEW b, Sound(b, n), NEW e \in Held(b, n)
    PROVE  LookupIn(b, n, e.key) = e.value
  <1>1. PICK i \in 0..(n - 1) : \E j \in 1..Len(b[i]) : e = b[i][j]
    BY DEF Held, Holds
  <1>2. PICK j \in 1..Len(b[i]) : e = b[i][j]
    BY <1>1
  <1>3. Slot(e.key, n) = i /\ b[i] \in Seq(Containers) /\ KeysDistinct(b[i])
    BY <1>2 DEF Sound
  <1>4. FindIn(b[i], e.key) = j
    BY <1>2, <1>3, Found
  <1>5. n # 0 /\ j # 0
    BY <1>3, LenProperties DEF Sound
  <1> QED
    BY <1>2, <1>3, <1>4, <1>5 DEF LookupIn

\* It finds nothing if there is none.
LEMMA SearchFindsNothing ==
    ASSUME NEW n, NEW b, Sound(b, n), NEW k \in Keys, \A e \in Held(b, n) : e.key # k
    PROVE  LookupIn(b, n, k) = NoValue
  <1>1. CASE n = 0
    BY <1>1 DEF LookupIn
  <1>2. CASE n # 0
    <2>1. Slot(k, n) \in 0..(n - 1)
      BY <1>2, SlotInRange DEF Sound
    <2>2. b[Slot(k, n)] \in Seq(Containers)
      BY <2>1 DEF Sound
    <2>3. \A j \in 1..Len(b[Slot(k, n)]) : b[Slot(k, n)][j].key # k
      BY <2>1, HeldContainers
    <2>4. FindIn(b[Slot(k, n)], k) = 0
      BY <2>2, <2>3, NotFound
    <2> QED
      BY <1>2, <2>4 DEF LookupIn
  <1> QED
    BY <1>1, <1>2

-----------------------------------------------------------------------------
(* The list of a bucket after a set.                                       *)

\* RemoveAt, element by element.
LEMMA RemovedAt ==
    ASSUME NEW S, NEW s \in Seq(S), NEW k \in 1..Len(s)
    PROVE  /\ RemoveAt(s, k) \in Seq(S)
           /\ Len(RemoveAt(s, k)) = Len(s) - 1
           /\ \A i \in 1..(Len(s) - 1) : RemoveAt(s, k)[i] = IF i < k THEN s[i] ELSE s[i + 1]
  <1> DEFINE a == SubSeq(s, 1, k - 1)
             b == SubSeq(s, k + 1, Len(s))
             r == RemoveAt(s, k)
  <1> HIDE DEF a, b, r
  <1>1. Len(s) \in Nat /\ k \in Nat
    BY LenProperties
  <1>2. a \in Seq(S) /\ Len(a) = k - 1 /\ \A i \in 1..(k - 1) : a[i] = s[i]
    BY <1>1, SubSeqProperties, ElementOfSeq DEF a
  <1>3. b \in Seq(S) /\ Len(b) = Len(s) - k /\ \A i \in 1..(Len(s) - k) : b[i] = s[k + i]
    BY <1>1, SubSeqProperties, ElementOfSeq DEF b
  <1>4. r = a \o b
    BY DEF RemoveAt, a, b, r
  <1>5. r \in Seq(S) /\ Len(r) = Len(s) - 1
    <2>1. r \in Seq(S) /\ Len(r) = Len(a) + Len(b)
      BY <1>2, <1>3, <1>4, ConcatProperties
    <2> QED
      BY <1>1, <1>2, <1>3, <2>1
  <1>6. ASSUME NEW i \in 1..(Len(s) - 1) PROVE r[i] = IF i < k THEN s[i] ELSE s[i + 1]
    <2>1. r[i] = IF i <= k - 1 THEN a[i] ELSE b[i - (k - 1)]
      BY <1>1, <1>2, <1>3, <1>4, ConcatProperties
    <2>2. CASE i < k
      BY <1>1, <1>2, <2>1, <2>2
    <2>3. CASE ~(i < k)
      <3>1. i - (k - 1) \in 1..(Len(s) - k) /\ k + (i - (k - 1)) = i + 1
        BY <1>1, <2>3
      <3>2. b[i - (k - 1)] = s[k + (i - (k - 1))]
        BY <1>3, <3>1
      <3> QED
        BY <1>1, <2>1, <2>3, <3>1, <3>2
    <2> QED
      BY <2>2, <2>3
  <1> QED
    BY <1>5, <1>6 DEF r

In(s, e) == \E j \in 1..Len(s) : e = s[j]
Has(s, k) == \E j \in 1..Len(s) : s[j].key = k

\* r is s with the container of key k, if there is one, taken out, and one with
\* value v put in unless v is NoValue.
Sets(r, s, k, v) ==
    /\ r \in Seq(Containers) /\ KeysDistinct(r)
    /\ \A e : In(r, e) <=> (In(s, e) /\ e.key # k) \/ (v # NoValue /\ e = [key |-> k, value |-> v])
    /\ Len(r) = Len(s) + (IF v = NoValue THEN 0 ELSE 1) - (IF Has(s, k) THEN 1 ELSE 0)

\* The container is removed.
LEMMA SetsRemoves ==
    ASSUME NEW s \in Seq(Containers), KeysDistinct(s), NEW k, NEW j \in 1..Len(s), s[j].key = k
    PROVE  Sets(RemoveAt(s, j), s, k, NoValue)
  <1> DEFINE r == RemoveAt(s, j)
             From(i) == IF i < j THEN i ELSE i + 1
  <1> HIDE DEF r
  <1>1. Len(s) \in Nat /\ j \in Nat
    BY LenProperties
  <1>2. /\ r \in Seq(Containers) /\ Len(r) = Len(s) - 1
        /\ \A i \in 1..(Len(s) - 1) : r[i] = IF i < j THEN s[i] ELSE s[i + 1]
    BY RemovedAt DEF r
  <1>3. ASSUME NEW i \in 1..Len(r) PROVE From(i) \in 1..Len(s) /\ r[i] = s[From(i)] /\ From(i) # j
    BY <1>1, <1>2
  <1>4. ASSUME NEW i \in 1..Len(s), i # j PROVE \E h \in 1..Len(r) : s[i] = r[h]
    <2>1. CASE i < j
      <3>1. i \in 1..Len(r) /\ r[i] = s[i]
        BY <1>1, <1>2, <2>1
      <3> QED
        BY <3>1
    <2>2. CASE i > j
      <3>1. i - 1 \in 1..Len(r) /\ r[i - 1] = s[i - 1 + 1] /\ i - 1 + 1 = i
        BY <1>1, <1>2, <2>2
      <3> QED
        BY <3>1
    <2> QED
      BY <1>1, <1>4, <2>1, <2>2
  <1>5. KeysDistinct(r)
    <2>1. SUFFICES ASSUME NEW i \in 1..Len(r), NEW h \in 1..Len(r), r[i].key = r[h].key PROVE i = h
      BY DEF KeysDistinct
    <2>2. From(i) = From(h)
      <3> HIDE DEF From
      <3> QED
        BY <1>3, <2>1 DEF KeysDistinct
    <2> QED
      BY <1>1, <1>2, <2>2
  <1>6. ASSUME NEW e PROVE In(r, e) <=> In(s, e) /\ e.key # k
    <2> HIDE DEF From
    <2>1. ASSUME In(r, e) PROVE In(s, e) /\ e.key # k
      <3>1. PICK i \in 1..Len(r) : e = r[i]
        BY <2>1 DEF In
      <3> QED
        BY <1>3, <3>1 DEF In, KeysDistinct
    <2>2. ASSUME In(s, e), e.key # k PROVE In(r, e)
      <3>1. PICK i \in 1..Len(s) : e = s[i]
        BY <2>2 DEF In
      <3> QED
        BY <1>4, <2>2, <3>1 DEF In
    <2> QED
      BY <2>1, <2>2
  <1>7. Has(s, k)
    BY DEF Has
  <1> QED
    BY <1>1, <1>2, <1>5, <1>6, <1>7 DEF Sets, r

\* A container is appended.
LEMMA SetsAppends ==
    ASSUME NEW s \in Seq(Containers), KeysDistinct(s), NEW k \in Keys, ~Has(s, k), NEW v \in Values
    PROVE  Sets(Append(s, [key |-> k, value |-> v]), s, k, v)
  <1> DEFINE c == [key |-> k, value |-> v]
             r == Append(s, c)
  <1>1. c \in Containers /\ c.key = k
    BY DEF Containers
  <1> HIDE DEF c
  <1>2. /\ r \in Seq(Containers) /\ Len(r) = Len(s) + 1 /\ Len(s) \in Nat
        /\ \A i \in 1..Len(s) : r[i] = s[i]
        /\ r[Len(s) + 1] = c
    BY <1>1, AppendProperties, LenProperties
  <1> HIDE DEF r
  <1>3. \A i \in 1..Len(r) : i \in 1..Len(s) \/ i = Len(s) + 1
    BY <1>2
  <1>4. \A i \in 1..Len(s) : s[i].key # k /\ i \in 1..Len(r)
    BY <1>2 DEF Has
  <1>5. Len(s) + 1 \in 1..Len(r)
    BY <1>2
  <1>6. KeysDistinct(r)
    BY <1>1, <1>2, <1>3, <1>4 DEF KeysDistinct
  <1>7. ASSUME NEW e PROVE In(r, e) <=> (In(s, e) /\ e.key # k) \/ e = c
    <2>1. ASSUME In(r, e) PROVE (In(s, e) /\ e.key # k) \/ e = c
      BY <1>2, <1>3, <1>4, <2>1 DEF In
    <2>2. ASSUME In(s, e) PROVE In(r, e)
      BY <1>2, <1>4, <2>2 DEF In
    <2>3. In(r, c)
      BY <1>2, <1>5 DEF In
    <2> QED
      BY <2>1, <2>2, <2>3
  <1>8. v # NoValue
    BY HashtableAssumption
  <1> QED
    BY <1>2, <1>6, <1>7, <1>8 DEF Sets, r, c

\* The value of a container is replaced.
LEMMA SetsReplaces ==
    ASSUME NEW s \in Seq(Containers), KeysDistinct(s), NEW k \in Keys, NEW v \in Values,
           NEW j \in 1..Len(s), s[j].key = k
    PROVE  Sets([s EXCEPT ![j].value = v], s, k, v)
  <1> DEFINE c == [key |-> k, value |-> v]
             r == [s EXCEPT ![j].value = v]
  <1>1. c \in Containers /\ c.key = k
    BY DEF Containers
  <1>2. s \in [1..Len(s) -> Containers] /\ Len(s) \in Nat
    BY LenProperties
  <1>3. [s[j] EXCEPT !.value = v] = c
    BY <1>2 DEF Containers
  <1>4. r \in [1..Len(s) -> Containers] /\ \A i \in 1..Len(s) : r[i] = IF i = j THEN c ELSE s[i]
    BY <1>1, <1>2, <1>3
  <1> HIDE DEF c, r
  <1>5. r \in Seq(Containers) /\ Len(r) = Len(s)
    BY <1>2, <1>4
  <1>6. KeysDistinct(r)
    <2>1. \A i \in 1..Len(s) : r[i].key = s[i].key
      BY <1>1, <1>4
    <2> QED
      BY <1>5, <2>1 DEF KeysDistinct
  <1>7. ASSUME NEW e PROVE In(r, e) <=> (In(s, e) /\ e.key # k) \/ e = c
    <2>1. ASSUME In(r, e) PROVE (In(s, e) /\ e.key # k) \/ e = c
      <3>1. PICK i \in 1..Len(s) : e = r[i]
        BY <1>5, <2>1 DEF In
      <3> QED
        BY <1>4, <3>1 DEF In, KeysDistinct
    <2>2. ASSUME In(s, e), e.key # k PROVE In(r, e)
      <3>1. PICK i \in 1..Len(s) : e = s[i]
        BY <2>2 DEF In
      <3> QED
        BY <1>4, <1>5, <2>2, <3>1 DEF In
    <2>3. In(r, c)
      BY <1>4, <1>5 DEF In
    <2> QED
      BY <2>1, <2>2, <2>3
  <1>8. v # NoValue /\ Has(s, k)
    BY HashtableAssumption DEF Has
  <1>9. Sets(r, s, k, v)
    BY <1>2, <1>5, <1>6, <1>7, <1>8 DEF Sets, c
  <1> QED
    BY <1>9 DEF r

\* What cflare_hashtable_set does to the list of a bucket.
LEMMA StoredSets ==
    ASSUME NEW s \in Seq(Containers), KeysDistinct(s), NEW k \in Keys, NEW v \in Values \cup {NoValue}
    PROVE  Sets(Stored(s, k, v), s, k, v)
  <1>1. Stored(s, k, v) =
            IF v = NoValue THEN IF FindIn(s, k) = 0 THEN s ELSE RemoveAt(s, FindIn(s, k))
            ELSE IF FindIn(s, k) = 0 THEN Append(s, [key |-> k, value |-> v])
            ELSE [s EXCEPT ![FindIn(s, k)].value = v]
    BY DEF Stored, FindIn
  <1>2. CASE Has(s, k)
    <2>1. PICK j \in 1..Len(s) : s[j].key = k
      BY <1>2 DEF Has
    <2>2. FindIn(s, k) = j /\ j # 0
      BY <2>1, Found, LenProperties
    <2>3. CASE v = NoValue
      BY <1>1, <2>1, <2>2, <2>3, SetsRemoves
    <2>4. CASE v # NoValue
      <3>1. Sets([s EXCEPT ![j].value = v], s, k, v)
        BY <2>1, <2>4, SetsReplaces
      <3>2. Stored(s, k, v) = [s EXCEPT ![j].value = v]
        BY <1>1, <2>2, <2>4
      <3> QED
        BY <3>1, <3>2
    <2> QED
      BY <2>3, <2>4
  <1>3. CASE ~Has(s, k)
    <2>1. FindIn(s, k) = 0
      BY <1>3, NotFound DEF Has
    <2>2. CASE v = NoValue
      <3>1. Stored(s, k, v) = s /\ Len(s) \in Nat
        BY <1>1, <2>1, <2>2, LenProperties
      <3>2. \A e : In(s, e) => e.key # k
        BY <1>3 DEF In, Has
      <3> QED
        BY <1>3, <2>2, <3>1, <3>2 DEF Sets
    <2>3. CASE v # NoValue
      BY <1>1, <1>3, <2>1, <2>3, SetsAppends
    <2> QED
      BY <2>2, <2>3
  <1> QED
    BY <1>2, <1>3

-----------------------------------------------------------------------------
(* The buckets after a set.                                                *)

\* The buckets b, n of them, after key k was set to v.
AfterSet(b, n, k, v) == [b EXCEPT ![Slot(k, n)] = Stored(b[Slot(k, n)], k, v)]

\* The containers that a set of v adds, and that a set of k takes away.
Adds(v) == IF v = NoValue THEN 0 ELSE 1
TakesAway(b, n, k) == IF \E e \in Held(b, n) : e.key = k THEN 1 ELSE 0

\* Their containers are those of other keys, and the one that was set.
LEMMA StoreHolds ==
    ASSUME NEW n, NEW b, Sound(b, n), n # 0, NEW k \in Keys, NEW v \in Values \cup {NoValue},
           NEW c, c = AfterSet(b, n, k, v)
    PROVE  /\ Sound(c, n)
           /\ \A e : e \in Held(c, n) <=> \/ e \in Held(b, n) /\ e.key # k
                                          \/ v # NoValue /\ e = [key |-> k, value |-> v]
           /\ Len(c[Slot(k, n)]) = Len(b[Slot(k, n)]) + Adds(v) - TakesAway(b, n, k)
  <1> DEFINE p == Slot(k, n)
             r == Stored(b[p], k, v)
             d == [key |-> k, value |-> v]
  <1>1. p \in 0..(n - 1) /\ n \in Nat
    BY SlotInRange DEF Sound
  <1> HIDE DEF p, r
  <1>2. b \in [0..(n - 1) -> Seq(Containers)] /\ \A i \in 0..(n - 1) : KeysDistinct(b[i])
    BY DEF Sound
  <1>3. Sets(r, b[p], k, v)
    BY <1>1, <1>2, StoredSets DEF r
  <1>4. /\ c \in [0..(n - 1) -> Seq(Containers)]
        /\ \A i \in 0..(n - 1) : c[i] = IF i = p THEN r ELSE b[i]
    <2>1. r \in Seq(Containers) /\ c = [b EXCEPT ![p] = r]
      BY <1>3 DEF AfterSet, Sets, r, p
    <2> QED
      BY <1>1, <1>2, <2>1
  <1>5. Slot(d.key, n) = p /\ d.key = k
    BY DEF p
  <1> HIDE DEF d
  <1>6. ASSUME NEW i \in 0..(n - 1), NEW e
        PROVE  In(c[i], e) <=> (In(b[i], e) /\ e.key # k) \/ (i = p /\ v # NoValue /\ e = d)
    <2>1. CASE i = p
      BY <1>3, <1>4, <2>1 DEF Sets, d
    <2>2. CASE i # p
      <3>1. c[i] = b[i]
        BY <1>4, <2>2
      <3>2. In(b[i], e) => e.key # k
        BY <2>2 DEF In, Sound, p
      <3> QED
        BY <2>2, <3>1, <3>2
    <2> QED
      BY <2>1, <2>2
  <1>7. Sound(c, n)
    <2>1. ASSUME NEW i \in 0..(n - 1), NEW j \in 1..Len(c[i]) PROVE Slot(c[i][j].key, n) = i
      <3>1. In(c[i], c[i][j])
        BY DEF In
      <3>2. CASE In(b[i], c[i][j])
        BY <3>2 DEF In, Sound
      <3>3. CASE i = p /\ c[i][j] = d
        BY <1>5, <3>3
      <3> QED
        BY <1>6, <3>1, <3>2, <3>3
    <2>2. ASSUME NEW i \in 0..(n - 1) PROVE KeysDistinct(c[i])
      BY <1>2, <1>3, <1>4 DEF Sets
    <2> QED
      BY <1>1, <1>4, <2>1, <2>2 DEF Sound
  <1>8. v # NoValue => d \in Containers
    BY DEF d, Containers
  <1>9. ASSUME NEW e
        PROVE  e \in Held(c, n) <=> (e \in Held(b, n) /\ e.key # k) \/ (v # NoValue /\ e = d)
    <2>1. Holds(c, n, e) <=> (Holds(b, n, e) /\ e.key # k) \/ (v # NoValue /\ e = d)
      <3>1. Holds(c, n, e) <=> \E i \in 0..(n - 1) : In(c[i], e)
        BY DEF Holds, In
      <3>2. Holds(b, n, e) <=> \E i \in 0..(n - 1) : In(b[i], e)
        BY DEF Holds, In
      <3> QED
        BY <1>1, <1>6, <3>1, <3>2
    <2> QED
      BY <1>8, <2>1 DEF Held
  <1>11. Has(b[p], k) <=> \E e \in Held(b, n) : e.key = k
    <2>1. ASSUME Has(b[p], k) PROVE \E e \in Held(b, n) : e.key = k
      <3>1. PICK j \in 1..Len(b[p]) : b[p][j].key = k
        BY <2>1 DEF Has
      <3> QED
        BY <1>1, <3>1, HeldContainers
    <2>2. ASSUME NEW e \in Held(b, n), e.key = k PROVE Has(b[p], k)
      <3>1. PICK i \in 0..(n - 1) : \E j \in 1..Len(b[i]) : e = b[i][j]
        BY DEF Held, Holds
      <3>2. i = p
        BY <2>2, <3>1 DEF Sound, p
      <3> QED
        BY <2>2, <3>1, <3>2 DEF Has
    <2> QED
      BY <2>1, <2>2
  <1>12. Len(c[p]) = Len(b[p]) + Adds(v) - TakesAway(b, n, k)
    <2>1. c[p] = r
      BY <1>1, <1>4
    <2> QED
      BY <1>3, <1>11, <2>1 DEF Sets, Adds, TakesAway
  <1> QED
    BY <1>7, <1>9, <1>12 DEF p, d

\* A count m brought up to date when bucket p of b becomes that of c.
Grows(m, b, c, p) == m + Len(c[p]) - Len(b[p])

\* count goes along with the containers.
LEMMA StoreCounts ==
    ASSUME NEW n, NEW b, Sound(b, n), n # 0, NEW k \in Keys, NEW v \in Values \cup {NoValue},
           NEW c, c = AfterSet(b, n, k, v)
    PROVE  Grows(Cardinality(Held(b, n)), b, c, Slot(k, n)) = Cardinality(Held(c, n))
  <1> DEFINE H == Held(b, n)
             A == {e \in H : e.key # k}
             d == [key |-> k, value |-> v]
             x == Len(b[Slot(k, n)])
             y == Len(c[Slot(k, n)])
  <1>0. /\ \A e : e \in Held(c, n) <=> (e \in H /\ e.key # k) \/ (v # NoValue /\ e = d)
        /\ y = x + Adds(v) - TakesAway(b, n, k)
    BY StoreHolds
  <1>1. y = x + Adds(v) - TakesAway(b, n, k)
    BY <1>0
  <1>2. IsFiniteSet(H) /\ Cardinality(H) \in Nat
    BY HeldIsFinite
  <1>3. x \in Nat
    <2>1. b[Slot(k, n)] \in Seq(Containers)
      BY SlotInRange DEF Sound
    <2> QED
      BY <2>1, LenProperties
  <1>4. IsFiniteSet(A) /\ Cardinality(A) = Cardinality(H) - TakesAway(b, n, k)
    <2>1. CASE \E e \in H : e.key = k
      <3>1. PICK e \in H : e.key = k
        BY <2>1
      <3>2. A = H \ {e}
        BY <3>1, OneContainer
      <3>3. IsFiniteSet(H \ {e}) /\ Cardinality(H \ {e}) = Cardinality(H) - 1
        BY <1>2, <3>1, FS_RemoveElement
      <3>4. TakesAway(b, n, k) = 1
        BY <2>1 DEF TakesAway
      <3> QED
        BY <3>2, <3>3, <3>4
    <2>2. CASE ~\E e \in H : e.key = k
      <3>1. A = H
        BY <2>2
      <3>2. TakesAway(b, n, k) = 0
        BY <2>2 DEF TakesAway
      <3> QED
        BY <1>2, <3>1, <3>2
    <2> QED
      BY <2>1, <2>2
  <1>5. d \notin A
    OBVIOUS
  <1>6. Cardinality(A \cup {d}) = Cardinality(A) + 1
    BY <1>4, <1>5, FS_AddElement
  <1>7. Held(c, n) = IF v = NoValue THEN A ELSE A \cup {d}
    BY <1>0
  <1>8. TakesAway(b, n, k) \in Nat
    BY DEF TakesAway
  <1> HIDE DEF H, A, d, x, y
  <1>10. Cardinality(H) + y - x = Cardinality(Held(c, n))
    <2>1. CASE v = NoValue
      <3>1. Held(c, n) = A /\ Adds(v) = 0
        BY <1>7, <2>1 DEF Adds
      <3> QED
        BY <1>1, <1>2, <1>3, <1>4, <1>8, <3>1
    <2>2. CASE v # NoValue
      <3>1. Held(c, n) = A \cup {d} /\ Adds(v) = 1
        BY <1>7, <2>2 DEF Adds
      <3> QED
        BY <1>1, <1>2, <1>3, <1>4, <1>6, <1>8, <3>1
    <2> QED
      BY <2>1, <2>2
  <1> QED
    BY <1>10 DEF H, x, y, Grows

\* The search finds the value that was set, and for other keys what it did.
LEMMA StoreIsFound ==
    ASSUME NEW n, NEW b, Sound(b, n), n # 0, NEW k \in Keys, NEW v \in Values \cup {NoValue},
           NEW c, c = AfterSet(b, n, k, v), NEW x \in Keys
    PROVE  LookupIn(c, n, x) = IF x = k THEN v ELSE LookupIn(b, n, x)
  <1> DEFINE d == [key |-> k, value |-> v]
  <1>1. /\ Sound(c, n)
        /\ \A e : e \in Held(c, n) <=> (e \in Held(b, n) /\ e.key # k) \/ (v # NoValue /\ e = d)
    BY StoreHolds
  <1>2. CASE x = k /\ v # NoValue
    <2>1. d \in Held(c, n) /\ d.key = k /\ d.value = v
      BY <1>1, <1>2
    <2> HIDE DEF d
    <2>2. LookupIn(c, n, d.key) = d.value
      BY <1>1, <2>1, SearchFinds
    <2> QED
      BY <1>2, <2>1, <2>2
  <1>3. CASE x = k /\ v = NoValue
    <2>1. \A e \in Held(c, n) : e.key # k
      BY <1>1, <1>3
    <2> QED
      BY <1>1, <1>3, <2>1, SearchFindsNothing
  <1>4. CASE x # k
    <2>1. CASE \E e \in Held(b, n) : e.key = x
      <3>1. PICK e \in Held(b, n) : e.key = x
        BY <2>1
      <3>2. e \in Held(c, n)
        BY <1>1, <1>4, <3>1
      <3>3. LookupIn(c, n, e.key) = e.value /\ LookupIn(b, n, e.key) = e.value
        BY <1>1, <3>2, SearchFinds
      <3> QED
        BY <1>4, <3>1, <3>3
    <2>2. CASE ~\E e \in Held(b, n) : e.key = x
      <3>1. \A e \in Held(c, n) : e.key # x
        BY <1>1, <1>4, <2>2
      <3>2. LookupIn(c, n, x) = NoValue
        BY <1>1, <3>1, SearchFindsNothing
      <3>3. LookupIn(b, n, x) = NoValue
        BY <2>2, SearchFindsNothing
      <3> QED
        BY <1>4, <3>2, <3>3
    <2> QED
      BY <2>1, <2>2
  <1> QED
    BY <1>2, <1>3, <1>4

-----------------------------------------------------------------------------
(* The buckets after a rebuild.                                            *)

\* The table as it is, is sound.
TableSound == Sound(buckets, buckets_count)

\* What is a place.
LEMMA PlacesAre ==
    ASSUME TableSound, NEW q
    PROVE  q \in Places <=> /\ q = <<q[1], q[2]>> /\ q[1] \in 0..(buckets_count - 1)
                            /\ q[2] \in 1..Len(buckets[q[1]])
  <1>1. DOMAIN buckets = 0..(buckets_count - 1)
    BY DEF TableSound, Sound
  <1>2. \A i \in 0..(buckets_count - 1) : DOMAIN buckets[i] = 1..Len(buckets[i])
    <2>1. \A i \in 0..(buckets_count - 1) : buckets[i] \in Seq(Containers)
      BY DEF TableSound, Sound
    <2> QED
      BY <2>1, LenProperties
  <1>3. q \in Places <=> \E i \in 0..(buckets_count - 1) : q \in {i} \X (1..Len(buckets[i]))
    BY <1>1, <1>2 DEF Places
  <1> QED
    BY <1>3

\* What is at a place, and that no key is at two.
LEMMA AtPlaces ==
    ASSUME TableSound
    PROVE  /\ \A q \in Places : At(q) \in Containers /\ At(q).key \in Keys
           /\ \A q, r \in Places : At(q).key = At(r).key => q = r
           /\ \A e : e \in Held(buckets, buckets_count) <=> \E q \in Places : e = At(q)
  <1>1. ASSUME NEW q \in Places
        PROVE  /\ q = <<q[1], q[2]>> /\ q[1] \in 0..(buckets_count - 1)
               /\ q[2] \in 1..Len(buckets[q[1]]) /\ At(q) = buckets[q[1]][q[2]]
    BY <1>1, PlacesAre DEF At
  <1>2. ASSUME NEW q \in Places
        PROVE  At(q) \in Containers /\ At(q).key \in Keys /\ At(q) \in Held(buckets, buckets_count)
    BY <1>1, HeldContainers DEF TableSound
  <1>3. ASSUME NEW q \in Places, NEW r \in Places, At(q).key = At(r).key PROVE q = r
    <2>1. q[1] = r[1] /\ q[2] = r[2]
      BY <1>1, <1>3, OnePlace DEF TableSound
    <2> QED
      BY <1>1, <2>1
  <1>4. ASSUME NEW e \in Held(buckets, buckets_count) PROVE \E q \in Places : e = At(q)
    <2>1. PICK i \in 0..(buckets_count - 1) : \E j \in 1..Len(buckets[i]) : e = buckets[i][j]
      BY DEF Held, Holds
    <2>2. PICK j \in 1..Len(buckets[i]) : e = buckets[i][j]
      BY <2>1
    <2>3. <<i, j>>[1] = i /\ <<i, j>>[2] = j
      OBVIOUS
    <2>4. <<i, j>> \in Places
      BY <2>3, PlacesAre
    <2>5. At(<<i, j>>) = e
      BY <2>2 DEF At
    <2> QED
      BY <2>4, <2>5
  <1> QED
    BY <1>2, <1>3, <1>4

\* There are finitely many places.
LEMMA PlacesFinite == ASSUME TableSound, NEW P \in SUBSET Places PROVE IsFiniteSet(P)
  <1> DEFINE f == [q \in P |-> At(q).key]
  <1>1. f \in Injection(P, Keys)
    <2>1. f \in [P -> Keys]
      BY AtPlaces
    <2>2. ASSUME NEW q \in P, NEW r \in P, f[q] = f[r] PROVE q = r
      BY <2>2, AtPlaces
    <2> QED
      BY <2>1, <2>2 DEF Injection, IsInjective
  <1>2. IsFiniteSet(Keys)
    BY HashtableAssumption
  <1> QED
    BY <1>1, <1>2, FS_Injection

\* The walk over the buckets orders the places.
LEMMA WalkOrders ==
    ASSUME TableSound, NEW q \in Places, NEW r \in Places
    PROVE  /\ ~Earlier(q, q)
           /\ q # r => Earlier(q, r) \/ Earlier(r, q)
           /\ \A s \in Places : Earlier(s, q) /\ Earlier(q, r) => Earlier(s, r)
  <1>1. ASSUME NEW s \in Places PROVE s = <<s[1], s[2]>> /\ s[1] \in Int /\ s[2] \in Int
    <2>1. /\ s = <<s[1], s[2]>> /\ s[1] \in 0..(buckets_count - 1)
          /\ s[2] \in 1..Len(buckets[s[1]])
      BY <1>1, PlacesAre
    <2> QED
      BY <2>1
  <1>2. q[1] \in Int /\ q[2] \in Int /\ r[1] \in Int /\ r[2] \in Int /\ (q[1] = r[1] /\ q[2] = r[2] => q = r)
    BY <1>1
  <1>3. ~Earlier(q, q)
    BY <1>2 DEF Earlier
  <1>4. q # r => Earlier(q, r) \/ Earlier(r, q)
    BY <1>2 DEF Earlier
  <1>5. ASSUME NEW s \in Places, Earlier(s, q), Earlier(q, r) PROVE Earlier(s, r)
    BY <1>1, <1>2, <1>5 DEF Earlier
  <1> QED
    BY <1>3, <1>4, <1>5

\* How many places of P the walk gets to before q.
Rank(P, q) == Cardinality({r \in P : Earlier(r, q)})

\* The ranks of the places are 0 .. Cardinality(P) - 1, each once.
LEMMA Ranks ==
    ASSUME TableSound, NEW P \in SUBSET Places
    PROVE  /\ Cardinality(P) \in Nat
           /\ \A q \in P : Rank(P, q) \in 0..(Cardinality(P) - 1)
           /\ \A q, r \in P : Rank(P, q) = Rank(P, r) => q = r
           /\ \A k \in 1..Cardinality(P) : \E q \in P : Rank(P, q) = k - 1
  <1> DEFINE B(q) == {r \in P : Earlier(r, q)}
             N == Cardinality(P)
  <1>1. IsFiniteSet(P) /\ N \in Nat
    BY PlacesFinite, FS_CardinalityType
  <1>2. ASSUME NEW q \in P
        PROVE  IsFiniteSet(B(q)) /\ Cardinality(B(q)) \in Nat /\ Cardinality(B(q)) < N
    <2>1. B(q) \in SUBSET P /\ B(q) # P
      <3>1. q \notin B(q)
        BY WalkOrders
      <3> QED
        BY <1>2, <3>1
    <2> HIDE DEF B
    <2>2. IsFiniteSet(B(q)) /\ Cardinality(B(q)) <= N /\ (N = Cardinality(B(q)) => P = B(q))
      BY <1>1, <2>1, FS_Subset
    <2>3. Cardinality(B(q)) \in Nat
      BY <2>2, FS_CardinalityType
    <2> QED
      BY <1>1, <2>1, <2>2, <2>3
  <1>3. ASSUME NEW q \in P, NEW r \in P, Earlier(q, r) PROVE Cardinality(B(q)) < Cardinality(B(r))
    <2>1. B(q) \in SUBSET B(r) /\ B(q) # B(r)
      <3>1. q \in B(r) /\ q \notin B(q)
        BY <1>3, WalkOrders
      <3>2. B(q) \subseteq B(r)
        BY <1>3, WalkOrders
      <3> QED
        BY <3>1, <3>2
    <2> HIDE DEF B
    <2>2. Cardinality(B(q)) <= Cardinality(B(r)) /\ (Cardinality(B(r)) = Cardinality(B(q)) => B(r) = B(q))
      BY <1>2, <2>1, FS_Subset
    <2> QED
      BY <1>2, <2>1, <2>2
  <1>4. ASSUME NEW q \in P, NEW r \in P, Cardinality(B(q)) = Cardinality(B(r)) PROVE q = r
    <2>1. SUFFICES ASSUME q # r PROVE FALSE
      OBVIOUS
    <2>2. Earlier(q, r) \/ Earlier(r, q)
      BY <2>1, WalkOrders
    <2> HIDE DEF B
    <2> QED
      BY <1>2, <1>3, <1>4, <2>2
  <1>5. \A q \in P : Rank(P, q) = Cardinality(B(q))
    BY DEF Rank
  <1> HIDE DEF B
  <1> DEFINE g == [q \in P |-> Rank(P, q) + 1]
  <1>6. g \in Injection(P, 1..N)
    <2>1. g \in [P -> 1..N]
      BY <1>1, <1>2, <1>5
    <2>2. ASSUME NEW q \in P, NEW r \in P, g[q] = g[r] PROVE q = r
      BY <1>2, <1>4, <1>5, <2>2
    <2> QED
      BY <2>1, <2>2 DEF Injection, IsInjective
  <1>7. g \in Surjection(P, 1..N)
    <2>1. N \in Int /\ 1 \in Int
      BY <1>1
    <2>2. IsFiniteSet(1..N) /\ Cardinality(1..N) = IF 1 > N THEN 0 ELSE N - 1 + 1
      BY <2>1, FS_Interval
    <2>3. Cardinality(1..N) = N
      BY <1>1, <2>2
    <2> HIDE DEF g
    <2> QED
      BY <1>6, <2>2, <2>3, FS_Injection
  <1>8. ASSUME NEW k \in 1..N PROVE \E q \in P : Rank(P, q) = k - 1
    <2>1. PICK q \in P : g[q] = k
      BY <1>7 DEF Surjection
    <2> QED
      BY <1>2, <1>5, <2>1
  <1> QED
    BY <1>1, <1>2, <1>4, <1>5, <1>8

\* The new list has the containers of the places, each once.
LEMMA InOrderIs ==
    ASSUME TableSound, NEW P \in SUBSET Places, NEW s, s = InOrder(P)
    PROVE  /\ s \in Seq(Containers) /\ KeysDistinct(s)
           /\ \A e : In(s, e) <=> \E q \in P : e = At(q)
  <1> DEFINE N == Cardinality(P)
             pick(k) == CHOOSE q \in P : Rank(P, q) = k - 1
  <1>1. N \in Nat /\ \A q, r \in P : Rank(P, q) = Rank(P, r) => q = r
    BY Ranks
  <1>2. ASSUME NEW k \in 1..N PROVE pick(k) \in P /\ Rank(P, pick(k)) = k - 1
    <2>1. \E q \in P : Rank(P, q) = k - 1
      BY Ranks
    <2> QED
      BY <2>1
  <1>3. s = [k \in 1..N |-> At(pick(k))]
    BY DEF InOrder, Rank
  <1> HIDE DEF pick
  <1>4. s \in [1..N -> Containers] /\ \A k \in 1..N : s[k] = At(pick(k))
    BY <1>2, <1>3, AtPlaces
  <1>5. s \in Seq(Containers) /\ Len(s) = N
    BY <1>1, <1>4
  <1>6. KeysDistinct(s)
    <2>1. SUFFICES ASSUME NEW i \in 1..N, NEW j \in 1..N, s[i].key = s[j].key PROVE i = j
      BY <1>5 DEF KeysDistinct
    <2>2. pick(i) = pick(j)
      BY <1>2, <1>4, <2>1, AtPlaces
    <2>3. i - 1 = j - 1
      BY <1>2, <2>2
    <2> QED
      BY <1>1, <2>3
  <1>7. ASSUME NEW e, In(s, e) PROVE \E q \in P : e = At(q)
    BY <1>2, <1>4, <1>5, <1>7 DEF In
  <1>8. ASSUME NEW q \in P PROVE In(s, At(q))
    <2>1. Rank(P, q) \in 0..(N - 1)
      BY Ranks
    <2> DEFINE k == Rank(P, q) + 1
    <2>2. k \in 1..N /\ k - 1 = Rank(P, q)
      BY <1>1, <2>1
    <2> HIDE DEF k
    <2>3. pick(k) = q
      BY <1>1, <1>2, <2>2
    <2> QED
      BY <1>4, <1>5, <2>2, <2>3 DEF In
  <1> QED
    BY <1>5, <1>6, <1>7, <1>8

\* cflare_hashtable_rebuild, for any number of buckets but none: the new
\* buckets are sound, and they have the containers of the old ones.
LEMMA MovedIs ==
    ASSUME TableSound, NEW n \in Nat \ {0}, NEW b, b = Moved(n)
    PROVE  Sound(b, n) /\ Held(b, n) = Held(buckets, buckets_count)
  <1> DEFINE P(p) == {q \in Places : Slot(At(q).key, n) = p}
  <1>1. b = [p \in 0..(n - 1) |-> InOrder(P(p))]
    BY DEF Moved, Slot
  <1>2. ASSUME NEW p \in 0..(n - 1)
        PROVE  /\ b[p] \in Seq(Containers) /\ KeysDistinct(b[p])
               /\ \A e : In(b[p], e) <=> \E q \in P(p) : e = At(q)
    <2>1. P(p) \in SUBSET Places /\ b[p] = InOrder(P(p))
      BY <1>1
    <2> HIDE DEF P
    <2> QED
      BY <2>1, InOrderIs
  <1>3. b \in [0..(n - 1) -> Seq(Containers)]
    <2> HIDE DEF P
    <2> QED
      BY <1>1, <1>2
  <1>4. ASSUME NEW p \in 0..(n - 1), NEW j \in 1..Len(b[p]) PROVE Slot(b[p][j].key, n) = p
    <2>1. In(b[p], b[p][j])
      BY DEF In
    <2>2. PICK q \in P(p) : b[p][j] = At(q)
      BY <1>2, <2>1
    <2> QED
      BY <2>2
  <1>5. Sound(b, n)
    BY <1>2, <1>3, <1>4 DEF Sound
  <1>6. ASSUME NEW e PROVE Holds(b, n, e) <=> \E q \in Places : e = At(q)
    <2>1. Holds(b, n, e) <=> \E p \in 0..(n - 1) : In(b[p], e)
      BY DEF Holds, In
    <2>2. ASSUME NEW q \in Places PROVE Slot(At(q).key, n) \in 0..(n - 1)
      BY AtPlaces, SlotInRange
    <2>3. ASSUME Holds(b, n, e) PROVE \E q \in Places : e = At(q)
      <3>1. PICK p \in 0..(n - 1) : In(b[p], e)
        BY <2>1, <2>3
      <3>2. PICK q \in P(p) : e = At(q)
        BY <1>2, <3>1
      <3> QED
        BY <3>2
    <2>4. ASSUME NEW q \in Places, e = At(q) PROVE Holds(b, n, e)
      <3> DEFINE p == Slot(At(q).key, n)
      <3>1. p \in 0..(n - 1) /\ q \in P(p)
        BY <2>2
      <3> HIDE DEF p, P
      <3>2. In(b[p], e)
        BY <1>2, <2>4, <3>1
      <3> QED
        BY <2>1, <3>1, <3>2
    <2> QED
      BY <2>3, <2>4
  <1>7. ASSUME NEW e PROVE e \in Held(b, n) <=> e \in Held(buckets, buckets_count)
    BY <1>6, AtPlaces DEF Held
  <1> QED
    BY <1>5, <1>7

\* Sound buckets with the same containers look the same to the search.
LEMMA SameSearch ==
    ASSUME NEW n, NEW b, Sound(b, n), NEW m, NEW c, Sound(c, m), Held(b, n) = Held(c, m), NEW k \in Keys
    PROVE  LookupIn(b, n, k) = LookupIn(c, m, k)
  <1>1. CASE \E e \in Held(b, n) : e.key = k
    <2>1. PICK e \in Held(b, n) : e.key = k
      BY <1>1
    <2>2. LookupIn(b, n, e.key) = e.value /\ LookupIn(c, m, e.key) = e.value
      BY SearchFinds
    <2> QED
      BY <2>1, <2>2
  <1>2. CASE ~\E e \in Held(b, n) : e.key = k
    <2>1. LookupIn(b, n, k) = NoValue
      BY <1>2, SearchFindsNothing
    <2>2. LookupIn(c, m, k) = NoValue
      BY <1>2, SearchFindsNothing
    <2> QED
      BY <2>1, <2>2
  <1> QED
    BY <1>1, <1>2

-----------------------------------------------------------------------------
(* The inductive invariant.                                                *)

Contents == Held(buckets, buckets_count)

\* A thread is in a call exactly when it has asked for something, and it never
\* rebuilds the table with no buckets.
Calls ==
    /\ pc \in [Threads -> {"idle", "size", "rebuild", "set"}]
    /\ asked \in [Threads -> {NoCall} \cup (Keys \X (Values \cup {NoValue}))]
    /\ newsize \in [Threads -> Nat]
    /\ got \in {NoCall} \cup (Keys \X (Values \cup {NoValue}))
    /\ status \in {"ok", "deleted", "aborted"}
    /\ \A t \in Threads : /\ asked[t] = NoCall <=> pc[t] = "idle"
                          /\ pc[t] = "rebuild" => newsize[t] # 0

Counted ==
    /\ count \in 0..Cardinality(Keys)
    /\ status = "ok" => count = Cardinality(Contents)

HeldIsAlive == \A v : v \in alive <=> \E e \in Contents : v = e.value

\* A copy belongs to one key, in the table and in the calls under way: so what
\* replaces or removes one key's copy takes no other key's away.
OneKeyPerCopy ==
    /\ \A e, f \in Contents : e.value = f.value => e.key = f.key
    /\ \A e \in Contents, t \in Threads : asked[t] # NoCall /\ asked[t][2] = e.value => asked[t][1] = e.key
    /\ \A t, u \in Threads :
          asked[t] # NoCall /\ asked[u] # NoCall /\ asked[t][2] = asked[u][2] /\ asked[t][2] # NoValue
             => asked[t][1] = asked[u][1]

Inv == TableSound /\ Calls /\ Counted /\ HeldIsAlive /\ OneKeyPerCopy

\* The invariant only speaks of the containers, not of where they are.
LEMMA SameContents ==
    ASSUME Inv, TableSound', Contents' = Contents, Calls', UNCHANGED <<count, alive, asked, status>>
    PROVE  Inv'
  <1>1. Counted'
    BY DEF Inv, Counted
  <1>2. HeldIsAlive'
    BY DEF Inv, HeldIsAlive
  <1>3. OneKeyPerCopy'
    BY DEF Inv, OneKeyPerCopy
  <1> QED
    BY <1>1, <1>2, <1>3 DEF Inv

\* A new table is empty.
LEMMA InitKeeps == ASSUME Init PROVE Inv
  <1>1. buckets \in [0..(buckets_count - 1) -> Seq(Containers)] /\ 0..(buckets_count - 1) = {}
    BY DEF Init
  <1>2. TableSound
    BY <1>1 DEF Init, TableSound, Sound
  <1>3. Contents = {}
    BY <1>1 DEF Contents, Held, Holds
  <1>4. Calls
    BY DEF Init, Calls
  <1>5. Counted
    <2>1. Cardinality(Keys) \in Nat
      BY HashtableAssumption, FS_CardinalityType
    <2> QED
      BY <1>3, <2>1, FS_EmptySet DEF Init, Counted
  <1>6. HeldIsAlive /\ OneKeyPerCopy
    BY <1>3 DEF Init, HeldIsAlive, OneKeyPerCopy
  <1> QED
    BY <1>2, <1>4, <1>5, <1>6 DEF Inv

\* What a rebuild does: nothing to the contents, and nothing to the search.
LEMMA RebuiltSame ==
    ASSUME TableSound, NEW n \in Nat \ {0}, Rebuilt(n)
    PROVE  TableSound' /\ Contents' = Contents /\ \A k \in Keys : Lookup(k)' = Lookup(k)
  <1>1. buckets' = Moved(n) /\ buckets_count' = n
    BY DEF Rebuilt
  <1>2. Sound(buckets', buckets_count') /\ Held(buckets', buckets_count') = Held(buckets, buckets_count)
    BY <1>1, MovedIs
  <1>3. ASSUME NEW k \in Keys PROVE Lookup(k)' = Lookup(k)
    BY <1>2, LookupIs, SameSearch DEF TableSound
  <1> QED
    BY <1>2, <1>3 DEF TableSound, Contents

\* cflare_hashtable_rebuild by a client.
LEMMA RebuildKeeps == ASSUME Inv, NEW t \in Threads, Rebuild(t) PROVE Inv'
  <1>1. PICK n \in Rebuilds : Rebuilt(n)
    BY DEF Rebuild
  <1>2. n \in Nat \ {0}
    BY HashtableAssumption
  <1>3. TableSound' /\ Contents' = Contents
    BY <1>1, <1>2, RebuiltSame DEF Inv
  <1>4. Calls'
    BY DEF Inv, Rebuild, Calls
  <1> QED
    BY <1>1, <1>3, <1>4, SameContents DEF Rebuild, Rebuilt

\* A rebuild in the course of a set.
LEMMA SetRebuildKeeps == ASSUME Inv, NEW t \in Threads, SetRebuild(t) PROVE Inv'
  <1>1. newsize[t] \in Nat \ {0} /\ asked[t] # NoCall
    BY DEF Inv, Calls, SetRebuild
  <1>2. TableSound' /\ Contents' = Contents
    BY <1>1, RebuiltSame DEF Inv, SetRebuild
  <1>3. Calls'
    BY <1>1 DEF Inv, SetRebuild, Calls
  <1> QED
    BY <1>2, <1>3, SameContents DEF SetRebuild, Rebuilt

\* Steps that leave the table alone.
LEMMA UnchangedTable ==
    ASSUME TableSound, UNCHANGED <<buckets, buckets_count>>
    PROVE  TableSound' /\ Contents' = Contents /\ \A k \in Keys : Lookup(k)' = Lookup(k)
  <1>1. ASSUME NEW k \in Keys PROVE Lookup(k)' = Lookup(k)
    BY LookupIs
  <1> QED
    BY <1>1 DEF TableSound, Contents

\* The second look of a set at the size.
LEMMA SetSizeKeeps == ASSUME Inv, NEW t \in Threads, SetSize(t) PROVE Inv'
  <1> DEFINE n == IF asked[t][2] = NoValue THEN buckets_count \div 4
                  ELSE IF buckets_count * 4 < StartSize THEN StartSize ELSE buckets_count * 4
  <1>1. buckets_count \in Nat /\ StartSize \in Nat \ {0}
    BY HashtableAssumption DEF Inv, TableSound, Sound
  <1>2. n \in Nat
    <2>1. buckets_count \div 4 \in Nat /\ buckets_count * 4 \in Nat
      BY <1>1
    <2> QED
      BY <1>1, <2>1
  <1>3. asked[t][2] # NoValue \/ n > StartSize => n # 0
    <2>1. buckets_count * 4 \in Nat
      BY <1>1
    <2>2. asked[t][2] # NoValue => n # 0
      BY <1>1, <2>1
    <2> HIDE DEF n
    <2> QED
      BY <1>1, <1>2, <2>2
  <1>4. \/ pc' = [pc EXCEPT ![t] = "rebuild"] /\ newsize' = [newsize EXCEPT ![t] = n] /\ n # 0
        \/ pc' = [pc EXCEPT ![t] = "set"] /\ UNCHANGED newsize
    BY <1>3 DEF SetSize
  <1>5. pc[t] = "size" /\ UNCHANGED <<buckets, buckets_count, count, alive, asked, got, status>>
    BY DEF SetSize, table
  <1>6. Calls'
    <2> HIDE DEF n
    <2> QED
      BY <1>2, <1>4, <1>5 DEF Inv, Calls
  <1>7. TableSound' /\ Contents' = Contents
    BY <1>5, UnchangedTable DEF Inv
  <1> QED
    BY <1>5, <1>6, <1>7, SameContents

\* A search gives a copy in the table, of that key, or none.
LEMMA LookupGives ==
    ASSUME TableSound, NEW k \in Keys
    PROVE  \/ Lookup(k) = NoValue /\ \A e \in Contents : e.key # k
           \/ \E e \in Contents : e.key = k /\ Lookup(k) = e.value /\ e.value \in Values
  <1>1. CASE \E e \in Contents : e.key = k
    <2>1. PICK e \in Contents : e.key = k
      BY <1>1
    <2>2. LookupIn(buckets, buckets_count, e.key) = e.value
      BY SearchFinds DEF TableSound, Contents
    <2>3. e.value \in Values
      BY DEF Contents, Held, Containers
    <2> QED
      BY <2>1, <2>2, <2>3, LookupIs
  <1>2. CASE ~\E e \in Contents : e.key = k
    <2>1. LookupIn(buckets, buckets_count, k) = NoValue
      BY <1>2, SearchFindsNothing DEF TableSound, Contents
    <2> QED
      BY <1>2, <2>1, LookupIs
  <1> QED
    BY <1>1, <1>2

\* The copies a call may bring belong to no other key.
LEMMA BytesAre ==
    ASSUME Inv, NEW k \in Keys, NEW v \in Bytes(k)
    PROVE  /\ v \in Values \cup {NoValue}
           /\ \A e \in Contents : e.value = v => e.key = k
           /\ \A u \in Threads : asked[u] # NoCall /\ asked[u][2] = v /\ v # NoValue => asked[u][1] = k
  <1>1. \/ v = NoValue
        \/ v \in Values /\ v \notin alive /\ \A u \in Threads : asked[u] # NoCall => asked[u][2] # v
        \/ v = Lookup(k)
    BY DEF Bytes
  <1>2. \A e \in Contents : e.value \in Values
    BY DEF Contents, Held, Containers
  <1>3. NoValue \notin Values
    BY HashtableAssumption
  <1>4. CASE v = NoValue
    BY <1>2, <1>3, <1>4
  <1>5. CASE v \in Values /\ v \notin alive /\ \A u \in Threads : asked[u] # NoCall => asked[u][2] # v
    BY <1>5 DEF Inv, HeldIsAlive
  <1>6. CASE v = Lookup(k) /\ v # NoValue
    <2>1. PICK e \in Contents : e.key = k /\ v = e.value /\ e.value \in Values
      BY <1>6, LookupGives DEF Inv
    <2> QED
      BY <2>1 DEF Inv, OneKeyPerCopy
  <1> QED
    BY <1>1, <1>4, <1>5, <1>6

\* A set begins.
LEMMA SetKeeps == ASSUME Inv, NEW t \in Threads, Set(t) PROVE Inv'
  <1>1. PICK k \in Keys : \E v \in Bytes(k) :
           /\ asked' = [asked EXCEPT ![t] = <<k, v>>]
           /\ pc' = [pc EXCEPT ![t] = IF (v # NoValue /\ MustGrow) \/ (v = NoValue /\ MustShrink)
                                      THEN "size" ELSE "set"]
    BY DEF Set
  <1>2. PICK v \in Bytes(k) :
           /\ asked' = [asked EXCEPT ![t] = <<k, v>>]
           /\ pc' = [pc EXCEPT ![t] = IF (v # NoValue /\ MustGrow) \/ (v = NoValue /\ MustShrink)
                                      THEN "size" ELSE "set"]
    BY <1>1
  <1>3. \/ pc' = [pc EXCEPT ![t] = "size"]
        \/ pc' = [pc EXCEPT ![t] = "set"]
    BY <1>2
  <1>4. /\ UNCHANGED <<buckets, buckets_count, count, alive, newsize, got, status>>
        /\ asked' = [asked EXCEPT ![t] = <<k, v>>]
    BY <1>2 DEF Set, table
  <1>5. /\ v \in Values \cup {NoValue}
        /\ \A e \in Contents : e.value = v => e.key = k
        /\ \A u \in Threads : asked[u] # NoCall /\ asked[u][2] = v /\ v # NoValue => asked[u][1] = k
    BY BytesAre
  <1>6. <<k, v>> \in Keys \X (Values \cup {NoValue}) /\ <<k, v>> # NoCall
    BY <1>5, HashtableAssumption
  <1>7. Calls'
    BY <1>3, <1>4, <1>6 DEF Inv, Calls
  <1>8. TableSound' /\ Contents' = Contents
    BY <1>4, UnchangedTable DEF Inv
  <1>9. Counted'
    BY <1>4, <1>8 DEF Inv, Counted
  <1>10. HeldIsAlive'
    BY <1>4, <1>8 DEF Inv, HeldIsAlive
  <1>11. OneKeyPerCopy'
    <2>1. \A u \in Threads : asked'[u] = IF u = t THEN <<k, v>> ELSE asked[u]
      BY <1>4 DEF Inv, Calls
    <2>2. \A e, f \in Contents' : e.value = f.value => e.key = f.key
      BY <1>8 DEF Inv, OneKeyPerCopy
    <2>3. \A e \in Contents', u \in Threads :
             asked'[u] # NoCall /\ asked'[u][2] = e.value => asked'[u][1] = e.key
      BY <1>5, <1>8, <2>1 DEF Inv, OneKeyPerCopy
    <2>4. ASSUME NEW u \in Threads, NEW w \in Threads, asked'[u] # NoCall, asked'[w] # NoCall,
                 asked'[u][2] = asked'[w][2], asked'[u][2] # NoValue
          PROVE  asked'[u][1] = asked'[w][1]
      BY <1>5, <2>1, <2>4 DEF Inv, OneKeyPerCopy
    <2> QED
      BY <2>2, <2>3, <2>4 DEF OneKeyPerCopy
  <1> QED
    BY <1>7, <1>8, <1>9, <1>10, <1>11 DEF Inv

\* What the part of a set under the mutex does.
LEMMA StoreEffect ==
    ASSUME Inv, NEW t \in Threads, SetStores(t), NEW k, NEW v, k = asked[t][1], v = asked[t][2]
    PROVE  /\ asked[t] = <<k, v>> /\ asked[t] # NoCall /\ k \in Keys /\ v \in Values \cup {NoValue}
           /\ TableSound'
           /\ \A e : e \in Contents' <=> \/ e \in Contents /\ e.key # k
                                         \/ v # NoValue /\ e = [key |-> k, value |-> v]
           /\ count' = Cardinality(Contents')
           /\ \A x \in Keys : Lookup(x)' = IF x = k THEN v ELSE Lookup(x)
  <1> DEFINE n == buckets_count
  <1>1. asked[t] \in Keys \X (Values \cup {NoValue}) /\ asked[t] # NoCall
    BY DEF Inv, Calls, SetStores
  <1>2. asked[t] = <<k, v>> /\ k \in Keys /\ v \in Values \cup {NoValue}
    BY <1>1
  <1>3. Sound(buckets, n) /\ n # 0 /\ n' = n /\ status = "ok"
    BY DEF Inv, TableSound, Sound, SetStores
  <1>4. buckets' = AfterSet(buckets, n, k, v)
    BY DEF SetStores, AfterSet, BucketOf, Slot
  <1>5. count' = count + Len(buckets'[Slot(k, n)]) - Len(buckets[Slot(k, n)])
    BY DEF SetStores, BucketOf, Slot
  <1>6. /\ Sound(buckets', n)
        /\ \A e : e \in Held(buckets', n) <=> \/ e \in Held(buckets, n) /\ e.key # k
                                              \/ v # NoValue /\ e = [key |-> k, value |-> v]
    BY <1>2, <1>3, <1>4, StoreHolds
  <1>7. count' = Cardinality(Held(buckets', n))
    <2>1. count = Cardinality(Held(buckets, n))
      BY <1>3 DEF Inv, Counted, Contents
    <2>2. Grows(Cardinality(Held(buckets, n)), buckets, buckets', Slot(k, n)) = Cardinality(Held(buckets', n))
      BY <1>2, <1>3, <1>4, StoreCounts
    <2> QED
      BY <1>5, <2>1, <2>2 DEF Grows
  <1>8. ASSUME NEW x \in Keys PROVE Lookup(x)' = IF x = k THEN v ELSE Lookup(x)
    <2>1. LookupIn(buckets', n, x) = IF x = k THEN v ELSE LookupIn(buckets, n, x)
      BY <1>2, <1>3, <1>4, StoreIsFound
    <2> QED
      BY <1>3, <2>1, LookupIs
  <1> QED
    BY <1>1, <1>2, <1>3, <1>6, <1>7, <1>8 DEF TableSound, Contents

\* A set takes effect.
LEMMA SetStoresKeeps == ASSUME Inv, NEW t \in Threads, SetStores(t) PROVE Inv'
  <1> DEFINE k == asked[t][1]
             v == asked[t][2]
             d == [key |-> k, value |-> v]
  <1>1. /\ asked[t] = <<k, v>> /\ asked[t] # NoCall /\ k \in Keys /\ v \in Values \cup {NoValue}
        /\ TableSound'
        /\ \A e : e \in Contents' <=> (e \in Contents /\ e.key # k) \/ (v # NoValue /\ e = d)
        /\ count' = Cardinality(Contents')
    BY StoreEffect
  <1>2. d.key = k /\ d.value = v
    OBVIOUS
  <1>3. /\ alive' = (alive \ {Lookup(k)}) \cup ({v} \ {NoValue})
        /\ pc' = [pc EXCEPT ![t] = "idle"] /\ asked' = [asked EXCEPT ![t] = NoCall]
        /\ UNCHANGED <<newsize, got, status>>
    BY DEF SetStores, Disposed
  <1> HIDE DEF k, v, d
  <1>4. Calls'
    BY <1>3 DEF Inv, Calls
  <1>5. Counted'
    <2>1. Cardinality(Contents') \in 0..Cardinality(Keys)
      BY <1>1, HeldIsFinite DEF TableSound, Contents
    <2> QED
      BY <1>1, <2>1 DEF Counted
  <1>6. HeldIsAlive'
    <2>1. \A e \in Contents : e.value \in Values /\ e.value # NoValue
      BY HashtableAssumption DEF Contents, Held, Containers
    <2>2. ASSUME NEW w PROVE w \in alive' <=> \E e \in Contents' : w = e.value
      <3>1. w \in alive <=> \E e \in Contents : w = e.value
        BY DEF Inv, HeldIsAlive
      <3>2. (\E e \in Contents' : w = e.value)
               <=> (\E e \in Contents : e.key # k /\ w = e.value) \/ (v # NoValue /\ w = v)
        BY <1>1, <1>2
      <3>3. (w \in alive /\ w # Lookup(k)) <=> \E e \in Contents : e.key # k /\ w = e.value
        <4>1. CASE Lookup(k) = NoValue /\ \A e \in Contents : e.key # k
          BY <2>1, <3>1, <4>1
        <4>2. CASE \E e \in Contents : e.key = k /\ Lookup(k) = e.value /\ e.value \in Values
          <5>1. PICK f \in Contents : f.key = k /\ Lookup(k) = f.value
            BY <4>2
          <5>2. \A e \in Contents : e.key # k <=> e.value # f.value
            <6>1. ASSUME NEW e \in Contents, e.key = k PROVE e.value = f.value
              BY <5>1, <6>1, OneContainer DEF Inv, TableSound, Contents
            <6>2. ASSUME NEW e \in Contents, e.value = f.value PROVE e.key = k
              BY <5>1, <6>2 DEF Inv, OneKeyPerCopy
            <6> QED
              BY <6>1, <6>2
          <5> QED
            BY <3>1, <5>1, <5>2
        <4> QED
          BY <1>1, <4>1, <4>2, LookupGives DEF Inv
      <3>4. w \in alive' <=> (w \in alive /\ w # Lookup(k)) \/ (w = v /\ w # NoValue)
        BY <1>3
      <3> QED
        BY <3>2, <3>3, <3>4
    <2> QED
      BY <2>2 DEF HeldIsAlive
  <1>7. OneKeyPerCopy'
    <2>1. \A u \in Threads : asked'[u] = IF u = t THEN NoCall ELSE asked[u]
      BY <1>3 DEF Inv, Calls
    <2>2. /\ \A e \in Contents : e.value = v => e.key = k
          /\ \A u \in Threads : asked[u] # NoCall /\ asked[u][2] = v /\ v # NoValue => asked[u][1] = k
      <3>1. asked[t][1] = k /\ asked[t][2] = v
        BY DEF k, v
      <3> QED
        BY <1>1, <3>1 DEF Inv, OneKeyPerCopy
    <2>3. ASSUME NEW e \in Contents', NEW f \in Contents', e.value = f.value PROVE e.key = f.key
      BY <1>1, <1>2, <2>2, <2>3 DEF Inv, OneKeyPerCopy
    <2>4. ASSUME NEW e \in Contents', NEW u \in Threads, asked'[u] # NoCall, asked'[u][2] = e.value
          PROVE  asked'[u][1] = e.key
      BY <1>1, <1>2, <2>1, <2>2, <2>4 DEF Inv, OneKeyPerCopy
    <2>5. ASSUME NEW u \in Threads, NEW w \in Threads, asked'[u] # NoCall, asked'[w] # NoCall,
                 asked'[u][2] = asked'[w][2], asked'[u][2] # NoValue
          PROVE  asked'[u][1] = asked'[w][1]
      BY <2>1, <2>5 DEF Inv, OneKeyPerCopy
    <2> QED
      BY <2>3, <2>4, <2>5 DEF OneKeyPerCopy
  <1> QED
    BY <1>1, <1>4, <1>5, <1>6, <1>7 DEF Inv

\* The assertion before it fails.
LEMMA SetAbortsKeeps == ASSUME Inv, NEW t \in Threads, SetAborts(t) PROVE Inv'
  <1>1. UNCHANGED <<buckets, buckets_count, count, alive, pc, asked, newsize, got>> /\ status' = "aborted"
    BY DEF SetAborts, table
  <1>2. TableSound' /\ Contents' = Contents
    BY <1>1, UnchangedTable DEF Inv
  <1>3. Calls'
    BY <1>1 DEF Inv, Calls
  <1>4. Counted' /\ HeldIsAlive' /\ OneKeyPerCopy'
    BY <1>1, <1>2 DEF Inv, Counted, HeldIsAlive, OneKeyPerCopy
  <1> QED
    BY <1>2, <1>3, <1>4 DEF Inv

\* A get.
LEMMA GetKeeps == ASSUME Inv, NEW t \in Threads, Get(t) PROVE Inv'
  <1>1. UNCHANGED <<buckets, buckets_count, count, alive, pc, asked, newsize, status>>
    BY DEF Get, table
  <1>2. PICK k \in Keys : got' = <<k, Lookup(k)>>
    BY DEF Get
  <1>3. Lookup(k) \in Values \cup {NoValue}
    BY LookupGives DEF Inv
  <1>4. Calls'
    BY <1>1, <1>2, <1>3 DEF Inv, Calls
  <1>5. TableSound' /\ Contents' = Contents
    BY <1>1, UnchangedTable DEF Inv
  <1> QED
    BY <1>1, <1>4, <1>5, SameContents

\* Entries is what the buckets hold.
LEMMA EntriesAre == ASSUME TableSound PROVE Entries = Contents
  BY AtPlaces DEF Entries, Contents

\* The table is deleted.
LEMMA DeleteEffect ==
    ASSUME Inv, Delete
    PROVE  TableSound' /\ Contents' = {} /\ alive' = {} /\ \A k \in Keys : Lookup(k)' = NoValue
  <1>1. buckets' = [i \in {} |-> <<>>] /\ buckets_count' = 0 /\ alive' = alive \ {e.value : e \in Entries}
    BY DEF Delete
  <1>2. TableSound'
    BY <1>1 DEF TableSound, Sound
  <1>3. Contents' = {}
    BY <1>1 DEF Contents, Held, Holds
  <1>4. alive' = {}
    BY <1>1, EntriesAre DEF Inv, HeldIsAlive
  <1>5. ASSUME NEW k \in Keys PROVE Lookup(k)' = NoValue
    BY <1>1, LookupIs DEF LookupIn
  <1> QED
    BY <1>2, <1>3, <1>4, <1>5

\* And leaves nothing behind.
LEMMA DeleteKeeps == ASSUME Inv, Delete PROVE Inv'
  <1>1. UNCHANGED <<count, pc, asked, newsize, got>> /\ status' = "deleted"
    BY DEF Delete
  <1>2. TableSound' /\ Contents' = {} /\ alive' = {}
    BY DeleteEffect
  <1>3. Calls'
    BY <1>1 DEF Inv, Calls
  <1>4. Counted' /\ HeldIsAlive' /\ OneKeyPerCopy'
    BY <1>1, <1>2 DEF Inv, Counted, HeldIsAlive, OneKeyPerCopy
  <1> QED
    BY <1>2, <1>3, <1>4 DEF Inv

\* The invariant is inductive.
LEMMA NextKeeps == ASSUME Inv, [Next]_vars PROVE Inv'
  <1>1. CASE Next
    BY <1>1, RebuildKeeps, SetKeeps, SetSizeKeeps, SetRebuildKeeps, SetStoresKeeps, SetAbortsKeeps,
       GetKeeps, DeleteKeeps DEF Next
  <1>2. CASE UNCHANGED vars
    <2>1. UNCHANGED <<buckets, buckets_count, count, alive, pc, asked, newsize, got, status>>
      BY <1>2 DEF vars, table
    <2>2. TableSound' /\ Contents' = Contents
      BY <2>1, UnchangedTable DEF Inv
    <2>3. Calls'
      BY <2>1 DEF Inv, Calls
    <2> QED
      BY <2>1, <2>2, <2>3, SameContents
  <1> QED
    BY <1>1, <1>2

-----------------------------------------------------------------------------
(* The theorems.                                                           *)

\* The invariant holds in every state.
THEOREM TableInvariant == Spec => []Inv
  <1>1. Init => Inv
    BY InitKeeps
  <1>2. Inv /\ [Next]_vars => Inv'
    BY NextKeeps
  <1> QED
    BY <1>1, <1>2, PTL DEF Spec

\* Every variable keeps its type; count is never more than there are keys.
THEOREM TableTypeCorrect == Spec => []TypeOK
  <1>1. Inv => TypeOK
    <2>1. SUFFICES ASSUME Inv PROVE TypeOK
      OBVIOUS
    <2>2. buckets_count \in Nat /\ DOMAIN buckets = 0..(buckets_count - 1)
      BY <2>1 DEF Inv, TableSound, Sound
    <2>3. Entries \subseteq [key : Keys, value : Values]
      BY <2>1, EntriesAre DEF Inv, Contents, Held, Containers
    <2>4. alive \subseteq Values
      BY <2>1 DEF Inv, HeldIsAlive, Contents, Held, Containers
    <2> QED
      BY <2>1, <2>2, <2>3, <2>4 DEF Inv, Calls, Counted, TypeOK
  <1> QED
    BY <1>1, TableInvariant, PTL

\* However the resizes of several threads race, with sizes chosen from counts
\* that others changed meanwhile, every container is in the bucket its hash
\* selects, once, and count counts them.
THEOREM ContainersStayFindable == Spec => []Findable
  <1>1. Inv => Findable
    <2>1. SUFFICES ASSUME Inv, status = "ok" PROVE Findable
      BY DEF Findable
    <2>2. TableSound /\ DOMAIN buckets = 0..(buckets_count - 1)
      BY <2>1 DEF Inv, TableSound, Sound
    <2>3. ASSUME NEW i \in DOMAIN buckets PROVE DOMAIN buckets[i] = 1..Len(buckets[i])
      <3>1. buckets[i] \in Seq(Containers)
        BY <2>2 DEF TableSound, Sound
      <3> QED
        BY <3>1, LenProperties
    <2>4. ASSUME NEW i \in DOMAIN buckets, NEW j \in DOMAIN buckets[i] PROVE BucketOf(buckets[i][j].key) = i
      BY <2>2, <2>3 DEF TableSound, Sound, BucketOf, Slot
    <2>5. ASSUME NEW i \in DOMAIN buckets, NEW j \in DOMAIN buckets[i], NEW l \in DOMAIN buckets[i],
                 buckets[i][j].key = buckets[i][l].key
          PROVE  j = l
      BY <2>2, <2>3, <2>5 DEF TableSound, Sound, KeysDistinct
    <2>6. count = Cardinality(Entries)
      BY <2>1, <2>2, EntriesAre DEF Inv, Counted
    <2> QED
      BY <2>4, <2>5, <2>6 DEF Findable
  <1> QED
    BY <1>1, TableInvariant, PTL

\* The copies that were made and not given to the deleter are those in the
\* containers, whatever several threads set, replace and remove.
THEOREM CopiesStayOwned == Spec => []Owned
  <1>1. Inv => Owned
    BY EntriesAre DEF Inv, HeldIsAlive, Owned
  <1> QED
    BY <1>1, TableInvariant, PTL

\* The table is the map of module Map to its threads: a set changes what the
\* search finds for its key, at once and for no other key, and a resize changes
\* nothing.
THEOREM ImplementsMap == Spec => Implements
  <1>1. Init => Abstract!Init
    <2>1. SUFFICES ASSUME Init PROVE Abstract!Init
      OBVIOUS
    <2>2. \A k \in Keys : Lookup(k) = NoValue
      BY <2>1 DEF Init, Lookup
    <2> QED
      BY <2>1, <2>2 DEF Init, Abstract!Init
  <1>2. Inv /\ [Next]_vars => [Abstract!Next]_(Abstract!vars)
    <2>1. SUFFICES ASSUME Inv, [Next]_vars PROVE [Abstract!Next]_(Abstract!vars)
      OBVIOUS
    <2> DEFINE map == [k \in Keys |-> Lookup(k)]
    <2>2. ASSUME \A k \in Keys : Lookup(k)' = Lookup(k) PROVE map' = map
      BY <2>2
    <2>3. \A t \in Threads : asked[t] = NoCall <=> pc[t] = "idle"
      BY <2>1 DEF Inv, Calls
    <2>4. ASSUME map' = map, UNCHANGED <<asked, got>> PROVE [Abstract!Next]_(Abstract!vars)
      BY <2>4 DEF Abstract!vars
    <2>5. ASSUME NEW t \in Threads, Rebuild(t) PROVE [Abstract!Next]_(Abstract!vars)
      <3>1. PICK n \in Rebuilds : Rebuilt(n)
        BY <2>5 DEF Rebuild
      <3>2. n \in Nat \ {0}
        BY HashtableAssumption
      <3>3. map' = map
        BY <2>1, <2>2, <3>1, <3>2, RebuiltSame DEF Inv
      <3> QED
        BY <2>4, <2>5, <3>3 DEF Rebuild
    <2>6. ASSUME NEW t \in Threads, SetRebuild(t) PROVE [Abstract!Next]_(Abstract!vars)
      <3>1. newsize[t] \in Nat \ {0}
        BY <2>1, <2>6 DEF Inv, Calls, SetRebuild
      <3>2. map' = map
        BY <2>1, <2>2, <2>6, <3>1, RebuiltSame DEF Inv, SetRebuild
      <3> QED
        BY <2>4, <2>6, <3>2 DEF SetRebuild
    <2>7. ASSUME UNCHANGED table PROVE map' = map
      BY <2>1, <2>2, <2>7, UnchangedTable DEF Inv, table
    <2>8. ASSUME NEW t \in Threads, SetSize(t) \/ SetAborts(t) PROVE [Abstract!Next]_(Abstract!vars)
      BY <2>4, <2>7, <2>8 DEF SetSize, SetAborts
    <2>9. ASSUME NEW t \in Threads, Set(t) PROVE Abstract!Ask(t)
      <3>1. PICK k \in Keys : \E v \in Bytes(k) : asked' = [asked EXCEPT ![t] = <<k, v>>]
        BY <2>9 DEF Set
      <3>2. PICK v \in Bytes(k) : asked' = [asked EXCEPT ![t] = <<k, v>>]
        BY <3>1
      <3>3. v \in Values \cup {NoValue}
        BY <2>1, BytesAre
      <3>4. map' = map /\ got' = got /\ asked[t] = NoCall
        BY <2>3, <2>7, <2>9 DEF Set
      <3> QED
        BY <3>2, <3>3, <3>4 DEF Abstract!Ask
    <2>10. ASSUME NEW t \in Threads, SetStores(t) PROVE Abstract!TakeEffect(t)
      <3> DEFINE k == asked[t][1]
                 v == asked[t][2]
      <3>1. asked[t] # NoCall /\ k \in Keys /\ \A x \in Keys : Lookup(x)' = IF x = k THEN v ELSE Lookup(x)
        BY <2>1, <2>10, StoreEffect
      <3>2. map' = [map EXCEPT ![k] = v]
        <4> HIDE DEF k, v
        <4> QED
          BY <3>1
      <3>3. asked' = [asked EXCEPT ![t] = NoCall] /\ got' = got
        BY <2>10 DEF SetStores
      <3> QED
        BY <3>1, <3>2, <3>3 DEF Abstract!TakeEffect
    <2>11. ASSUME NEW t \in Threads, Get(t) PROVE Abstract!Lookup(t)
      <3>1. PICK k \in Keys : got' = <<k, Lookup(k)>>
        BY <2>11 DEF Get
      <3>2. got' = <<k, map[k]>>
        BY <3>1
      <3>3. map' = map /\ asked' = asked /\ asked[t] = NoCall
        BY <2>3, <2>7, <2>11 DEF Get
      <3> QED
        BY <3>2, <3>3 DEF Abstract!Lookup
    <2>12. ASSUME Delete PROVE Abstract!Clear
      <3>1. \A k \in Keys : Lookup(k)' = NoValue
        BY <2>1, <2>12, DeleteEffect
      <3>2. map' = [k \in Keys |-> NoValue]
        BY <3>1
      <3>3. UNCHANGED <<asked, got>> /\ \A t \in Threads : asked[t] = NoCall
        BY <2>3, <2>12 DEF Delete
      <3> QED
        BY <3>2, <3>3 DEF Abstract!Clear
    <2>13. ASSUME UNCHANGED vars PROVE [Abstract!Next]_(Abstract!vars)
      BY <2>4, <2>7, <2>13 DEF vars
    <2> QED
      BY <2>1, <2>5, <2>6, <2>8, <2>9, <2>10, <2>11, <2>12, <2>13 DEF Next, Abstract!Next
  <1> QED
    BY <1>1, <1>2, TableInvariant, PTL DEF Spec, Implements, Abstract!Spec
=============================================================================

-------------------------- MODULE LinkedListProofs --------------------------
(***************************************************************************)
(* Proofs about LinkedListUse, for every set of nodes: a list used as its  *)
(* documentation allows keeps its links, an iterator goes on safely and    *)
(* misses no node, and deleting the list frees each node once.             *)
(*                                                                         *)
(* Inserting beside a null node cuts off the nodes that were there: what   *)
(* holds of every list (Loose) speaks of the links between live nodes, and *)
(* what holds of a list that nothing was cut off from (Whole), of its      *)
(* count, its order and its two ends.                                      *)
(*                                                                         *)
(* Then about HookStack, whose list is only pushed at its end and deleted: *)
(* what get_elm's walks find, and so what the reads return.                *)
(*                                                                         *)
(* And about Hook, for every set of callers, ids and priorities: no id     *)
(* twice, and, until a caller removes the node that the call of another    *)
(* has stored, no freed node read by a call and ascending priorities.      *)
(* hook_add does insert before a null node: a part of the nodes can be     *)
(* reached and the rest is cut off, with links that a call in progress may *)
(* still be following.                                                     *)
(***************************************************************************)
EXTENDS LinkedListUse, HookStack, Hook, SequenceTheorems, FiniteSetTheorems, WellFoundedInduction, TLAPS

-----------------------------------------------------------------------------
(* Sequences.                                                              *)

Distinct(s) == \A i, j \in 1..Len(s) : s[i] = s[j] => i = j

\* What ToSet, the elements of a sequence, contains.
LEMMA Elements ==
    ASSUME NEW S, NEW s \in Seq(S), NEW x
    PROVE  x \in ToSet(s) <=> \E i \in 1..Len(s) : x = s[i]
  <1>1. DOMAIN s = 1..Len(s)
    BY LenProperties
  <1> QED
    BY <1>1 DEF ToSet

\* InsertAt, element by element.
LEMMA Inserted ==
    ASSUME NEW S, NEW s \in Seq(S), NEW n \in S, NEW k \in 1..(Len(s) + 1)
    PROVE  /\ InsertAt(s, k, n) \in Seq(S)
           /\ Len(InsertAt(s, k, n)) = Len(s) + 1
           /\ \A i \in 1..(Len(s) + 1) :
                 InsertAt(s, k, n)[i] = IF i < k THEN s[i] ELSE IF i = k THEN n ELSE s[i - 1]
  <1> DEFINE a == SubSeq(s, 1, k - 1)
             m == <<n>>
             b == SubSeq(s, k, Len(s))
  <1> HIDE DEF a, m, b
  <1>1. Len(s) \in Nat /\ k \in Nat
    BY LenProperties
  <1>2. a \in Seq(S) /\ Len(a) = k - 1 /\ \A i \in 1..(k - 1) : a[i] = s[i]
    BY <1>1, SubSeqProperties, ElementOfSeq DEF a
  <1>3. b \in Seq(S) /\ Len(b) = Len(s) - k + 1 /\ \A i \in 1..(Len(s) - k + 1) : b[i] = s[k + i - 1]
    BY <1>1, SubSeqProperties, ElementOfSeq DEF b
  <1>4. m \in Seq(S) /\ Len(m) = 1 /\ m[1] = n
    BY DEF m
  <1>5. InsertAt(s, k, n) = (a \o m) \o b
    BY DEF InsertAt, a, m, b
  <1> DEFINE c == a \o m
  <1> HIDE DEF c
  <1>6. /\ c \in Seq(S) /\ Len(c) = k
        /\ \A i \in 1..k : c[i] = IF i < k THEN s[i] ELSE n
    <2>0. /\ c \in Seq(S) /\ Len(c) = Len(a) + Len(m)
          /\ \A i \in 1..(Len(a) + Len(m)) : c[i] = IF i <= Len(a) THEN a[i] ELSE m[i - Len(a)]
      BY <1>2, <1>4, ConcatProperties DEF c
    <2>1. c \in Seq(S) /\ Len(c) = k
      BY <1>1, <1>2, <1>4, <2>0
    <2>2. ASSUME NEW i \in 1..k PROVE c[i] = IF i < k THEN s[i] ELSE n
      <3>1. c[i] = IF i <= k - 1 THEN a[i] ELSE m[i - (k - 1)]
        BY <1>1, <1>2, <1>4, <2>0
      <3>2. CASE i < k
        BY <1>1, <1>2, <3>1, <3>2
      <3>3. CASE i = k
        <4>1. ~(i <= k - 1) /\ i - (k - 1) = 1
          BY <1>1, <3>3
        <4> QED
          BY <1>4, <3>1, <3>3, <4>1
      <3> QED
        BY <1>1, <3>2, <3>3
    <2> QED
      BY <2>1, <2>2
  <1>7. InsertAt(s, k, n) = c \o b
    BY <1>5 DEF c
  <1>8. InsertAt(s, k, n) \in Seq(S) /\ Len(InsertAt(s, k, n)) = Len(s) + 1
    <2>1. InsertAt(s, k, n) \in Seq(S) /\ Len(InsertAt(s, k, n)) = Len(c) + Len(b)
      BY <1>3, <1>6, <1>7, ConcatProperties
    <2> QED
      BY <1>1, <1>3, <1>6, <2>1
  <1>9. ASSUME NEW i \in 1..(Len(s) + 1)
        PROVE  InsertAt(s, k, n)[i] = IF i < k THEN s[i] ELSE IF i = k THEN n ELSE s[i - 1]
    <2>1. InsertAt(s, k, n)[i] = IF i <= k THEN c[i] ELSE b[i - k]
      BY <1>1, <1>3, <1>6, <1>7, ConcatProperties
    <2>2. CASE i <= k
      BY <1>1, <1>6, <2>1, <2>2
    <2>3. CASE ~(i <= k)
      <3>1. b[i - k] = s[k + (i - k) - 1]
        BY <1>1, <1>3, <2>3
      <3>2. k + (i - k) - 1 = i - 1
        BY <1>1
      <3> QED
        BY <1>1, <2>1, <2>3, <3>1, <3>2
    <2> QED
      BY <2>2, <2>3
  <1> QED
    BY <1>8, <1>9

\* RemoveAt, element by element.
LEMMA RemovedAt ==
    ASSUME NEW S, NEW s \in Seq(S), NEW k \in 1..Len(s)
    PROVE  /\ RemoveAt(s, k) \in Seq(S)
           /\ Len(RemoveAt(s, k)) = Len(s) - 1
           /\ \A i \in 1..(Len(s) - 1) : RemoveAt(s, k)[i] = IF i < k THEN s[i] ELSE s[i + 1]
  <1> DEFINE a == SubSeq(s, 1, k - 1)
             b == SubSeq(s, k + 1, Len(s))
             r == RemoveAt(s, k)
  <1> HIDE DEF a, b, r
  <1>1. Len(s) \in Nat /\ k \in Nat
    BY LenProperties
  <1>2. a \in Seq(S) /\ Len(a) = k - 1 /\ \A i \in 1..(k - 1) : a[i] = s[i]
    BY <1>1, SubSeqProperties, ElementOfSeq DEF a
  <1>3. b \in Seq(S) /\ Len(b) = Len(s) - k /\ \A i \in 1..(Len(s) - k) : b[i] = s[k + i]
    BY <1>1, SubSeqProperties, ElementOfSeq DEF b
  <1>4. r = a \o b
    BY DEF RemoveAt, a, b, r
  <1>5. r \in Seq(S) /\ Len(r) = Len(s) - 1
    <2>1. r \in Seq(S) /\ Len(r) = Len(a) + Len(b)
      BY <1>2, <1>3, <1>4, ConcatProperties
    <2> QED
      BY <1>1, <1>2, <1>3, <2>1
  <1>6. ASSUME NEW i \in 1..(Len(s) - 1) PROVE r[i] = IF i < k THEN s[i] ELSE s[i + 1]
    <2>1. r[i] = IF i <= k - 1 THEN a[i] ELSE b[i - (k - 1)]
      BY <1>1, <1>2, <1>3, <1>4, ConcatProperties
    <2>2. CASE i < k
      BY <1>1, <1>2, <2>1, <2>2
    <2>3. CASE ~(i < k)
      <3>1. i - (k - 1) \in 1..(Len(s) - k) /\ k + (i - (k - 1)) = i + 1
        BY <1>1, <2>3
      <3>2. b[i - (k - 1)] = s[k + (i - (k - 1))]
        BY <1>3, <3>1
      <3> QED
        BY <1>1, <2>1, <2>3, <3>1, <3>2
    <2> QED
      BY <2>2, <2>3
  <1> QED
    BY <1>5, <1>6 DEF r

\* Position is the inverse of a sequence without repetitions.
LEMMA PositionOf ==
    ASSUME order \in Seq(Nodes), Distinct(order), NEW k \in 1..Len(order)
    PROVE  Position(order[k]) = k
  <1>1. \E i \in 1..Len(order) : order[i] = order[k]
    OBVIOUS
  <1>2. Position(order[k]) \in 1..Len(order) /\ order[Position(order[k])] = order[k]
    BY <1>1 DEF Position
  <1> QED
    BY <1>2 DEF Distinct

-----------------------------------------------------------------------------
(* The links.                                                              *)

\* WellLinked, of a list and the sequence of nodes it stands for.
Linked(l, s) ==
    /\ l.live = ToSet(s) /\ l.count = Len(s)
    /\ l.first = IF Len(s) = 0 THEN Null ELSE s[1]
    /\ l.last = IF Len(s) = 0 THEN Null ELSE s[Len(s)]
    /\ \A i \in 1..Len(s) :
          /\ l.prev[s[i]] = IF i = 1 THEN Null ELSE s[i - 1]
          /\ l.next[s[i]] = IF i = Len(s) THEN Null ELSE s[i + 1]

\* Lists, with any count.
ListType ==
    [first : Pointers, last : Pointers, count : Nat, live : SUBSET Nodes,
     next : [Nodes -> Pointers], prev : [Nodes -> Pointers]]

\* t is s with n put at position k.
Puts(t, s, k, n) ==
    /\ t \in Seq(Nodes) /\ Len(t) = Len(s) + 1
    /\ \A i \in 1..(Len(s) + 1) : t[i] = IF i < k THEN s[i] ELSE IF i = k THEN n ELSE s[i - 1]

\* t is s without position k.
Takes(t, s, k) ==
    /\ t \in Seq(Nodes) /\ Len(t) = Len(s) - 1
    /\ \A i \in 1..(Len(s) - 1) : t[i] = IF i < k THEN s[i] ELSE s[i + 1]

\* InsertAt puts.
LEMMA InsertAtPuts ==
    ASSUME NEW s \in Seq(Nodes), NEW n \in Nodes, NEW k \in 1..(Len(s) + 1)
    PROVE  Puts(InsertAt(s, k, n), s, k, n)
  <1> DEFINE t == InsertAt(s, k, n)
  <1> HIDE DEF t
  <1>1. /\ t \in Seq(Nodes) /\ Len(t) = Len(s) + 1
        /\ \A i \in 1..(Len(s) + 1) : t[i] = IF i < k THEN s[i] ELSE IF i = k THEN n ELSE s[i - 1]
    BY Inserted DEF t
  <1>2. Puts(t, s, k, n)
    BY <1>1 DEF Puts
  <1> QED
    BY <1>2 DEF t

\* A node put in front, and at the end.
LEMMA ConsPuts ==
    ASSUME NEW s \in Seq(Nodes), NEW n \in Nodes, NEW t, t = <<n>> \o s
    PROVE  Puts(t, s, 1, n)
  <1>1. Len(s) \in Nat
    BY LenProperties
  <1>2. Puts(t, s, 1, n)
    <2>1. <<n>> \in Seq(Nodes) /\ Len(<<n>>) = 1 /\ <<n>>[1] = n
      OBVIOUS
    <2>2. t \in Seq(Nodes) /\ Len(t) = 1 + Len(s)
      BY <2>1, ConcatProperties
    <2>3. \A i \in 1..(1 + Len(s)) : t[i] = IF i <= 1 THEN <<n>>[i] ELSE s[i - 1]
      BY <2>1, ConcatProperties
    <2>4. ASSUME NEW i \in 1..(Len(s) + 1)
          PROVE  t[i] = IF i < 1 THEN s[i] ELSE IF i = 1 THEN n ELSE s[i - 1]
      <3>1. CASE i = 1
        BY <1>1, <2>1, <2>3, <3>1
      <3>2. CASE i # 1
        BY <1>1, <2>3, <3>2
      <3> QED
        BY <3>1, <3>2
    <2> QED
      BY <1>1, <2>2, <2>4 DEF Puts
  <1> QED
    BY <1>2

LEMMA AppendPuts ==
    ASSUME NEW s \in Seq(Nodes), NEW n \in Nodes, NEW t, t = Append(s, n)
    PROVE  Puts(t, s, Len(s) + 1, n)
  <1>1. Len(s) \in Nat
    BY LenProperties
  <1>2. Puts(t, s, Len(s) + 1, n)
    <2>1. /\ t \in Seq(Nodes) /\ Len(t) = Len(s) + 1
          /\ \A i \in 1..Len(s) : t[i] = s[i]
          /\ t[Len(s) + 1] = n
      BY AppendProperties
    <2> QED
      BY <1>1, <2>1 DEF Puts
  <1> QED
    BY <1>2

\* A sequence with one element more, and with one less.
LEMMA PutsElements ==
    ASSUME NEW s \in Seq(Nodes), Distinct(s), NEW n, n \notin ToSet(s),
           NEW k \in 1..(Len(s) + 1), NEW t, Puts(t, s, k, n)
    PROVE  Distinct(t) /\ ToSet(t) = ToSet(s) \cup {n}
  <1>1. Len(s) \in Nat /\ k \in Nat
    BY LenProperties
  <1>2. n \notin {s[i] : i \in 1..Len(s)}
    BY Elements
  <1>3. Distinct(t)
    <2>1. SUFFICES ASSUME NEW i \in 1..(Len(s) + 1), NEW j \in 1..(Len(s) + 1), t[i] = t[j]
                   PROVE  i = j
      BY DEF Distinct, Puts
    <2> DEFINE From(h) == IF h < k THEN h ELSE h - 1
    <2>4. ASSUME NEW h \in 1..(Len(s) + 1), h # k
          PROVE  From(h) \in 1..Len(s) /\ t[h] = s[From(h)] /\ t[h] # n
      <3>1. From(h) \in 1..Len(s)
        BY <1>1, <2>4
      <3>2. t[h] = s[From(h)]
        BY <2>4 DEF Puts
      <3> HIDE DEF From
      <3> QED
        BY <1>2, <3>1, <3>2
    <2>5. t[k] = n
      BY <1>1 DEF Puts
    <2>6. CASE i # k /\ j # k
      <3>1. From(i) = From(j)
        <4> HIDE DEF From
        <4> QED
          BY <2>1, <2>4, <2>6 DEF Distinct
      <3> QED
        BY <1>1, <2>6, <3>1
    <2> QED
      BY <1>1, <2>1, <2>4, <2>5, <2>6
  <1>4. ToSet(t) = ToSet(s) \cup {n}
    <2>1. ASSUME NEW x PROVE x \in ToSet(t) <=> x = n \/ x \in ToSet(s)
      <3>1. x \in ToSet(t) <=> \E i \in 1..(Len(s) + 1) : x = t[i]
        BY Elements DEF Puts
      <3>2. x \in ToSet(s) <=> \E i \in 1..Len(s) : x = s[i]
        BY Elements
      <3>3. ASSUME NEW i \in 1..(Len(s) + 1) PROVE t[i] = n \/ \E j \in 1..Len(s) : t[i] = s[j]
        <4>1. CASE i < k
          <5>1. t[i] = s[i] /\ i \in 1..Len(s)
            BY <1>1, <4>1 DEF Puts
          <5> QED
            BY <5>1
        <4>2. CASE i = k
          BY <4>2 DEF Puts
        <4>3. CASE i > k
          <5>1. t[i] = s[i - 1] /\ i - 1 \in 1..Len(s)
            BY <1>1, <4>3 DEF Puts
          <5> QED
            BY <5>1
        <4> QED
          BY <1>1, <4>1, <4>2, <4>3
      <3>4. t[k] = n
        BY <1>1 DEF Puts
      <3>5. ASSUME NEW i \in 1..Len(s) PROVE \E j \in 1..(Len(s) + 1) : s[i] = t[j]
        <4>1. CASE i < k
          <5>1. t[i] = s[i] /\ i \in 1..(Len(s) + 1)
            BY <1>1, <4>1 DEF Puts
          <5> QED
            BY <5>1
        <4>2. CASE ~(i < k)
          <5>1. t[i + 1] = s[i + 1 - 1] /\ i + 1 \in 1..(Len(s) + 1) /\ i + 1 - 1 = i
            BY <1>1, <4>2 DEF Puts
          <5> QED
            BY <5>1
        <4> QED
          BY <4>1, <4>2
      <3> QED
        BY <1>1, <3>1, <3>2, <3>3, <3>4, <3>5
    <2> QED
      BY <2>1
  <1> QED
    BY <1>3, <1>4

LEMMA TakesElements ==
    ASSUME NEW s \in Seq(Nodes), Distinct(s), NEW k \in 1..Len(s), NEW t, Takes(t, s, k)
    PROVE  Distinct(t) /\ ToSet(t) = ToSet(s) \ {s[k]}
  <1> DEFINE n == s[k]
             From(h) == IF h < k THEN h ELSE h + 1
  <1> HIDE DEF n
  <1>1. Len(s) \in Nat /\ k \in Nat
    BY LenProperties
  <1>2. n = s[k]
    BY DEF n
  <1>3. ASSUME NEW h \in 1..(Len(s) - 1)
        PROVE  From(h) \in 1..Len(s) /\ t[h] = s[From(h)] /\ From(h) # k /\ t[h] # n
    <2>1. From(h) \in 1..Len(s) /\ From(h) # k
      BY <1>1
    <2>2. t[h] = s[From(h)]
      BY DEF Takes
    <2> HIDE DEF From
    <2> QED
      BY <1>2, <2>1, <2>2 DEF Distinct
  <1>4. ASSUME NEW i \in 1..Len(s), i # k PROVE \E h \in 1..(Len(s) - 1) : t[h] = s[i]
    <2>1. CASE i < k
      <3>1. i \in 1..(Len(s) - 1) /\ t[i] = s[i]
        BY <1>1, <2>1 DEF Takes
      <3> QED
        BY <3>1
    <2>2. CASE i > k
      <3>1. i - 1 \in 1..(Len(s) - 1) /\ t[i - 1] = s[i - 1 + 1] /\ i - 1 + 1 = i
        BY <1>1, <2>2 DEF Takes
      <3> QED
        BY <3>1
    <2> QED
      BY <1>1, <1>4, <2>1, <2>2
  <1>5. Distinct(t)
    <2>1. SUFFICES ASSUME NEW i \in 1..(Len(s) - 1), NEW j \in 1..(Len(s) - 1), t[i] = t[j]
                   PROVE  i = j
      BY DEF Distinct, Takes
    <2>2. From(i) = From(j)
      <3> HIDE DEF From
      <3> QED
        BY <1>3, <2>1 DEF Distinct
    <2> QED
      BY <1>1, <2>2
  <1>6. ASSUME NEW x PROVE x \in ToSet(t) <=> x # n /\ x \in ToSet(s)
    <2>1. x \in ToSet(t) <=> \E i \in 1..(Len(s) - 1) : x = t[i]
      <3>1. t \in Seq(Nodes) /\ Len(t) = Len(s) - 1
        BY DEF Takes
      <3>2. x \in ToSet(t) <=> \E i \in 1..Len(t) : x = t[i]
        BY <3>1, Elements
      <3> QED
        BY <3>1, <3>2
    <2>2. x \in ToSet(s) <=> \E i \in 1..Len(s) : x = s[i]
      BY Elements
    <2> HIDE DEF From
    <2> QED
      BY <1>2, <1>3, <1>4, <2>1, <2>2
  <1> QED
    BY <1>2, <1>5, <1>6

\* r is l with n between pre and post, field by field.
Gained(r, l, n, pre, post) ==
    /\ r \in ListType /\ r.live = l.live \cup {n} /\ r.count = l.count + 1
    /\ r.first = IF pre = Null THEN n ELSE l.first
    /\ r.last = IF post = Null THEN n ELSE l.last
    /\ \A m \in Nodes : r.next[m] = IF m = n THEN post ELSE IF m = pre THEN n ELSE l.next[m]
    /\ \A m \in Nodes : r.prev[m] = IF m = n THEN pre ELSE IF m = post THEN n ELSE l.prev[m]

\* r is l without n, which was between pre and post, field by field.
Lost(r, l, n, pre, post) ==
    /\ r \in ListType /\ r.live = l.live \ {n} /\ r.count = l.count - 1
    /\ r.first = IF pre = Null THEN post ELSE l.first
    /\ r.last = IF post = Null THEN pre ELSE l.last
    /\ \A m \in Nodes : r.next[m] = IF m = n THEN Null ELSE IF m = pre THEN post ELSE l.next[m]
    /\ \A m \in Nodes : r.prev[m] = IF m = n THEN Null ELSE IF m = post THEN pre ELSE l.prev[m]

\* InsertBetween does so.
LEMMA InsertBetweenIs ==
    ASSUME NEW l \in ListType, NEW n \in Nodes, NEW pre \in Pointers, NEW post \in Pointers
    PROVE  Gained(InsertBetween(l, n, pre, post), l, n, pre, post)
  <1> DEFINE next == [m \in Nodes |-> IF m = n THEN post ELSE IF m = pre THEN n ELSE l.next[m]]
             prev == [m \in Nodes |-> IF m = n THEN pre ELSE IF m = post THEN n ELSE l.prev[m]]
             live == l.live \cup {n}
             first == IF pre = Null THEN n ELSE l.first
             last == IF post = Null THEN n ELSE l.last
             count == l.count + 1
             r == InsertBetween(l, n, pre, post)
  <1>1. next \in [Nodes -> Pointers] /\ prev \in [Nodes -> Pointers]
    BY DEF ListType, Pointers
  <1>2. live \in SUBSET Nodes /\ first \in Pointers /\ last \in Pointers /\ count \in Nat
    BY DEF ListType, Pointers
  <1>3. r = [l EXCEPT !.live = live, !.next = next, !.prev = prev,
                      !.first = first, !.last = last, !.count = count]
    BY DEF InsertBetween
  <1>4. /\ \A m \in Nodes : next[m] = IF m = n THEN post ELSE IF m = pre THEN n ELSE l.next[m]
        /\ \A m \in Nodes : prev[m] = IF m = n THEN pre ELSE IF m = post THEN n ELSE l.prev[m]
    OBVIOUS
  <1> HIDE DEF next, prev, live, first, last, count, r
  <1>5. /\ r \in ListType /\ r.live = live /\ r.next = next /\ r.prev = prev
        /\ r.first = first /\ r.last = last /\ r.count = count
    BY <1>1, <1>2, <1>3 DEF ListType
  <1>6. Gained(r, l, n, pre, post)
    BY <1>4, <1>5 DEF live, first, last, count, Gained
  <1> QED
    BY <1>6 DEF r

\* RemoveNode does so.
LEMMA RemoveNodeIs ==
    ASSUME NEW l \in ListType, NEW n \in Nodes, l.count # 0,
           NEW pre, pre = l.prev[n], NEW post, post = l.next[n]
    PROVE  Lost(RemoveNode(l, n), l, n, pre, post)
  <1> DEFINE next == [m \in Nodes |-> IF m = n THEN Null ELSE IF m = pre THEN post ELSE l.next[m]]
             prev == [m \in Nodes |-> IF m = n THEN Null ELSE IF m = post THEN pre ELSE l.prev[m]]
             live == l.live \ {n}
             first == IF pre = Null THEN post ELSE l.first
             last == IF post = Null THEN pre ELSE l.last
             count == l.count - 1
             r == RemoveNode(l, n)
  <1>1. pre \in Pointers /\ post \in Pointers
    BY DEF ListType
  <1>2. next \in [Nodes -> Pointers] /\ prev \in [Nodes -> Pointers]
    BY <1>1 DEF ListType, Pointers
  <1>3. live \in SUBSET Nodes /\ first \in Pointers /\ last \in Pointers /\ count \in Nat
    BY <1>1 DEF ListType, Pointers
  <1>4. r = [l EXCEPT !.live = live, !.next = next, !.prev = prev,
                      !.first = first, !.last = last, !.count = count]
    BY DEF RemoveNode
  <1>5. /\ \A m \in Nodes : next[m] = IF m = n THEN Null ELSE IF m = pre THEN post ELSE l.next[m]
        /\ \A m \in Nodes : prev[m] = IF m = n THEN Null ELSE IF m = post THEN pre ELSE l.prev[m]
    OBVIOUS
  <1> HIDE DEF next, prev, live, first, last, count, r
  <1>6. /\ r \in ListType /\ r.live = live /\ r.next = next /\ r.prev = prev
        /\ r.first = first /\ r.last = last /\ r.count = count
    BY <1>2, <1>3, <1>4 DEF ListType
  <1>7. Lost(r, l, n, pre, post)
    BY <1>5, <1>6 DEF live, first, last, count, Lost
  <1> QED
    BY <1>7 DEF r

\* insert_between, given the neighbours of a position, puts the node there.
LEMMA InsertBetweenLinks ==
    ASSUME NEW l \in ListType, NEW s \in Seq(Nodes), Linked(l, s), Distinct(s),
           NEW n \in Nodes \ l.live, NEW k \in 1..(Len(s) + 1),
           NEW pre, pre = IF k = 1 THEN Null ELSE s[k - 1],
           NEW post, post = IF k = Len(s) + 1 THEN Null ELSE s[k],
           NEW t, Puts(t, s, k, n)
    PROVE  /\ InsertBetween(l, n, pre, post) \in ListType
           /\ Linked(InsertBetween(l, n, pre, post), t) /\ Distinct(t)
  <1> DEFINE r == InsertBetween(l, n, pre, post)
  <1> HIDE DEF r
  <1>1. Len(s) \in Nat /\ k \in Nat /\ \A i \in 1..Len(s) : s[i] \in Nodes
    BY LenProperties, ElementOfSeq
  <1>2. pre \in Pointers /\ post \in Pointers
    BY <1>1 DEF Pointers
  <1>3. /\ r \in ListType /\ r.live = l.live \cup {n} /\ r.count = l.count + 1
        /\ r.first = (IF pre = Null THEN n ELSE l.first)
        /\ r.last = (IF post = Null THEN n ELSE l.last)
        /\ \A m \in Nodes : r.next[m] = IF m = n THEN post ELSE IF m = pre THEN n ELSE l.next[m]
        /\ \A m \in Nodes : r.prev[m] = IF m = n THEN pre ELSE IF m = post THEN n ELSE l.prev[m]
    <2>1. Gained(r, l, n, pre, post)
      BY <1>2, InsertBetweenIs DEF r
    <2> QED
      BY <2>1 DEF Gained
  <1>4. r \in ListType
    BY <1>3
  <1>5. n \notin {s[i] : i \in 1..Len(s)} /\ n # Null
    BY Elements, NullIsNoNode DEF Linked
  <1>6. Distinct(t) /\ ToSet(t) = ToSet(s) \cup {n}
    BY PutsElements DEF Linked
  <1>7. r.live = ToSet(t)
    BY <1>3, <1>6 DEF Linked
  <1>8. r.count = Len(t)
    BY <1>3 DEF Linked, Puts
  <1>9. r.first = t[1]
    BY <1>1, <1>3, NullIsNoNode DEF Linked, Puts
  <1>10. r.last = t[Len(t)]
    BY <1>1, <1>3, NullIsNoNode DEF Linked, Puts
  <1>11. ASSUME NEW i \in 1..(Len(s) + 1)
         PROVE  /\ r.prev[t[i]] = IF i = 1 THEN Null ELSE t[i - 1]
                /\ r.next[t[i]] = IF i = Len(s) + 1 THEN Null ELSE t[i + 1]
    <2>1. CASE i < k
      <3>1. t[i] = s[i] /\ i \in 1..Len(s) /\ s[i] # n
        BY <1>1, <1>5, <2>1 DEF Puts
      <3>2. r.prev[s[i]] = l.prev[s[i]]
        <4>1. s[i] # post
          BY <1>1, <2>1, <3>1, NullIsNoNode DEF Distinct
        <4> QED
          BY <1>1, <1>3, <3>1, <4>1
      <3>3. r.next[s[i]] = IF i = k - 1 THEN n ELSE l.next[s[i]]
        <4>1. s[i] = pre <=> i = k - 1
          BY <1>1, <2>1, <3>1 DEF Distinct
        <4> QED
          BY <1>1, <1>3, <3>1, <4>1
      <3>4. l.prev[s[i]] = IF i = 1 THEN Null ELSE t[i - 1]
        <4>1. l.prev[s[i]] = IF i = 1 THEN Null ELSE s[i - 1]
          BY <3>1 DEF Linked
        <4>2. ASSUME i # 1 PROVE t[i - 1] = s[i - 1]
          <5>1. i - 1 \in 1..(Len(s) + 1) /\ i - 1 < k
            BY <1>1, <2>1, <4>2
          <5> QED
            BY <5>1 DEF Puts
        <4> QED
          BY <4>1, <4>2
      <3>5. i # k - 1 => l.next[s[i]] = t[i + 1]
        <4>1. l.next[s[i]] = IF i = Len(s) THEN Null ELSE s[i + 1]
          BY <3>1 DEF Linked
        <4>2. i # k - 1 => t[i + 1] = s[i + 1] /\ i # Len(s)
          BY <1>1, <2>1 DEF Puts
        <4> QED
          BY <4>1, <4>2
      <3>6. i = k - 1 => n = t[i + 1]
        BY <1>1, <2>1 DEF Puts
      <3>7. i # Len(s) + 1
        BY <1>1, <3>1
      <3> QED
        BY <3>1, <3>2, <3>3, <3>4, <3>5, <3>6, <3>7
    <2>2. CASE i = k
      <3>1. t[i] = n
        BY <2>2 DEF Puts
      <3>2. r.prev[n] = pre /\ r.next[n] = post
        BY <1>3
      <3>3. pre = IF i = 1 THEN Null ELSE t[i - 1]
        BY <1>1, <2>2 DEF Puts
      <3>4. post = IF i = Len(s) + 1 THEN Null ELSE t[i + 1]
        BY <1>1, <2>2 DEF Puts
      <3> QED
        BY <3>1, <3>2, <3>3, <3>4
    <2>3. CASE i > k
      <3>1. t[i] = s[i - 1] /\ i - 1 \in 1..Len(s) /\ s[i - 1] # n /\ s[i - 1] \in Nodes
        BY <1>1, <1>5, <2>3 DEF Puts
      <3>2. r.next[s[i - 1]] = l.next[s[i - 1]]
        <4>1. s[i - 1] # pre
          BY <1>1, <2>3, <3>1, NullIsNoNode DEF Distinct
        <4> QED
          BY <1>3, <3>1, <4>1
      <3>3. r.prev[s[i - 1]] = IF i - 1 = k THEN n ELSE l.prev[s[i - 1]]
        <4>1. s[i - 1] = post <=> i - 1 = k
          BY <1>1, <2>3, <3>1 DEF Distinct
        <4> QED
          BY <1>3, <3>1, <4>1
      <3>4. l.next[s[i - 1]] = IF i = Len(s) + 1 THEN Null ELSE t[i + 1]
        <4>1. l.next[s[i - 1]] = IF i - 1 = Len(s) THEN Null ELSE s[i - 1 + 1]
          BY <3>1 DEF Linked
        <4>2. ASSUME i # Len(s) + 1 PROVE t[i + 1] = s[i + 1 - 1] /\ i + 1 - 1 = i - 1 + 1
          <5>1. i + 1 \in 1..(Len(s) + 1) /\ ~(i + 1 < k) /\ i + 1 # k /\ i + 1 - 1 = i - 1 + 1
            BY <1>1, <2>3, <4>2
          <5> QED
            BY <5>1 DEF Puts
        <4> QED
          BY <1>1, <4>1, <4>2
      <3>5. i - 1 # k => l.prev[s[i - 1]] = t[i - 1]
        <4>1. l.prev[s[i - 1]] = IF i - 1 = 1 THEN Null ELSE s[i - 1 - 1]
          BY <3>1 DEF Linked
        <4>2. ASSUME i - 1 # k PROVE t[i - 1] = s[i - 1 - 1] /\ i - 1 # 1
          <5>1. i - 1 \in 1..(Len(s) + 1) /\ ~(i - 1 < k) /\ i - 1 # 1
            BY <1>1, <2>3, <4>2
          <5> QED
            BY <4>2, <5>1 DEF Puts
        <4> QED
          BY <4>1, <4>2
      <3>6. i - 1 = k => n = t[i - 1]
        BY <1>1, <2>3 DEF Puts
      <3>7. i # 1
        BY <1>1, <2>3
      <3> QED
        BY <3>1, <3>2, <3>3, <3>4, <3>5, <3>6, <3>7
    <2> QED
      BY <1>1, <2>1, <2>2, <2>3
  <1>12. Len(t) = Len(s) + 1 /\ Len(t) # 0
    BY <1>1 DEF Puts
  <1>13. Linked(r, t)
    BY <1>7, <1>8, <1>9, <1>10, <1>11, <1>12 DEF Linked
  <1> QED
    BY <1>4, <1>6, <1>13 DEF r

\* cflare_linkedlist_remove takes a node out of its position.
LEMMA RemoveNodeLinks ==
    ASSUME NEW l \in ListType, NEW s \in Seq(Nodes), Linked(l, s), Distinct(s),
           NEW k \in 1..Len(s), NEW t, Takes(t, s, k)
    PROVE  /\ RemoveNode(l, s[k]) \in ListType
           /\ Linked(RemoveNode(l, s[k]), t) /\ Distinct(t)
           /\ s[k] \notin ToSet(t) /\ \A x : x \in ToSet(s) /\ x # s[k] => x \in ToSet(t)
  <1> DEFINE r == RemoveNode(l, s[k])
             n == s[k]
             pre == IF k = 1 THEN Null ELSE s[k - 1]
             post == IF k = Len(s) THEN Null ELSE s[k + 1]
             From(h) == IF h < k THEN h ELSE h + 1
  <1> HIDE DEF r, pre, post, n
  <1>1. Len(s) \in Nat /\ k \in Nat /\ \A i \in 1..Len(s) : s[i] \in Nodes /\ s[i] # Null
    BY LenProperties, ElementOfSeq, NullIsNoNode
  <1>2. n = s[k] /\ n \in Nodes /\ pre \in Pointers /\ post \in Pointers
    BY <1>1 DEF Pointers, pre, post, n
  <1>3. l.prev[n] = pre /\ l.next[n] = post
    BY DEF Linked, pre, post, n
  <1>4. /\ r \in ListType /\ r.live = l.live \ {n} /\ r.count = l.count - 1
        /\ r.first = (IF pre = Null THEN post ELSE l.first)
        /\ r.last = (IF post = Null THEN pre ELSE l.last)
        /\ \A m \in Nodes : r.next[m] = IF m = n THEN Null ELSE IF m = pre THEN post ELSE l.next[m]
        /\ \A m \in Nodes : r.prev[m] = IF m = n THEN Null ELSE IF m = post THEN pre ELSE l.prev[m]
    <2>1. l.count # 0
      BY <1>1 DEF Linked
    <2>2. Lost(r, l, n, l.prev[n], l.next[n])
      BY <1>2, <2>1, RemoveNodeIs DEF r, n
    <2> QED
      BY <1>3, <2>2 DEF Lost
  <1>5. r \in ListType
    BY <1>4
  <1>6. ASSUME NEW h \in 1..(Len(s) - 1)
        PROVE  From(h) \in 1..Len(s) /\ t[h] = s[From(h)] /\ From(h) # k /\ t[h] # n
    <2>1. From(h) \in 1..Len(s) /\ From(h) # k
      BY <1>1
    <2>2. t[h] = s[From(h)]
      BY DEF Takes
    <2> HIDE DEF From
    <2> QED
      BY <1>2, <2>1, <2>2 DEF Distinct
  <1>8. Distinct(t) /\ ToSet(t) = ToSet(s) \ {n}
    BY <1>2, TakesElements
  <1>9. \A x : x \in ToSet(t) <=> x # n /\ x \in ToSet(s)
    BY <1>8
  <1>10. r.live = ToSet(t)
    BY <1>4, <1>9 DEF Linked
  <1>11. r.count = Len(t) /\ Len(t) = Len(s) - 1
    BY <1>1, <1>4 DEF Linked, Takes
  <1>12. r.first = IF Len(t) = 0 THEN Null ELSE t[1]
    <2>1. CASE k = 1
      <3>1. r.first = post
        BY <1>4, <2>1 DEF pre
      <3> QED
        BY <1>1, <1>11, <2>1, <3>1 DEF post, Takes
    <2>2. CASE k # 1
      <3>1. pre = s[k - 1] /\ k - 1 \in 1..Len(s)
        BY <1>1, <2>2 DEF pre
      <3>2. r.first = s[1]
        BY <1>1, <1>4, <3>1 DEF Linked
      <3>3. Len(t) # 0 /\ t[1] = s[1]
        BY <1>1, <1>11, <2>2 DEF Takes
      <3> QED
        BY <3>2, <3>3
    <2> QED
      BY <2>1, <2>2
  <1>13. r.last = IF Len(t) = 0 THEN Null ELSE t[Len(t)]
    <2>1. CASE k = Len(s)
      <3>1. r.last = pre
        BY <1>4, <2>1 DEF post
      <3> QED
        BY <1>1, <1>11, <2>1, <3>1 DEF pre, Takes
    <2>2. CASE k # Len(s)
      <3>1. r.last = s[Len(s)] /\ Len(t) # 0
        BY <1>1, <1>4, <1>11, <2>2 DEF post, Linked
      <3>2. t[Len(s) - 1] = s[Len(s) - 1 + 1] /\ Len(s) - 1 + 1 = Len(s)
        BY <1>1, <2>2 DEF Takes
      <3> QED
        BY <1>11, <3>1, <3>2
    <2> QED
      BY <2>1, <2>2
  <1>14. ASSUME NEW i \in 1..(Len(s) - 1)
         PROVE  r.prev[t[i]] = IF i = 1 THEN Null ELSE t[i - 1]
    <2>1. CASE i < k
      <3>1. t[i] = s[i] /\ i \in 1..Len(s) /\ s[i] # n /\ s[i] # post /\ s[i] \in Nodes
        BY <1>1, <1>6, <2>1 DEF Distinct, post
      <3>2. r.prev[t[i]] = IF i = 1 THEN Null ELSE s[i - 1]
        BY <1>4, <3>1 DEF Linked
      <3>3. i # 1 => t[i - 1] = s[i - 1]
        BY <1>1, <2>1 DEF Takes
      <3> QED
        BY <3>2, <3>3
    <2>2. CASE i = k
      <3>1. t[i] = s[i + 1] /\ s[i + 1] = post /\ post # n /\ post \in Nodes
        BY <1>1, <1>6, <2>2 DEF post
      <3>2. r.prev[t[i]] = pre
        BY <1>4, <3>1
      <3>3. i # 1 => t[i - 1] = s[i - 1]
        BY <1>1, <2>2 DEF Takes
      <3> QED
        BY <2>2, <3>2, <3>3 DEF pre
    <2>3. CASE i > k
      <3>1. t[i] = s[i + 1] /\ i + 1 \in 1..Len(s) /\ s[i + 1] # n /\ s[i + 1] \in Nodes
        BY <1>1, <1>6, <2>3
      <3>2. s[i + 1] # post
        BY <1>1, <2>3, <3>1 DEF Distinct, post
      <3>3. r.prev[t[i]] = l.prev[s[i + 1]]
        BY <1>4, <3>1, <3>2
      <3>4. l.prev[s[i + 1]] = IF i + 1 = 1 THEN Null ELSE s[i + 1 - 1]
        BY <3>1 DEF Linked
      <3>5. t[i - 1] = s[i - 1 + 1] /\ i - 1 + 1 = i /\ i + 1 - 1 = i /\ i + 1 # 1 /\ i # 1
        BY <1>1, <2>3 DEF Takes
      <3> QED
        BY <3>3, <3>4, <3>5
    <2> QED
      BY <1>1, <2>1, <2>2, <2>3
  <1>15. ASSUME NEW i \in 1..(Len(s) - 1)
         PROVE  r.next[t[i]] = IF i = Len(s) - 1 THEN Null ELSE t[i + 1]
    <2>1. CASE i < k - 1
      <3>1. t[i] = s[i] /\ i \in 1..Len(s) /\ s[i] # n /\ s[i] # pre /\ s[i] \in Nodes
        <4>1. t[i] = s[i] /\ t[i] # n /\ i \in 1..Len(s) /\ i # k - 1 /\ k # 1 /\ k - 1 \in 1..Len(s)
          BY <1>1, <1>6, <2>1
        <4>2. s[i] # s[k - 1]
          BY <4>1 DEF Distinct
        <4> QED
          BY <1>1, <4>1, <4>2 DEF pre
      <3>2. r.next[t[i]] = IF i = Len(s) THEN Null ELSE s[i + 1]
        <4>1. r.next[s[i]] = l.next[s[i]]
          BY <1>4, <3>1
        <4>2. l.next[s[i]] = IF i = Len(s) THEN Null ELSE s[i + 1]
          BY <3>1 DEF Linked
        <4> QED
          BY <3>1, <4>1, <4>2
      <3>3. t[i + 1] = s[i + 1] /\ i # Len(s) /\ i # Len(s) - 1
        BY <1>1, <2>1 DEF Takes
      <3> QED
        BY <3>2, <3>3
    <2>2. CASE i = k - 1
      <3>1. t[i] = s[i] /\ s[i] = pre /\ pre # n /\ pre \in Nodes
        BY <1>1, <1>6, <2>2 DEF pre
      <3>2. r.next[t[i]] = post
        BY <1>4, <3>1
      <3>3. i # Len(s) - 1 => t[i + 1] = s[k + 1]
        BY <1>1, <2>2 DEF Takes
      <3> QED
        BY <1>1, <2>2, <3>2, <3>3 DEF post
    <2>3. CASE i >= k
      <3>1. t[i] = s[i + 1] /\ i + 1 \in 1..Len(s) /\ s[i + 1] # n /\ s[i + 1] \in Nodes
        BY <1>1, <1>6, <2>3
      <3>2. s[i + 1] # pre
        BY <1>1, <2>3, <3>1 DEF Distinct, pre
      <3>3. r.next[t[i]] = l.next[s[i + 1]]
        BY <1>4, <3>1, <3>2
      <3>4. l.next[s[i + 1]] = IF i + 1 = Len(s) THEN Null ELSE s[i + 1 + 1]
        BY <3>1 DEF Linked
      <3>5. i # Len(s) - 1 => t[i + 1] = s[i + 1 + 1]
        BY <1>1, <2>3 DEF Takes
      <3> QED
        BY <1>1, <3>3, <3>4, <3>5
    <2> QED
      BY <1>1, <2>1, <2>2, <2>3
  <1>16. Linked(r, t)
    BY <1>10, <1>11, <1>12, <1>13, <1>14, <1>15 DEF Linked
  <1> QED
    BY <1>2, <1>5, <1>8, <1>9, <1>16 DEF r

-----------------------------------------------------------------------------
(* The iterator.                                                           *)

\* Position i lies behind position p for an iterator in direction d.
Behind(d, i, p) == IF d = "next" THEN i < p ELSE i > p

\* An iterator in direction d over the nodes s has a stored: what it returned
\* lies behind, and what was there at the start and still is, but was not
\* returned, does not.
Walking(s, d, a, st, sn) ==
    \/ a = Null /\ \A i \in 1..Len(s) : s[i] \in st => s[i] \in sn
    \/ \E p \in 1..Len(s) :
          /\ a = s[p]
          /\ \A i \in 1..Len(s) : s[i] \in sn => Behind(d, i, p)
          /\ \A i \in 1..Len(s) : s[i] \in st => s[i] \in sn \/ ~Behind(d, i, p)

\* An insertion anywhere does not disturb it.
LEMMA WalkingInserted ==
    ASSUME NEW s \in Seq(Nodes), NEW n, NEW k \in 1..(Len(s) + 1), NEW t, Puts(t, s, k, n),
           NEW d, NEW a, NEW st, NEW sn, n \notin st, n \notin sn, Walking(s, d, a, st, sn)
    PROVE  Walking(t, d, a, st, sn)
  <1> DEFINE From(h) == IF h < k THEN h ELSE h - 1
             To(h) == IF h < k THEN h ELSE h + 1
  <1>1. Len(s) \in Nat /\ k \in Nat /\ Len(t) = Len(s) + 1
    BY LenProperties DEF Puts
  <1>2. ASSUME NEW i \in 1..Len(t), t[i] \in st \cup sn
        PROVE  From(i) \in 1..Len(s) /\ t[i] = s[From(i)] /\ i # k
    <2>1. i # k
      BY <1>1, <1>2 DEF Puts
    <2>2. From(i) \in 1..Len(s)
      BY <1>1, <2>1
    <2>3. t[i] = s[From(i)]
      BY <1>1, <2>1 DEF Puts
    <2> QED
      BY <2>1, <2>2, <2>3
  <1>3. CASE a = Null /\ \A i \in 1..Len(s) : s[i] \in st => s[i] \in sn
    <2> HIDE DEF From
    <2> QED
      BY <1>2, <1>3 DEF Walking
  <1>4. CASE \E p \in 1..Len(s) :
                /\ a = s[p]
                /\ \A i \in 1..Len(s) : s[i] \in sn => Behind(d, i, p)
                /\ \A i \in 1..Len(s) : s[i] \in st => s[i] \in sn \/ ~Behind(d, i, p)
    <2>1. PICK p \in 1..Len(s) :
                /\ a = s[p]
                /\ \A i \in 1..Len(s) : s[i] \in sn => Behind(d, i, p)
                /\ \A i \in 1..Len(s) : s[i] \in st => s[i] \in sn \/ ~Behind(d, i, p)
      BY <1>4
    <2>2. To(p) \in 1..Len(t)
      BY <1>1
    <2>3. t[To(p)] = a
      <3>1. CASE p < k
        BY <1>1, <2>1, <3>1 DEF Puts
      <3>2. CASE ~(p < k)
        <4>1. t[p + 1] = s[p + 1 - 1] /\ p + 1 - 1 = p
          BY <1>1, <3>2 DEF Puts
        <4> QED
          BY <2>1, <3>2, <4>1
      <3> QED
        BY <3>1, <3>2
    <2>4. ASSUME NEW i \in 1..Len(t), i # k
          PROVE  Behind(d, i, To(p)) <=> Behind(d, From(i), p)
      BY <1>1, <2>4 DEF Behind
    <2> HIDE DEF From, To
    <2>5. \A i \in 1..Len(t) : t[i] \in sn => Behind(d, i, To(p))
      BY <1>2, <2>1, <2>4
    <2>6. \A i \in 1..Len(t) : t[i] \in st => t[i] \in sn \/ ~Behind(d, i, To(p))
      BY <1>2, <2>1, <2>4
    <2> QED
      BY <2>2, <2>3, <2>5, <2>6 DEF Walking
  <1> QED
    BY <1>3, <1>4 DEF Walking

\* The removal of a node that it returned does not either.
LEMMA WalkingRemoved ==
    ASSUME NEW s \in Seq(Nodes), NEW k \in 1..Len(s), NEW t, Takes(t, s, k),
           NEW d, NEW a, NEW st, NEW sn, s[k] \in sn, Walking(s, d, a, st, sn)
    PROVE  Walking(t, d, a, st, sn)
  <1> DEFINE From(h) == IF h < k THEN h ELSE h + 1
             To(h) == IF h < k THEN h ELSE h - 1
  <1>1. Len(s) \in Nat /\ k \in Nat /\ Len(t) = Len(s) - 1
    BY LenProperties DEF Takes
  <1>2. ASSUME NEW i \in 1..Len(t)
        PROVE  From(i) \in 1..Len(s) /\ t[i] = s[From(i)]
    BY <1>1 DEF Takes
  <1>3. CASE a = Null /\ \A i \in 1..Len(s) : s[i] \in st => s[i] \in sn
    <2> HIDE DEF From
    <2> QED
      BY <1>2, <1>3 DEF Walking
  <1>4. CASE \E p \in 1..Len(s) :
                /\ a = s[p]
                /\ \A i \in 1..Len(s) : s[i] \in sn => Behind(d, i, p)
                /\ \A i \in 1..Len(s) : s[i] \in st => s[i] \in sn \/ ~Behind(d, i, p)
    <2>1. PICK p \in 1..Len(s) :
                /\ a = s[p]
                /\ \A i \in 1..Len(s) : s[i] \in sn => Behind(d, i, p)
                /\ \A i \in 1..Len(s) : s[i] \in st => s[i] \in sn \/ ~Behind(d, i, p)
      BY <1>4
    <2>2. p # k
      BY <1>1, <2>1 DEF Behind
    <2>3. To(p) \in 1..Len(t)
      BY <1>1, <2>2
    <2>4. t[To(p)] = a
      <3>1. CASE p < k
        BY <1>1, <2>1, <3>1 DEF Takes
      <3>2. CASE p > k
        <4>1. t[p - 1] = s[p - 1 + 1] /\ p - 1 + 1 = p /\ To(p) = p - 1
          BY <1>1, <3>2 DEF Takes
        <4> QED
          BY <2>1, <4>1
      <3> QED
        BY <1>1, <2>2, <3>1, <3>2
    <2>5. ASSUME NEW i \in 1..Len(t)
          PROVE  Behind(d, i, To(p)) <=> Behind(d, From(i), p)
      BY <1>1, <2>2 DEF Behind
    <2> HIDE DEF From, To
    <2>6. \A i \in 1..Len(t) : t[i] \in sn => Behind(d, i, To(p))
      BY <1>2, <2>1, <2>5
    <2>7. \A i \in 1..Len(t) : t[i] \in st => t[i] \in sn \/ ~Behind(d, i, To(p))
      BY <1>2, <2>1, <2>5
    <2> QED
      BY <2>3, <2>4, <2>6, <2>7 DEF Walking
  <1> QED
    BY <1>3, <1>4 DEF Walking

\* A step returns the stored node and stores the one after it.
LEMMA WalkingSteps ==
    ASSUME NEW l, NEW s \in Seq(Nodes), Linked(l, s), Distinct(s),
           NEW d \in {"next", "prev"}, NEW a, NEW st, NEW sn, Walking(s, d, a, st, sn), a # Null,
           NEW b, b = IF d = "next" THEN l.next[a] ELSE l.prev[a]
    PROVE  Walking(s, d, b, st, sn \cup {a})
  <1>1. PICK p \in 1..Len(s) :
            /\ a = s[p]
            /\ \A i \in 1..Len(s) : s[i] \in sn => Behind(d, i, p)
            /\ \A i \in 1..Len(s) : s[i] \in st => s[i] \in sn \/ ~Behind(d, i, p)
    BY DEF Walking
  <1>2. Len(s) \in Nat /\ p \in Nat
    BY LenProperties
  <1>3. CASE d = "next"
    <2>1. b = IF p = Len(s) THEN Null ELSE s[p + 1]
      BY <1>1, <1>3 DEF Linked
    <2>2. CASE p = Len(s)
      BY <1>1, <1>2, <1>3, <2>1, <2>2 DEF Walking, Behind
    <2>3. CASE p # Len(s)
      <3>1. p + 1 \in 1..Len(s) /\ b = s[p + 1]
        BY <1>2, <2>1, <2>3
      <3>2. \A i \in 1..Len(s) : s[i] \in sn \cup {a} => Behind(d, i, p + 1)
        BY <1>1, <1>2, <1>3 DEF Behind, Distinct
      <3>3. \A i \in 1..Len(s) : s[i] \in st => s[i] \in sn \cup {a} \/ ~Behind(d, i, p + 1)
        BY <1>1, <1>2, <1>3 DEF Behind
      <3> QED
        BY <3>1, <3>2, <3>3 DEF Walking
    <2> QED
      BY <2>2, <2>3
  <1>4. CASE d = "prev"
    <2>1. b = IF p = 1 THEN Null ELSE s[p - 1]
      BY <1>1, <1>4 DEF Linked
    <2>2. CASE p = 1
      BY <1>1, <1>2, <1>4, <2>1, <2>2 DEF Walking, Behind
    <2>3. CASE p # 1
      <3>1. p - 1 \in 1..Len(s) /\ b = s[p - 1]
        BY <1>2, <2>1, <2>3
      <3>2. \A i \in 1..Len(s) : s[i] \in sn \cup {a} => Behind(d, i, p - 1)
        BY <1>1, <1>2, <1>4 DEF Behind, Distinct
      <3>3. \A i \in 1..Len(s) : s[i] \in st => s[i] \in sn \cup {a} \/ ~Behind(d, i, p - 1)
        BY <1>1, <1>2, <1>4 DEF Behind
      <3> QED
        BY <3>1, <3>2, <3>3 DEF Walking
    <2> QED
      BY <2>2, <2>3
  <1> QED
    BY <1>3, <1>4

\* The first step finds the first node, or the last one, stored.
LEMMA WalkingStarts ==
    ASSUME NEW l, NEW s \in Seq(Nodes), Linked(l, s), NEW d \in {"next", "prev"},
           NEW a, a = IF d = "next" THEN l.first ELSE l.last
    PROVE  Walking(s, d, a, ToSet(s), {})
  <1>1. Len(s) \in Nat
    BY LenProperties
  <1>2. CASE Len(s) = 0
    BY <1>2 DEF Linked, Walking
  <1>3. CASE Len(s) # 0 /\ d = "next"
    <2>1. 1 \in 1..Len(s) /\ a = s[1]
      BY <1>1, <1>3 DEF Linked
    <2>2. \A i \in 1..Len(s) : ~Behind(d, i, 1)
      BY <1>1, <1>3 DEF Behind
    <2> QED
      BY <2>1, <2>2 DEF Walking
  <1>4. CASE Len(s) # 0 /\ d = "prev"
    <2>1. Len(s) \in 1..Len(s) /\ a = s[Len(s)]
      BY <1>1, <1>4 DEF Linked
    <2>2. \A i \in 1..Len(s) : ~Behind(d, i, Len(s))
      BY <1>1, <1>4 DEF Behind
    <2> QED
      BY <2>1, <2>2 DEF Walking
  <1> QED
    BY <1>2, <1>3, <1>4

-----------------------------------------------------------------------------
(* A list that no null node has cut.                                       *)

\* TypeOK without its bound on the count, which the length of order gives.
Typed ==
    /\ list \in ListType /\ iter \in Iterators /\ dir \in {"next", "prev"}
    /\ pc \in {"use", "deleting", "gone", "abort"}
    /\ order \in Seq(Nodes) /\ start \subseteq Nodes /\ seen \subseteq Nodes
    /\ deleted \in [Nodes -> 0..1]

\* The deleter was not called on a node that is in the list, and it was called
\* on every node an iterator knew that is no longer there: so a new node is not
\* one of those.
Accounted ==
    \A n \in Nodes : /\ n \in list.live => deleted[n] = 0
                     /\ n \in start \cup seen /\ n \notin list.live => deleted[n] = 1

\* An iterator that has not started has returned nothing; one that has is
\* somewhere in the list.
Walks ==
    /\ ~iter.started => start = {} /\ seen = {}
    /\ iter.started /\ pc = "use" => Walking(order, dir, Ahead, start, seen)

\* A list is freed when it is empty.
GoneEmpty == pc = "gone" => order = <<>>

\* What a list keeps as long as no null node has cut it.
Whole ==
    /\ Typed /\ Distinct(order) /\ Linked(list, order) /\ Accounted /\ Walks /\ GoneEmpty
    /\ pc # "abort"

\* A new list is empty, and whole.
LEMMA InitKeeps == Init => Whole
  <1>1. SUFFICES ASSUME Init PROVE Whole
    OBVIOUS
  <1>2. list \in ListType
    BY <1>1 DEF Init, NewList, ListType, Pointers
  <1>3. Typed
    BY <1>1, <1>2 DEF Init, Typed, GetIterator, Iterators, Pointers
  <1>4. Distinct(order) /\ order = <<>> /\ Len(order) = 0
    BY <1>1 DEF Init, Distinct
  <1>5. Linked(list, order)
    <2>1. ToSet(order) = {}
      <3>1. ASSUME NEW x PROVE x \notin ToSet(order)
        <4>1. order \in Seq(Nodes)
          BY <1>3 DEF Typed
        <4>2. x \in ToSet(order) <=> \E i \in 1..Len(order) : x = order[i]
          BY <4>1, Elements
        <4> QED
          BY <1>4, <4>2
      <3> QED
        BY <3>1
    <2> QED
      BY <1>1, <1>4, <2>1 DEF Init, NewList, Linked
  <1>6. Accounted /\ Walks /\ GoneEmpty /\ pc # "abort"
    BY <1>1 DEF Init, NewList, GetIterator, Accounted, Walks, GoneEmpty
  <1> QED
    BY <1>3, <1>4, <1>5, <1>6 DEF Whole

\* Any insertion of a fresh node between two neighbours.
LEMMA InsertionKeeps ==
    ASSUME Whole, pc = "use", NEW n \in Fresh, NEW k \in 1..(Len(order) + 1),
           NEW pre, pre = IF k = 1 THEN Null ELSE order[k - 1],
           NEW post, post = IF k = Len(order) + 1 THEN Null ELSE order[k],
           list' = InsertBetween(list, n, pre, post), Puts(order', order, k, n),
           UNCHANGED <<iter, dir, pc, start, seen, deleted>>
    PROVE  Whole'
  <1>1. Typed /\ Distinct(order) /\ Linked(list, order) /\ Accounted /\ Walks
    BY DEF Whole
  <1>2. list \in ListType /\ order \in Seq(Nodes)
    BY <1>1 DEF Typed
  <1>3. n \in Nodes /\ n \notin list.live /\ deleted[n] = 0
    BY DEF Fresh
  <1>4. list' \in ListType /\ Linked(list', order') /\ Distinct(order')
    BY <1>1, <1>2, <1>3, InsertBetweenLinks
  <1>5. list'.live = list.live \cup {n}
    BY <1>2 DEF InsertBetween, ListType
  <1>6. Typed'
    BY <1>1, <1>4 DEF Typed, Puts
  <1>7. n \notin start /\ n \notin seen
    BY <1>1, <1>3 DEF Accounted
  <1>8. Accounted'
    BY <1>1, <1>3, <1>5, <1>7 DEF Accounted
  <1>9. Walks'
    <2>1. Ahead' = Ahead
      BY DEF Ahead
    <2>2. CASE iter.started
      <3>1. Walking(order, dir, Ahead, start, seen)
        BY <1>1, <2>2 DEF Walks
      <3>2. Walking(order', dir, Ahead, start, seen)
        BY <1>2, <1>7, <3>1, WalkingInserted
      <3> QED
        BY <2>1, <2>2, <3>2 DEF Walks, Walking
    <2>3. CASE ~iter.started
      BY <1>1, <2>3 DEF Walks
    <2> QED
      BY <2>2, <2>3
  <1>10. GoneEmpty'
    BY DEF GoneEmpty
  <1> QED
    BY <1>4, <1>6, <1>8, <1>9, <1>10 DEF Whole, Distinct

\* Any removal: of a node the iterator has returned, or when it is used no more.
LEMMA RemovalKeeps ==
    ASSUME Whole, NEW k \in 1..Len(order), Removes(order[k]),
           \/ pc = "use" /\ pc' = "use" /\ (iter.started => order[k] \in seen)
           \/ pc' = "deleting",
           UNCHANGED <<iter, dir, start, seen>>
    PROVE  Whole'
  <1> DEFINE node == order[k]
  <1> HIDE DEF node
  <1>1. Typed /\ Distinct(order) /\ Linked(list, order) /\ Accounted /\ Walks
    BY DEF Whole
  <1>2. list \in ListType /\ order \in Seq(Nodes)
    BY <1>1 DEF Typed
  <1>3. node \in Nodes /\ node \in ToSet(order) /\ node = order[k] /\ deleted[node] = 0
    <2>1. node \in Nodes /\ node \in ToSet(order) /\ node = order[k]
      BY <1>2, Elements, ElementOfSeq DEF node
    <2> QED
      BY <1>1, <2>1 DEF Accounted, Linked
  <1>4. Position(order[k]) = k
    BY <1>1, <1>2, PositionOf
  <1>5. list' = RemoveNode(list, node) /\ order' = RemoveAt(order, k)
    BY <1>3, <1>4 DEF Removes
  <1>6. deleted' = [deleted EXCEPT ![node] = @ + 1]
    BY <1>3 DEF Removes
  <1>7. Takes(order', order, k)
    <2>1. /\ RemoveAt(order, k) \in Seq(Nodes) /\ Len(RemoveAt(order, k)) = Len(order) - 1
          /\ \A i \in 1..(Len(order) - 1) :
                RemoveAt(order, k)[i] = IF i < k THEN order[i] ELSE order[i + 1]
      BY <1>2, RemovedAt
    <2> QED
      BY <1>5, <2>1 DEF Takes
  <1>8. list' \in ListType /\ Linked(list', order') /\ Distinct(order')
    BY <1>1, <1>2, <1>3, <1>5, <1>7, RemoveNodeLinks
  <1>9. list'.live = list.live \ {node}
    BY <1>2, <1>5 DEF RemoveNode, ListType
  <1>10. deleted' \in [Nodes -> 0..1] /\ \A n \in Nodes : deleted'[n] = IF n = node THEN 1 ELSE deleted[n]
    BY <1>1, <1>3, <1>6 DEF Typed
  <1>11. Typed'
    BY <1>1, <1>7, <1>8, <1>10 DEF Typed, Takes
  <1>12. Accounted'
    BY <1>1, <1>9, <1>10 DEF Accounted
  <1>13. Walks'
    <2>1. Ahead' = Ahead
      BY DEF Ahead
    <2>2. CASE iter.started /\ pc' = "use"
      <3>1. Walking(order, dir, Ahead, start, seen) /\ order[k] \in seen
        BY <1>1, <2>2 DEF Walks
      <3>2. Walking(order', dir, Ahead, start, seen)
        BY <1>2, <1>7, <3>1, WalkingRemoved
      <3> QED
        BY <2>1, <2>2, <3>2 DEF Walks, Walking
    <2>3. CASE ~iter.started \/ pc' # "use"
      BY <1>1, <2>3 DEF Walks
    <2> QED
      BY <2>2, <2>3
  <1>14. GoneEmpty'
    BY DEF GoneEmpty
  <1> QED
    BY <1>8, <1>11, <1>12, <1>13, <1>14 DEF Whole, Distinct

\* insert_before and insert_after of a node of the list, or of an empty list,
\* with a null node.
LEMMA BeforeKeeps == ASSUME Whole, Before, ~cut' PROVE Whole'
  <1>1. PICK n \in Fresh, node \in ToSet(order) \cup {Null} :
              /\ list' = InsertBefore(list, n, node)
              /\ order' = InsertAt(order, IF node = Null THEN 1 ELSE Position(node), n)
              /\ cut' = (cut \/ CutsOff(node))
    BY DEF Before
  <1>2. ~CutsOff(node)
    BY Zenon, <1>1
  <1>3. order \in Seq(Nodes) /\ Distinct(order) /\ Linked(list, order) /\ n \in Nodes
    BY DEF Whole, Typed, Fresh
  <1>4. Len(order) \in Nat /\ \A i \in 1..Len(order) : order[i] # Null
    BY <1>3, LenProperties, ElementOfSeq, NullIsNoNode
  <1>5. CASE node = Null
    <2>1. order = <<>> /\ Len(order) = 0
      BY <1>2, <1>5 DEF CutsOff
    <2>2. order' = InsertAt(order, 1, n) /\ list' = InsertBetween(list, n, Null, Null)
      BY <1>1, <1>5 DEF InsertBefore
    <2>3. Puts(order', order, 1, n)
      <3>1. 1 \in 1..(Len(order) + 1)
        BY <1>4
      <3> QED
        BY <1>3, <2>2, <3>1, InsertAtPuts
    <2> QED
      BY <2>1, <2>2, <2>3, InsertionKeeps DEF Before
  <1>6. CASE node # Null
    <2>1. PICK k \in 1..Len(order) : node = order[k]
      BY <1>1, <1>3, <1>6, Elements
    <2>2. Position(node) = k
      BY <1>3, <2>1, PositionOf
    <2>3. order' = InsertAt(order, k, n) /\ k \in 1..(Len(order) + 1) /\ k # Len(order) + 1
      BY <1>1, <1>4, <1>6, <2>2
    <2>4. list' = InsertBetween(list, n, IF k = 1 THEN Null ELSE order[k - 1], order[k])
      BY <1>1, <1>3, <1>6, <2>1 DEF InsertBefore, Linked
    <2>5. Puts(order', order, k, n)
      BY <1>3, <2>3, InsertAtPuts
    <2> QED
      BY <2>3, <2>4, <2>5, InsertionKeeps DEF Before
  <1> QED
    BY <1>5, <1>6

\* insert_after.
LEMMA AfterKeeps == ASSUME Whole, After, ~cut' PROVE Whole'
  <1>1. PICK n \in Fresh, node \in ToSet(order) \cup {Null} :
              /\ list' = InsertAfter(list, n, node)
              /\ order' = InsertAt(order, IF node = Null THEN Len(order) + 1 ELSE Position(node) + 1, n)
              /\ cut' = (cut \/ CutsOff(node))
    BY DEF After
  <1>2. ~CutsOff(node)
    BY Zenon, <1>1
  <1>3. order \in Seq(Nodes) /\ Distinct(order) /\ Linked(list, order) /\ n \in Nodes
    BY DEF Whole, Typed, Fresh
  <1>4. Len(order) \in Nat /\ \A i \in 1..Len(order) : order[i] # Null
    BY <1>3, LenProperties, ElementOfSeq, NullIsNoNode
  <1>5. CASE node = Null
    <2>1. order = <<>> /\ Len(order) = 0
      BY <1>2, <1>5 DEF CutsOff
    <2>2. order' = InsertAt(order, 1, n) /\ list' = InsertBetween(list, n, Null, Null)
      BY <1>1, <1>5, <2>1 DEF InsertAfter
    <2>3. Puts(order', order, 1, n)
      <3>1. 1 \in 1..(Len(order) + 1)
        BY <1>4
      <3> QED
        BY <1>3, <2>2, <3>1, InsertAtPuts
    <2> QED
      BY <2>1, <2>2, <2>3, InsertionKeeps DEF After
  <1>6. CASE node # Null
    <2>1. PICK k \in 1..Len(order) : node = order[k]
      BY <1>1, <1>3, <1>6, Elements
    <2>2. Position(node) = k
      BY <1>3, <2>1, PositionOf
    <2> DEFINE j == k + 1
    <2>3. order' = InsertAt(order, j, n)
      BY <1>1, <1>6, <2>2
    <2>4. j \in 1..(Len(order) + 1) /\ j # 1 /\ j - 1 = k /\ (j = Len(order) + 1 <=> k = Len(order))
      BY <1>4
    <2>5. list' = InsertBetween(list, n, order[k], IF k = Len(order) THEN Null ELSE order[k + 1])
      BY <1>1, <1>3, <1>6, <2>1 DEF InsertAfter, Linked
    <2>6. list' = InsertBetween(list, n, order[j - 1], IF j = Len(order) + 1 THEN Null ELSE order[j])
      BY <2>4, <2>5
    <2> HIDE DEF j
    <2>7. Puts(order', order, j, n)
      BY <1>3, <2>3, <2>4, InsertAtPuts
    <2> QED
      BY <2>4, <2>6, <2>7, InsertionKeeps DEF After
  <1> QED
    BY <1>5, <1>6

\* insert_first, whose node is the first of the list, or null in an empty one.
LEMMA AtFrontKeeps == ASSUME Whole, AtFront PROVE Whole'
  <1>1. PICK n \in Fresh : list' = InsertFirst(list, n) /\ order' = <<n>> \o order
    BY DEF AtFront
  <1>2. order \in Seq(Nodes) /\ Linked(list, order) /\ n \in Nodes
    BY DEF Whole, Typed, Fresh
  <1>3. Len(order) \in Nat /\ \A i \in 1..Len(order) : order[i] # Null
    BY <1>2, LenProperties, ElementOfSeq, NullIsNoNode
  <1>4. Puts(order', order, 1, n)
    BY <1>1, <1>2, ConsPuts
  <1>5. list' = InsertBetween(list, n, Null, IF 1 = Len(order) + 1 THEN Null ELSE order[1])
    <2>1. CASE Len(order) = 0
      BY <1>1, <1>2, <2>1 DEF InsertFirst, InsertBefore, Linked
    <2>2. CASE Len(order) # 0
      <3>1. list.first = order[1] /\ order[1] # Null /\ list.prev[order[1]] = Null /\ 1 # Len(order) + 1
        BY <1>2, <1>3, <2>2 DEF Linked
      <3> QED
        BY <1>1, <3>1 DEF InsertFirst, InsertBefore
    <2> QED
      BY <2>1, <2>2
  <1>6. 1 \in 1..(Len(order) + 1)
    BY <1>3
  <1> QED
    BY <1>4, <1>5, <1>6, InsertionKeeps DEF AtFront

\* insert_last, whose node is the last of the list, or null in an empty one.
LEMMA AtBackKeeps == ASSUME Whole, AtBack PROVE Whole'
  <1>1. PICK n \in Fresh : list' = InsertLast(list, n) /\ order' = Append(order, n)
    BY DEF AtBack
  <1>2. order \in Seq(Nodes) /\ Linked(list, order) /\ n \in Nodes
    BY DEF Whole, Typed, Fresh
  <1>3. Len(order) \in Nat /\ \A i \in 1..Len(order) : order[i] # Null
    BY <1>2, LenProperties, ElementOfSeq, NullIsNoNode
  <1> DEFINE k == Len(order) + 1
  <1>4. Puts(order', order, k, n)
    BY <1>1, <1>2, AppendPuts
  <1>5. list' = InsertBetween(list, n, IF k = 1 THEN Null ELSE order[k - 1], Null)
    <2>1. CASE Len(order) = 0
      BY <1>1, <1>2, <2>1 DEF InsertLast, InsertAfter, Linked
    <2>2. CASE Len(order) # 0
      <3>1. /\ list.last = order[Len(order)] /\ order[Len(order)] # Null
            /\ list.next[order[Len(order)]] = Null /\ k # 1 /\ k - 1 = Len(order)
        BY <1>2, <1>3, <2>2 DEF Linked
      <3> QED
        BY <1>1, <3>1 DEF InsertLast, InsertAfter
    <2> QED
      BY <2>1, <2>2
  <1>6. k \in 1..(Len(order) + 1)
    BY <1>3
  <1> QED
    BY <1>4, <1>5, <1>6, InsertionKeeps DEF AtBack

\* A removal while the list is used.
LEMMA RemoveOneKeeps == ASSUME Whole, RemoveOne PROVE Whole'
  <1>1. PICK node \in ToSet(order) : (iter.started => node \in seen) /\ Removes(node)
    BY DEF RemoveOne
  <1>2. order \in Seq(Nodes)
    BY DEF Whole, Typed
  <1>3. PICK k \in 1..Len(order) : node = order[k]
    BY <1>1, <1>2, Elements
  <1> QED
    BY <1>1, <1>3, RemovalKeeps DEF RemoveOne

\* A new iterator.
LEMMA IterateKeeps == ASSUME Whole, Iterate PROVE Whole'
  <1>1. iter' \in Iterators /\ ~iter'.started
    BY DEF Iterate, GetIterator, Iterators, Pointers
  <1>2. Typed'
    BY <1>1 DEF Whole, Typed, Iterate
  <1>3. Distinct(order') /\ Linked(list, order)'
    BY DEF Whole, Iterate, Distinct, Linked
  <1>4. Accounted'
    BY DEF Whole, Iterate, Accounted
  <1>5. Walks'
    BY <1>1 DEF Iterate, Walks
  <1>6. GoneEmpty' /\ pc' # "abort"
    BY DEF Whole, Iterate, GoneEmpty
  <1> QED
    BY <1>2, <1>3, <1>4, <1>5, <1>6 DEF Whole, Distinct

\* What one step of an iterator does, in either direction: it returns the node
\* that is stored, or for the first step an end of the list, and stores the one
\* that follows.
LEMMA StepEffect ==
    ASSUME Typed, Step,
           NEW cur, cur = IF iter.started THEN Ahead ELSE IF dir = "next" THEN list.first ELSE list.last
    PROVE  /\ cur \in Pointers /\ iter' \in Iterators /\ iter'.started /\ iter'.value = cur
           /\ Ahead' = IF cur = Null THEN Null ELSE IF dir = "next" THEN list.next[cur] ELSE list.prev[cur]
  <1>1. /\ iter \in [started : BOOLEAN, prev : Pointers, value : Pointers, next : Pointers]
        /\ list \in ListType /\ dir' = dir /\ Null \in Pointers
    BY DEF Typed, Iterators, Step, Pointers
  <1>2. cur \in Pointers
    BY <1>1 DEF ListType, Ahead
  <1>3. cur # Null => list.next[cur] \in Pointers /\ list.prev[cur] \in Pointers
    BY <1>1, <1>2 DEF ListType, Pointers
  <1>4. CASE dir = "next"
    <2> DEFINE i == Forward(list, iter)
    <2>1. /\ i \in Iterators /\ i.started /\ i.next = cur
      BY <1>1, <1>2, <1>4 DEF Forward, GetIterator, Iterators, Ahead
    <2>2. iter' = IF i.next = Null THEN [i EXCEPT !.value = Null]
                  ELSE [i EXCEPT !.next = list.next[i.next], !.prev = i.value, !.value = i.next]
      BY <1>4 DEF Step, IteratorNext
    <2> HIDE DEF i
    <2>3. iter' \in Iterators
      BY <1>1, <1>2, <1>3, <2>1, <2>2 DEF Iterators
    <2>4. iter'.started /\ iter'.value = cur /\ iter'.next = IF cur = Null THEN Null ELSE list.next[cur]
      BY <2>1, <2>2 DEF Iterators
    <2> QED
      BY <1>1, <1>2, <1>4, <2>3, <2>4 DEF Ahead
  <1>5. CASE dir = "prev"
    <2> DEFINE i == Backward(list, iter)
    <2>1. /\ i \in Iterators /\ i.started /\ i.prev = cur
      BY <1>1, <1>2, <1>5 DEF Backward, GetIterator, Iterators, Ahead
    <2>2. iter' = IF i.prev = Null THEN [i EXCEPT !.value = Null]
                  ELSE [i EXCEPT !.prev = list.prev[i.prev], !.next = i.value, !.value = i.prev]
      BY <1>5 DEF Step, IteratorPrev
    <2> HIDE DEF i
    <2>3. iter' \in Iterators
      BY <1>1, <1>2, <1>3, <2>1, <2>2 DEF Iterators
    <2>4. iter'.started /\ iter'.value = cur /\ iter'.prev = IF cur = Null THEN Null ELSE list.prev[cur]
      BY <2>1, <2>2 DEF Iterators
    <2> QED
      BY <1>1, <1>2, <1>5, <2>3, <2>4 DEF Ahead
  <1> QED
    BY <1>4, <1>5 DEF Typed

\* A step of the iterator.
LEMMA StepKeeps == ASSUME Whole, Step PROVE Whole'
  <1> DEFINE cur == IF iter.started THEN Ahead ELSE IF dir = "next" THEN list.first ELSE list.last
             st == IF iter.started THEN start ELSE ToSet(order)
  <1> HIDE DEF cur, st
  <1>1. Typed /\ Distinct(order) /\ Linked(list, order) /\ Accounted /\ Walks /\ pc = "use"
    BY DEF Whole, Step
  <1>2. order \in Seq(Nodes) /\ list \in ListType /\ dir \in {"next", "prev"}
    BY <1>1 DEF Typed
  <1>3. /\ cur \in Pointers /\ iter' \in Iterators /\ iter'.started /\ iter'.value = cur
        /\ Ahead' = IF cur = Null THEN Null ELSE IF dir = "next" THEN list.next[cur] ELSE list.prev[cur]
    BY <1>1, StepEffect DEF cur
  <1>4. start' = st /\ seen' = seen \cup ({cur} \ {Null})
    BY <1>3 DEF Step, st
  <1>5. UNCHANGED <<list, dir, pc, order, deleted>>
    BY DEF Step
  <1>6. Walking(order, dir, cur, st, seen)
    <2>1. CASE iter.started
      BY <1>1, <2>1 DEF Walks, cur, st
    <2>2. CASE ~iter.started
      <3>1. seen = {} /\ st = ToSet(order) /\ cur = IF dir = "next" THEN list.first ELSE list.last
        BY <1>1, <2>2 DEF Walks, cur, st
      <3>2. Walking(order, dir, cur, ToSet(order), {})
        BY <1>1, <1>2, <3>1, WalkingStarts
      <3> QED
        BY <3>1, <3>2
    <2> QED
      BY <2>1, <2>2
  <1>7. st \subseteq Nodes /\ \A n \in st : n \in start \cup list.live
    BY <1>1, <1>2 DEF Typed, Linked, ListType, st
  <1>8. cur # Null => cur \in list.live
    <2>1. ASSUME cur # Null PROVE \E p \in 1..Len(order) : cur = order[p]
      BY <1>6, <2>1 DEF Walking
    <2> QED
      BY <1>1, <1>2, <2>1, Elements DEF Linked
  <1>9. Typed'
    BY <1>1, <1>3, <1>4, <1>5, <1>7 DEF Typed, Pointers
  <1>10. Accounted'
    BY <1>1, <1>4, <1>5, <1>7, <1>8 DEF Accounted
  <1>11. Walks'
    <2>1. Walking(order, dir, Ahead', st, seen')
      <3>1. CASE cur = Null
        BY <1>3, <1>4, <1>6, <3>1 DEF Walking
      <3>2. CASE cur # Null
        <4>1. Ahead' = IF dir = "next" THEN list.next[cur] ELSE list.prev[cur]
          BY <1>3, <3>2
        <4>2. Walking(order, dir, Ahead', st, seen \cup {cur})
          BY <1>1, <1>2, <1>6, <3>2, <4>1, WalkingSteps
        <4>3. seen' = seen \cup {cur}
          BY <1>4, <3>2
        <4> QED
          BY <4>2, <4>3
      <3> QED
        BY <3>1, <3>2
    <2> QED
      BY <1>3, <1>4, <1>5, <2>1 DEF Walks, Walking
  <1>12. Distinct(order') /\ Linked(list, order)' /\ GoneEmpty' /\ pc' # "abort"
    BY <1>5 DEF Whole, Distinct, Linked, GoneEmpty
  <1> QED
    BY <1>9, <1>10, <1>11, <1>12 DEF Whole, Distinct

\* A step of cflare_linkedlist_delete: its list has a first node as long as its
\* count is not 0.
LEMMA DeleteKeeps == ASSUME Whole, Delete PROVE Whole'
  <1>1. order \in Seq(Nodes) /\ Linked(list, order) /\ Distinct(order)
    BY DEF Whole, Typed
  <1>2. Len(order) \in Nat /\ \A i \in 1..Len(order) : order[i] # Null
    BY <1>1, LenProperties, ElementOfSeq, NullIsNoNode
  <1>3. CASE list.count = 0
    <2>1. order = <<>>
      BY <1>1, <1>3, EmptySeq DEF Linked
    <2>2. pc' = "gone" /\ UNCHANGED <<list, order, deleted, iter, dir, start, seen>>
      BY <1>3 DEF Delete
    <2>3. Typed' /\ Accounted'
      BY <2>2 DEF Whole, Typed, Accounted
    <2>4. Distinct(order') /\ Linked(list, order)'
      BY <2>2 DEF Whole, Distinct, Linked
    <2>5. Walks' /\ GoneEmpty' /\ pc' # "abort"
      BY <2>1, <2>2 DEF Whole, Walks, GoneEmpty
    <2> QED
      BY <2>3, <2>4, <2>5 DEF Whole, Distinct
  <1>4. CASE list.count # 0
    <2>1. 1 \in 1..Len(order) /\ list.first = order[1] /\ list.first # Null
      BY <1>1, <1>2, <1>4 DEF Linked
    <2>2. pc' = "deleting" /\ Removes(order[1]) /\ UNCHANGED <<iter, dir, start, seen>>
      BY <1>4, <2>1 DEF Delete
    <2> QED
      BY <2>1, <2>2, RemovalKeeps
  <1> QED
    BY <1>3, <1>4

-----------------------------------------------------------------------------
(* What every list keeps, also one that a null node has cut.               *)

\* next and prev agree, also on the nodes that can be reached no more; what is
\* not allocated, and the far side of either end, is null.
Mated(l) ==
    /\ \A m, n \in Nodes : l.next[m] = n <=> l.prev[n] = m
    /\ \A n \in Nodes \ l.live : l.next[n] = Null /\ l.prev[n] = Null
    /\ l.first \in l.live \cup {Null} /\ (l.first # Null => l.prev[l.first] = Null)
    /\ l.last \in l.live \cup {Null} /\ (l.last # Null => l.next[l.last] = Null)

\* insert_between, as its callers use it, and cflare_linkedlist_remove.
LEMMA InsertBetweenMates ==
    ASSUME NEW l \in ListType, Mated(l), NEW n \in Nodes \ l.live,
           NEW pre \in l.live \cup {Null}, NEW post \in l.live \cup {Null},
           \/ pre = Null /\ post = Null
           \/ post # Null /\ pre = l.prev[post]
           \/ pre # Null /\ post = l.next[pre]
    PROVE  InsertBetween(l, n, pre, post) \in ListType /\ Mated(InsertBetween(l, n, pre, post))
  <1> DEFINE r == InsertBetween(l, n, pre, post)
  <1> HIDE DEF r
  <1>1. pre \in Pointers /\ post \in Pointers /\ n \in Nodes /\ n # Null /\ l.live \subseteq Nodes
    BY NullIsNoNode DEF Pointers, ListType
  <1>2. Gained(r, l, n, pre, post)
    BY <1>1, InsertBetweenIs DEF r
  <1>3. /\ r \in ListType /\ r.live = l.live \cup {n}
        /\ r.first = (IF pre = Null THEN n ELSE l.first)
        /\ r.last = (IF post = Null THEN n ELSE l.last)
        /\ \A m \in Nodes : r.next[m] = IF m = n THEN post ELSE IF m = pre THEN n ELSE l.next[m]
        /\ \A m \in Nodes : r.prev[m] = IF m = n THEN pre ELSE IF m = post THEN n ELSE l.prev[m]
    BY <1>2 DEF Gained
  <1>4. /\ \A m, h \in Nodes : l.next[m] = h <=> l.prev[h] = m
        /\ \A m \in Nodes \ l.live : l.next[m] = Null /\ l.prev[m] = Null
        /\ l.first \in l.live \cup {Null} /\ (l.first # Null => l.prev[l.first] = Null)
        /\ l.last \in l.live \cup {Null} /\ (l.last # Null => l.next[l.last] = Null)
    BY DEF Mated
  <1>5. pre # Null /\ post # Null => l.next[pre] = post /\ l.prev[post] = pre
    BY <1>1, <1>4
  <1>6. \A m \in Nodes : l.next[m] # n /\ l.prev[m] # n
    BY <1>1, <1>4, NullIsNoNode
  <1>7. ASSUME NEW m \in Nodes, NEW h \in Nodes PROVE r.next[m] = h <=> r.prev[h] = m
    <2>1. pre # Null /\ post = Null => l.next[pre] = Null
      BY <1>1, <1>4
    <2>2. post # Null /\ pre = Null => l.prev[post] = Null
      BY <1>1, <1>4
    <2>3. r.next[m] = IF m = n THEN post ELSE IF m = pre THEN n ELSE l.next[m]
      BY <1>3
    <2>4. r.prev[h] = IF h = n THEN pre ELSE IF h = post THEN n ELSE l.prev[h]
      BY <1>3
    <2>5. l.next[m] = h <=> l.prev[h] = m
      BY <1>4
    <2>6. m # Null /\ h # Null
      BY NullIsNoNode
    <2>7. CASE m = n
      BY <1>1, <1>6, <2>3, <2>4, <2>6, <2>7
    <2>8. CASE m # n /\ h = n
      BY <1>1, <1>6, <2>3, <2>4, <2>6, <2>8
    <2>9. CASE m # n /\ h # n
      BY <1>1, <1>4, <1>5, <2>1, <2>2, <2>3, <2>4, <2>5, <2>6, <2>9
    <2> QED
      BY <2>7, <2>8, <2>9
  <1>8. \A m \in Nodes \ r.live : r.next[m] = Null /\ r.prev[m] = Null
    BY <1>1, <1>3, <1>4, NullIsNoNode
  <1>9. r.first \in r.live \cup {Null} /\ (r.first # Null => r.prev[r.first] = Null)
    BY <1>1, <1>3, <1>4, <1>5, NullIsNoNode
  <1>10. r.last \in r.live \cup {Null} /\ (r.last # Null => r.next[r.last] = Null)
    BY <1>1, <1>3, <1>4, <1>5, NullIsNoNode
  <1>11. Mated(r)
    BY <1>7, <1>8, <1>9, <1>10 DEF Mated
  <1> QED
    BY <1>3, <1>11 DEF r

LEMMA RemoveNodeMates ==
    ASSUME NEW l \in ListType, Mated(l), NEW n \in l.live, l.count # 0
    PROVE  RemoveNode(l, n) \in ListType /\ Mated(RemoveNode(l, n))
  <1> DEFINE r == RemoveNode(l, n)
             pre == l.prev[n]
             post == l.next[n]
  <1> HIDE DEF r, pre, post
  <1>1. n \in Nodes /\ n # Null /\ l.live \subseteq Nodes
    BY NullIsNoNode DEF ListType
  <1>0. l.prev[n] = pre /\ l.next[n] = post
    BY DEF pre, post
  <1>2. /\ r \in ListType /\ r.live = l.live \ {n}
        /\ r.first = (IF pre = Null THEN post ELSE l.first)
        /\ r.last = (IF post = Null THEN pre ELSE l.last)
        /\ \A m \in Nodes : r.next[m] = IF m = n THEN Null ELSE IF m = pre THEN post ELSE l.next[m]
        /\ \A m \in Nodes : r.prev[m] = IF m = n THEN Null ELSE IF m = post THEN pre ELSE l.prev[m]
    <2>1. Lost(r, l, n, pre, post)
      BY <1>1, RemoveNodeIs DEF r, pre, post
    <2> QED
      BY <2>1 DEF Lost
  <1>3. /\ \A m, h \in Nodes : l.next[m] = h <=> l.prev[h] = m
        /\ \A m \in Nodes \ l.live : l.next[m] = Null /\ l.prev[m] = Null
        /\ l.first \in l.live \cup {Null} /\ (l.first # Null => l.prev[l.first] = Null)
        /\ l.last \in l.live \cup {Null} /\ (l.last # Null => l.next[l.last] = Null)
    BY DEF Mated
  <1>4. /\ pre \in Pointers /\ post \in Pointers
        /\ pre # Null => l.next[pre] = n
        /\ post # Null => l.prev[post] = n
    <2>1. pre \in Pointers /\ post \in Pointers /\ pre = l.prev[n] /\ post = l.next[n]
      BY <1>1 DEF pre, post, ListType
    <2> QED
      BY <1>1, <1>3, <2>1 DEF Pointers
  <1>5. \A m \in Nodes : (l.next[m] = n => m = pre) /\ (l.prev[m] = n => m = post)
    BY <1>1, <1>3 DEF pre, post
  <1>6. ASSUME NEW m \in Nodes, NEW h \in Nodes PROVE r.next[m] = h <=> r.prev[h] = m
    <2>1. r.next[m] = IF m = n THEN Null ELSE IF m = pre THEN post ELSE l.next[m]
      BY <1>2
    <2>2. r.prev[h] = IF h = n THEN Null ELSE IF h = post THEN pre ELSE l.prev[h]
      BY <1>2
    <2>3. l.next[m] = h <=> l.prev[h] = m
      BY <1>3
    <2>4. m # Null /\ h # Null
      BY NullIsNoNode
    <2>5. l.next[m] = n <=> l.prev[n] = m
      BY <1>1, <1>3
    <2>6. l.next[n] = h <=> l.prev[h] = n
      BY <1>1, <1>3
    <2>7. l.prev[n] = pre /\ l.next[n] = post
      BY DEF pre, post
    <2>8. CASE m = n \/ h = n
      <3>1. pre # n => (m = n => r.prev[h] # m)
        BY <1>4, <2>2, <2>4, <2>6, <2>7
      <3>2. post # n => (h = n => r.next[m] # h)
        BY <1>4, <2>1, <2>4, <2>5, <2>7
      <3>3. pre = n => post = n
        BY <1>1, <1>3, <2>7
      <3>4. post = n => pre = n
        BY <1>1, <1>3, <2>7
      <3> QED
        BY <1>4, <2>1, <2>2, <2>4, <2>5, <2>6, <2>7, <2>8, <3>1, <3>2, <3>3, <3>4
    <2>9. CASE m # n /\ h # n
      BY <1>4, <2>1, <2>2, <2>3, <2>4, <2>5, <2>6, <2>7, <2>9
    <2> QED
      BY <2>8, <2>9
  <1>7. \A m \in Nodes \ r.live : r.next[m] = Null /\ r.prev[m] = Null
    <2>1. SUFFICES ASSUME NEW m \in Nodes, m \notin r.live PROVE r.next[m] = Null /\ r.prev[m] = Null
      OBVIOUS
    <2>2. CASE m = n
      BY <1>2, <2>2
    <2>3. CASE m # n
      <3>1. m \notin l.live /\ l.next[m] = Null /\ l.prev[m] = Null
        BY <1>2, <1>3, <2>1, <2>3
      <3>2. m # pre /\ m # post
        BY <1>1, <1>4, <3>1, NullIsNoNode
      <3> QED
        BY <1>2, <2>3, <3>1, <3>2
    <2> QED
      BY <2>2, <2>3
  <1>8. /\ pre \in r.live \cup {Null, n} /\ post \in r.live \cup {Null, n}
        /\ pre = n <=> post = n
    <2>1. pre # Null => pre \in l.live
      BY <1>1, <1>3, <1>4 DEF Pointers
    <2>2. post # Null => post \in l.live
      BY <1>1, <1>3, <1>4 DEF Pointers
    <2>3. pre = n <=> post = n
      BY <1>1, <1>3 DEF pre, post
    <2> QED
      BY <1>2, <2>1, <2>2, <2>3
  <1>9. r.first \in r.live \cup {Null} /\ (r.first # Null => r.prev[r.first] = Null)
    <2>1. CASE pre = Null
      BY <1>1, <1>0, <1>2, <1>3, <1>4, <1>8, <2>1
    <2>2. CASE pre # Null
      <3>1. r.first = l.first /\ l.first # n
        BY <1>0, <1>1, <1>2, <1>3, <2>2
      <3> QED
        BY <1>0, <1>1, <1>2, <1>3, <1>5, <2>2, <3>1
    <2> QED
      BY <2>1, <2>2
  <1>10. r.last \in r.live \cup {Null} /\ (r.last # Null => r.next[r.last] = Null)
    <2>1. CASE post = Null
      BY <1>1, <1>0, <1>2, <1>3, <1>4, <1>8, <2>1
    <2>2. CASE post # Null
      <3>1. r.last = l.last /\ l.last # n
        BY <1>0, <1>1, <1>2, <1>3, <2>2
      <3> QED
        BY <1>0, <1>1, <1>2, <1>3, <1>5, <2>2, <3>1
    <2> QED
      BY <2>1, <2>2
  <1>11. Mated(r)
    BY <1>6, <1>7, <1>9, <1>10 DEF Mated
  <1> QED
    BY <1>2, <1>11 DEF r

\* The neighbours that an insertion gives its node.
Near(l, pre, post) ==
    /\ pre \in l.live \cup {Null} /\ post \in l.live \cup {Null}
    /\ \/ pre = Null /\ post = Null
       \/ post # Null /\ pre = l.prev[post]
       \/ pre # Null /\ post = l.next[pre]

\* What a node points to is allocated, or null.
LEMMA MatedPointers ==
    ASSUME NEW l \in ListType, Mated(l), NEW n \in Nodes
    PROVE  l.next[n] \in l.live \cup {Null} /\ l.prev[n] \in l.live \cup {Null}
  <1>1. l.next[n] \in Pointers /\ l.prev[n] \in Pointers
    BY DEF ListType
  <1>2. ASSUME NEW h \in Nodes, l.next[n] = h PROVE h \in l.live
    BY <1>2, NullIsNoNode DEF Mated
  <1>3. ASSUME NEW h \in Nodes, l.prev[n] = h PROVE h \in l.live
    BY <1>3, NullIsNoNode DEF Mated
  <1> QED
    BY <1>1, <1>2, <1>3 DEF Pointers

LEMMA BeforeIsNear ==
    ASSUME NEW l \in ListType, Mated(l), NEW n, NEW node \in l.live \cup {Null}
    PROVE  \E pre, post : Near(l, pre, post) /\ InsertBefore(l, n, node) = InsertBetween(l, n, pre, post)
  <1> DEFINE pre == IF node = Null THEN Null ELSE l.prev[node]
  <1>1. InsertBefore(l, n, node) = InsertBetween(l, n, pre, node)
    BY DEF InsertBefore
  <1>2. node # Null => node \in Nodes
    BY DEF ListType
  <1>3. Near(l, pre, node)
    BY <1>2, MatedPointers DEF Near
  <1> QED
    BY <1>1, <1>3

LEMMA AfterIsNear ==
    ASSUME NEW l \in ListType, Mated(l), NEW n, NEW node \in l.live \cup {Null}
    PROVE  \E pre, post : Near(l, pre, post) /\ InsertAfter(l, n, node) = InsertBetween(l, n, pre, post)
  <1> DEFINE post == IF node = Null THEN Null ELSE l.next[node]
  <1>1. InsertAfter(l, n, node) = InsertBetween(l, n, node, post)
    BY DEF InsertAfter
  <1>2. node # Null => node \in Nodes
    BY DEF ListType
  <1>3. Near(l, node, post)
    BY <1>2, MatedPointers DEF Near
  <1> QED
    BY <1>1, <1>3

\* The node an iterator has stored is not one that was never inserted.
AheadKnown == Ahead \in Nodes \ list.live => deleted[Ahead] = 1

Loose ==
    /\ Typed /\ Distinct(order) /\ list.live = ToSet(order) /\ list.count = Len(order)
    /\ Mated(list) /\ Accounted /\ AheadKnown /\ GoneEmpty

\* A new list is empty.
LEMMA InitLoose == Init => Loose
  <1>1. SUFFICES ASSUME Init PROVE Loose
    OBVIOUS
  <1>2. Whole
    BY <1>1, InitKeeps
  <1>3. Mated(list)
    BY <1>1, NullIsNoNode DEF Init, NewList, Mated
  <1>4. AheadKnown
    BY <1>1, NullIsNoNode DEF Init, GetIterator, Ahead, AheadKnown
  <1> QED
    BY <1>2, <1>3, <1>4 DEF Whole, Loose, Linked

\* Any insertion, and any removal.
LEMMA InsertionLoose ==
    ASSUME Loose, pc = "use", NEW n \in Fresh, NEW k \in 1..(Len(order) + 1),
           \E pre, post : Near(list, pre, post) /\ list' = InsertBetween(list, n, pre, post),
           Puts(order', order, k, n), UNCHANGED <<iter, dir, pc, start, seen, deleted>>
    PROVE  Loose'
  <1>1. PICK pre, post : Near(list, pre, post) /\ list' = InsertBetween(list, n, pre, post)
    OBVIOUS
  <1>2. /\ list \in ListType /\ Mated(list) /\ order \in Seq(Nodes) /\ Distinct(order)
        /\ n \in Nodes /\ n \notin list.live /\ deleted[n] = 0
    BY DEF Loose, Typed, Fresh
  <1>3. pre \in Pointers /\ post \in Pointers
    BY <1>1, <1>2 DEF Near, Pointers, ListType
  <1>4. list' \in ListType /\ Mated(list')
    <2>1. /\ pre \in list.live \cup {Null} /\ post \in list.live \cup {Null}
          /\ \/ pre = Null /\ post = Null
             \/ post # Null /\ pre = list.prev[post]
             \/ pre # Null /\ post = list.next[pre]
      BY <1>1 DEF Near
    <2>2. n \in Nodes \ list.live
      BY <1>2
    <2>3. InsertBetween(list, n, pre, post) \in ListType /\ Mated(InsertBetween(list, n, pre, post))
      BY <1>2, <2>1, <2>2, InsertBetweenMates
    <2> QED
      BY <1>1, <2>3
  <1>5. list'.live = list.live \cup {n} /\ list'.count = list.count + 1
    <2>1. Gained(list', list, n, pre, post)
      BY <1>1, <1>2, <1>3, InsertBetweenIs
    <2> QED
      BY <2>1 DEF Gained
  <1>6. Distinct(order') /\ ToSet(order') = ToSet(order) \cup {n} /\ order' \in Seq(Nodes) /\ Len(order') = Len(order) + 1
    <2>1. n \notin ToSet(order)
      BY <1>2 DEF Loose
    <2>2. Distinct(order') /\ ToSet(order') = ToSet(order) \cup {n}
      BY <1>2, <2>1, PutsElements
    <2> QED
      BY <2>2 DEF Puts
  <1>7. list'.live = ToSet(order') /\ list'.count = Len(order')
    BY <1>5, <1>6 DEF Loose
  <1>8. Typed'
    BY <1>4, <1>6 DEF Loose, Typed
  <1>9. Accounted'
    BY <1>2, <1>5 DEF Loose, Accounted
  <1>10. AheadKnown'
    BY <1>5 DEF Loose, AheadKnown, Ahead
  <1>11. GoneEmpty'
    BY DEF GoneEmpty
  <1> QED
    BY <1>4, <1>6, <1>7, <1>8, <1>9, <1>10, <1>11 DEF Loose, Distinct

LEMMA RemovalLoose ==
    ASSUME Loose, NEW k \in 1..Len(order), Removes(order[k]), pc' \in {"use", "deleting"},
           UNCHANGED <<iter, dir, start, seen>>
    PROVE  Loose'
  <1> DEFINE node == order[k]
  <1> HIDE DEF node
  <1>1. list \in ListType /\ Mated(list) /\ order \in Seq(Nodes) /\ Distinct(order)
    BY DEF Loose, Typed
  <1>2. node \in Nodes /\ node \in list.live /\ node = order[k] /\ deleted[node] = 0
    <2>1. node \in Nodes /\ node \in ToSet(order) /\ node = order[k]
      BY <1>1, Elements, ElementOfSeq DEF node
    <2> QED
      BY <2>1 DEF Loose, Accounted
  <1>3. Position(order[k]) = k
    BY <1>1, PositionOf
  <1>4. list' = RemoveNode(list, node) /\ order' = RemoveAt(order, k)
    BY <1>2, <1>3 DEF Removes
  <1>5. deleted' = [deleted EXCEPT ![node] = @ + 1]
    BY <1>2 DEF Removes
  <1>6. Takes(order', order, k)
    <2>1. /\ RemoveAt(order, k) \in Seq(Nodes) /\ Len(RemoveAt(order, k)) = Len(order) - 1
          /\ \A i \in 1..(Len(order) - 1) :
                RemoveAt(order, k)[i] = IF i < k THEN order[i] ELSE order[i + 1]
      BY <1>1, RemovedAt
    <2> QED
      BY <1>4, <2>1 DEF Takes
  <1>7. Distinct(order') /\ ToSet(order') = ToSet(order) \ {node}
    BY <1>1, <1>2, <1>6, TakesElements
  <1>8. Len(order) \in Nat /\ Len(order) # 0 /\ list.count # 0 /\ order' \in Seq(Nodes) /\ Len(order') = Len(order) - 1
    BY <1>1, <1>6, LenProperties DEF Takes, Loose
  <1>9. list' \in ListType /\ Mated(list')
    <2>1. RemoveNode(list, node) \in ListType /\ Mated(RemoveNode(list, node))
      BY <1>1, <1>2, <1>8, RemoveNodeMates
    <2> QED
      BY <1>4, <2>1
  <1>10. list'.live = list.live \ {node} /\ list'.count = list.count - 1
    <2>1. Lost(RemoveNode(list, node), list, node, list.prev[node], list.next[node])
      BY <1>1, <1>2, <1>8, RemoveNodeIs
    <2> QED
      BY <1>4, <2>1 DEF Lost
  <1>11. list'.live = ToSet(order') /\ list'.count = Len(order')
    BY <1>7, <1>8, <1>10 DEF Loose
  <1>12. deleted' \in [Nodes -> 0..1] /\ \A n \in Nodes : deleted'[n] = IF n = node THEN 1 ELSE deleted[n]
    BY <1>2, <1>5 DEF Loose, Typed
  <1>13. Typed'
    BY <1>8, <1>9, <1>12 DEF Loose, Typed
  <1>14. Accounted'
    BY <1>10, <1>12 DEF Loose, Accounted
  <1>15. AheadKnown'
    BY <1>10, <1>12 DEF Loose, AheadKnown, Ahead
  <1>16. GoneEmpty'
    BY DEF GoneEmpty
  <1> QED
    BY <1>7, <1>9, <1>11, <1>13, <1>14, <1>15, <1>16 DEF Loose, Distinct

\* The insertions of the four functions.
LEMMA BeforeLoose == ASSUME Loose, Before PROVE Loose'
  <1>1. PICK n \in Fresh, node \in ToSet(order) \cup {Null} :
              /\ list' = InsertBefore(list, n, node)
              /\ order' = InsertAt(order, IF node = Null THEN 1 ELSE Position(node), n)
    BY DEF Before
  <1>2. /\ order \in Seq(Nodes) /\ Distinct(order) /\ n \in Nodes /\ Len(order) \in Nat
        /\ list \in ListType /\ Mated(list) /\ node \in list.live \cup {Null}
    BY <1>1, LenProperties DEF Loose, Typed, Fresh
  <1>3. \E pre, post : Near(list, pre, post) /\ list' = InsertBetween(list, n, pre, post)
    BY <1>1, <1>2, BeforeIsNear
  <1>4. \E k \in 1..(Len(order) + 1) : order' = InsertAt(order, k, n)
    <2>1. CASE node = Null
      BY <1>1, <1>2, <2>1
    <2>2. CASE node # Null
      <3>1. PICK k \in 1..Len(order) : node = order[k]
        BY <1>1, <1>2, <2>2, Elements
      <3>2. Position(node) = k /\ k \in 1..(Len(order) + 1)
        BY <1>2, <3>1, PositionOf
      <3> QED
        BY <1>1, <2>2, <3>2
    <2> QED
      BY <2>1, <2>2
  <1>5. PICK k \in 1..(Len(order) + 1) : order' = InsertAt(order, k, n)
    BY <1>4
  <1>6. Puts(order', order, k, n)
    BY <1>2, <1>5, InsertAtPuts
  <1> QED
    BY <1>3, <1>6, InsertionLoose DEF Before

LEMMA AfterLoose == ASSUME Loose, After PROVE Loose'
  <1>1. PICK n \in Fresh, node \in ToSet(order) \cup {Null} :
              /\ list' = InsertAfter(list, n, node)
              /\ order' = InsertAt(order, IF node = Null THEN Len(order) + 1 ELSE Position(node) + 1, n)
    BY DEF After
  <1>2. /\ order \in Seq(Nodes) /\ Distinct(order) /\ n \in Nodes /\ Len(order) \in Nat
        /\ list \in ListType /\ Mated(list) /\ node \in list.live \cup {Null}
    BY <1>1, LenProperties DEF Loose, Typed, Fresh
  <1>3. \E pre, post : Near(list, pre, post) /\ list' = InsertBetween(list, n, pre, post)
    BY <1>1, <1>2, AfterIsNear
  <1>4. \E k \in 1..(Len(order) + 1) : order' = InsertAt(order, k, n)
    <2>1. CASE node = Null
      BY <1>1, <1>2, <2>1
    <2>2. CASE node # Null
      <3>1. PICK k \in 1..Len(order) : node = order[k]
        BY <1>1, <1>2, <2>2, Elements
      <3>2. Position(node) = k /\ k + 1 \in 1..(Len(order) + 1)
        BY <1>2, <3>1, PositionOf
      <3> QED
        BY <1>1, <2>2, <3>2
    <2> QED
      BY <2>1, <2>2
  <1>5. PICK k \in 1..(Len(order) + 1) : order' = InsertAt(order, k, n)
    BY <1>4
  <1>6. Puts(order', order, k, n)
    BY <1>2, <1>5, InsertAtPuts
  <1> QED
    BY <1>3, <1>6, InsertionLoose DEF After

LEMMA AtFrontLoose == ASSUME Loose, AtFront PROVE Loose'
  <1>1. PICK n \in Fresh : list' = InsertBefore(list, n, list.first) /\ order' = <<n>> \o order
    BY DEF AtFront, InsertFirst
  <1>2. /\ order \in Seq(Nodes) /\ n \in Nodes /\ Len(order) \in Nat
        /\ list \in ListType /\ Mated(list) /\ list.first \in list.live \cup {Null}
    BY LenProperties DEF Loose, Typed, Fresh, Mated
  <1>3. \E pre, post : Near(list, pre, post) /\ list' = InsertBetween(list, n, pre, post)
    BY <1>1, <1>2, BeforeIsNear
  <1>4. Puts(order', order, 1, n)
    BY <1>1, <1>2, ConsPuts
  <1>5. 1 \in 1..(Len(order) + 1)
    BY <1>2
  <1> QED
    BY <1>3, <1>4, <1>5, InsertionLoose DEF AtFront

LEMMA AtBackLoose == ASSUME Loose, AtBack PROVE Loose'
  <1>1. PICK n \in Fresh : list' = InsertAfter(list, n, list.last) /\ order' = Append(order, n)
    BY DEF AtBack, InsertLast
  <1>2. /\ order \in Seq(Nodes) /\ n \in Nodes /\ Len(order) \in Nat
        /\ list \in ListType /\ Mated(list) /\ list.last \in list.live \cup {Null}
    BY LenProperties DEF Loose, Typed, Fresh, Mated
  <1>3. \E pre, post : Near(list, pre, post) /\ list' = InsertBetween(list, n, pre, post)
    BY <1>1, <1>2, AfterIsNear
  <1>4. Puts(order', order, Len(order) + 1, n)
    BY <1>1, <1>2, AppendPuts
  <1>5. Len(order) + 1 \in 1..(Len(order) + 1)
    BY <1>2
  <1> QED
    BY <1>3, <1>4, <1>5, InsertionLoose DEF AtBack

\* A step of the iterator, also from a node that was freed.
LEMMA StepLoose == ASSUME Loose, Step PROVE Loose'
  <1> DEFINE cur == IF iter.started THEN Ahead ELSE IF dir = "next" THEN list.first ELSE list.last
  <1> HIDE DEF cur
  <1>1. /\ Typed /\ list \in ListType /\ Mated(list) /\ order \in Seq(Nodes)
        /\ list.live = ToSet(order) /\ list.live \subseteq Nodes
    BY DEF Loose, Typed, ListType
  <1>2. /\ cur \in Pointers /\ iter' \in Iterators /\ iter'.started /\ iter'.value = cur
        /\ Ahead' = IF cur = Null THEN Null ELSE IF dir = "next" THEN list.next[cur] ELSE list.prev[cur]
    BY <1>1, StepEffect DEF cur
  <1>3. UNCHANGED <<list, dir, pc, order, deleted>> /\ seen' = seen \cup ({cur} \ {Null})
    BY <1>2 DEF Step
  <1>4. \A n \in start' : n \in start \cup list.live
    BY <1>1 DEF Step
  <1>5. cur \in Nodes \ list.live => deleted[cur] = 1
    <2>1. CASE iter.started
      BY <2>1 DEF cur, Loose, AheadKnown
    <2>2. CASE ~iter.started
      BY <1>1, <2>2, NullIsNoNode DEF cur, Mated
    <2> QED
      BY <2>1, <2>2
  <1>6. Ahead' \in list.live \cup {Null}
    BY <1>1, <1>2, MatedPointers DEF Pointers
  <1>7. Typed'
    BY <1>1, <1>2, <1>3, <1>4 DEF Typed, Pointers
  <1>8. Accounted'
    BY <1>1, <1>3, <1>4, <1>5 DEF Loose, Accounted
  <1>9. AheadKnown'
    <2>1. list'.live = list.live /\ Null \notin Nodes
      BY <1>3, NullIsNoNode
    <2> QED
      BY <1>6, <2>1 DEF AheadKnown
  <1>10. Distinct(order') /\ list'.live = ToSet(order') /\ list'.count = Len(order') /\ Mated(list') /\ GoneEmpty'
    BY <1>3 DEF Loose, Distinct, GoneEmpty
  <1> QED
    BY <1>7, <1>8, <1>9, <1>10 DEF Loose, Distinct

\* A new iterator.
LEMMA IterateLoose == ASSUME Loose, Iterate PROVE Loose'
  <1>1. UNCHANGED <<list, pc, order, deleted>> /\ start' = {} /\ seen' = {}
    BY DEF Iterate
  <1>2. iter' \in Iterators /\ iter'.next = Null /\ iter'.prev = Null /\ dir' \in {"next", "prev"}
    BY DEF Iterate, GetIterator, Iterators, Pointers
  <1>3. Typed'
    BY <1>1, <1>2 DEF Loose, Typed
  <1>4. Accounted'
    BY <1>1 DEF Loose, Accounted
  <1>5. AheadKnown'
    BY <1>2, NullIsNoNode DEF AheadKnown, Ahead
  <1>6. Distinct(order') /\ list'.live = ToSet(order') /\ list'.count = Len(order') /\ Mated(list') /\ GoneEmpty'
    BY <1>1 DEF Loose, Distinct, GoneEmpty
  <1> QED
    BY <1>3, <1>4, <1>5, <1>6 DEF Loose, Distinct

\* A step of cflare_linkedlist_delete: what it removes is allocated.
LEMMA DeleteLoose == ASSUME Loose, Delete PROVE Loose'
  <1>1. /\ order \in Seq(Nodes) /\ Len(order) \in Nat /\ list.count = Len(order)
        /\ list.live = ToSet(order) /\ list.first \in list.live \cup {Null}
    BY LenProperties DEF Loose, Typed, Mated
  <1>2. CASE list.count = 0
    <2>1. order = <<>>
      BY <1>1, <1>2, EmptySeq
    <2>2. pc' = "gone" /\ UNCHANGED <<list, order, deleted, iter, dir, start, seen>>
      BY <1>2 DEF Delete
    <2>3. Typed' /\ Accounted' /\ AheadKnown' /\ Mated(list')
      BY <2>2 DEF Loose, Typed, Accounted, AheadKnown, Ahead
    <2>4. Distinct(order') /\ list'.live = ToSet(order') /\ list'.count = Len(order')
      BY <2>2 DEF Loose, Distinct
    <2>5. GoneEmpty'
      BY <2>1, <2>2 DEF GoneEmpty
    <2> QED
      BY <2>3, <2>4, <2>5 DEF Loose, Distinct
  <1>3. CASE list.count # 0 /\ list.first = Null
    <2>1. pc' = "abort" /\ UNCHANGED <<list, order, deleted, iter, dir, start, seen>>
      BY <1>3 DEF Delete
    <2>2. Typed' /\ Accounted' /\ AheadKnown' /\ Mated(list')
      BY <2>1 DEF Loose, Typed, Accounted, AheadKnown, Ahead
    <2>3. Distinct(order') /\ list'.live = ToSet(order') /\ list'.count = Len(order') /\ GoneEmpty'
      BY <2>1 DEF Loose, Distinct, GoneEmpty
    <2> QED
      BY <2>2, <2>3 DEF Loose, Distinct
  <1>4. CASE list.count # 0 /\ list.first # Null
    <2>1. pc' = "deleting" /\ Removes(list.first) /\ UNCHANGED <<iter, dir, start, seen>>
      BY <1>4 DEF Delete
    <2>2. PICK k \in 1..Len(order) : list.first = order[k]
      BY <1>1, <1>4, Elements
    <2> QED
      BY <2>1, <2>2, RemovalLoose
  <1> QED
    BY <1>2, <1>3, <1>4

\* A removal while the list is used.
LEMMA RemoveOneLoose == ASSUME Loose, RemoveOne PROVE Loose'
  <1>1. PICK node \in ToSet(order) : Removes(node)
    BY DEF RemoveOne
  <1>2. PICK k \in 1..Len(order) : node = order[k]
    BY <1>1, Elements DEF Loose, Typed
  <1> QED
    BY <1>1, <1>2, RemovalLoose DEF RemoveOne

-----------------------------------------------------------------------------
(* The inductive invariant.                                                *)

Inv == Loose /\ (~cut => Whole) /\ cut \in BOOLEAN

\* The invariant is inductive.
LEMMA NextKeeps == ASSUME Inv, [Next]_vars PROVE Inv'
  <1>1. CASE Next
    <2>1. Loose'
      BY <1>1, BeforeLoose, AfterLoose, AtFrontLoose, AtBackLoose, RemoveOneLoose, IterateLoose,
         StepLoose, DeleteLoose DEF Next, Inv
    <2>2. (cut => cut') /\ cut' \in BOOLEAN
      <3>1. cut' = cut \/ \E node \in ToSet(order) \cup {Null} : cut' = (cut \/ CutsOff(node))
        BY <1>1 DEF Next, Before, After, AtFront, AtBack, RemoveOne, Iterate, Step, Delete
      <3>2. cut \in BOOLEAN
        BY DEF Inv
      <3>3. CASE cut' = cut
        BY <3>2, <3>3
      <3>4. ASSUME NEW node, cut' = (cut \/ CutsOff(node)) PROVE (cut => cut') /\ cut' \in BOOLEAN
        BY Zenon, <3>4
      <3> QED
        BY Zenon, <3>1, <3>3, <3>4
    <2>3. ASSUME ~cut' PROVE Whole'
      <3>1. Whole
        BY <2>2, <2>3 DEF Inv
      <3> QED
        BY <1>1, <2>3, <3>1, BeforeKeeps, AfterKeeps, AtFrontKeeps, AtBackKeeps, RemoveOneKeeps,
           IterateKeeps, StepKeeps, DeleteKeeps DEF Next
    <2> QED
      BY <2>1, <2>2, <2>3 DEF Inv
  <1>2. CASE UNCHANGED vars
    <2>1. Typed' <=> Typed
      BY <1>2 DEF vars, Typed
    <2>2. (Accounted' <=> Accounted) /\ (GoneEmpty' <=> GoneEmpty) /\ (AheadKnown' <=> AheadKnown)
      BY <1>2 DEF vars, Accounted, GoneEmpty, AheadKnown, Ahead
    <2>3. Walks' <=> Walks
      BY <1>2 DEF vars, Walks, Walking, Ahead
    <2>4. UNCHANGED <<list, order, pc, cut>>
      BY <1>2 DEF vars
    <2>5. Loose'
      BY <2>1, <2>2, <2>4 DEF Inv, Loose, Distinct
    <2>6. Whole => Whole'
      BY <2>1, <2>2, <2>3, <2>4 DEF Whole, Distinct
    <2> QED
      BY <2>4, <2>5, <2>6 DEF Inv
  <1> QED
    BY <1>1, <1>2

-----------------------------------------------------------------------------
(* The theorems.                                                           *)

\* The invariant holds in every state of a list.
THEOREM ListInvariant == Spec => []Inv
  <1>1. Init => Inv
    BY InitKeeps, InitLoose DEF Init, Inv
  <1>2. Inv /\ [Next]_vars => Inv'
    BY NextKeeps
  <1> QED
    BY <1>1, <1>2, PTL DEF Spec

\* After every insertion and removal, wherever, the list has allocated and
\* counts the nodes inserted and not removed; and unless a null node was given
\* for a list that was not empty, it has them, read from either end, in the
\* order the documentation promises.
THEOREM ListsStayLinked == Spec => []WellLinked
  <1>1. Inv => WellLinked
    BY DEF Inv, Loose, Whole, Linked, WellLinked
  <1> QED
    BY <1>1, ListInvariant, PTL

\* The node an iterator has stored was not freed, although its current node and
\* the ones it traversed may have been, as long as no null node has cut the list.
THEOREM IteratorsContinueSafely == Spec => []ContinuesSafely
  <1>1. Inv => ContinuesSafely
    <2>1. SUFFICES ASSUME Inv, ~cut, iter.started, pc = "use" PROVE Ahead \in list.live \cup {Null}
      BY DEF ContinuesSafely
    <2>2. Walking(order, dir, Ahead, start, seen) /\ order \in Seq(Nodes) /\ list.live = ToSet(order)
      BY <2>1 DEF Inv, Whole, Walks, Typed, Linked
    <2>3. Ahead = Null \/ \E p \in 1..Len(order) : Ahead = order[p]
      BY <2>2 DEF Walking
    <2> QED
      BY <2>2, <2>3, Elements
  <1> QED
    BY <1>1, ListInvariant, PTL

\* An iterator returns every node that was in the list when it started and that
\* is not removed before it gets there, as long as no null node has cut the list.
THEOREM IteratorsMissNothing == Spec => []VisitsAll
  <1>1. Inv => VisitsAll
    <2>1. SUFFICES ASSUME Inv, ~cut, iter.started, pc = "use", NEW n \in start \cap ToSet(order), n \notin seen
                   PROVE  Ahead # Null /\ Beyond(n)
      BY DEF VisitsAll
    <2>2. Walking(order, dir, Ahead, start, seen) /\ order \in Seq(Nodes) /\ Distinct(order)
      BY <2>1 DEF Inv, Whole, Walks, Typed
    <2>3. PICK k \in 1..Len(order) : n = order[k]
      BY <2>1, <2>2, Elements
    <2>4. PICK p \in 1..Len(order) :
             /\ Ahead = order[p]
             /\ \A i \in 1..Len(order) : order[i] \in start => order[i] \in seen \/ ~Behind(dir, i, p)
      BY <2>1, <2>2, <2>3 DEF Walking
    <2>5. Position(n) = k /\ Position(Ahead) = p
      BY <2>2, <2>3, <2>4, PositionOf
    <2>6. Ahead # Null
      BY <2>2, <2>4, ElementOfSeq, NullIsNoNode
    <2>7. ~Behind(dir, k, p) /\ Len(order) \in Nat
      BY <2>1, <2>2, <2>3, <2>4, LenProperties
    <2>8. Beyond(n)
      BY <2>5, <2>7 DEF Beyond, Behind
    <2> QED
      BY <2>6, <2>8
  <1> QED
    BY <1>1, ListInvariant, PTL

\* Deleting a list leaves no node, and gives none to the deleter twice or while it
\* is still in the list; and the assertion of cflare_linkedlist_remove fails on the
\* way only when a null node has cut the list.
THEOREM DeletionFreesAll == Spec => []DeletesAll
  <1>1. Inv => DeletesAll
    <2>1. SUFFICES ASSUME Inv PROVE DeletesAll
      OBVIOUS
    <2>2. pc = "abort" => cut
      BY <2>1 DEF Inv, Whole
    <2>3. ASSUME pc = "gone" PROVE list.live = {}
      <3>1. order \in Seq(Nodes) /\ Len(order) = 0 /\ list.live = ToSet(order)
        BY <2>1, <2>3 DEF Inv, Loose, GoneEmpty, Typed
      <3>2. ASSUME NEW x PROVE x \notin ToSet(order)
        <4>1. order \in Seq(Nodes)
          BY <3>1
        <4>2. x \in ToSet(order) <=> \E i \in 1..Len(order) : x = order[i]
          BY <4>1, Elements
        <4> QED
          BY <3>1, <4>2
      <3> QED
        BY <3>1, <3>2
    <2>4. \A n \in Nodes : deleted[n] \in 0..1 /\ (n \in list.live => deleted[n] = 0)
      BY <2>1 DEF Inv, Loose, Typed, Accounted
    <2>5. ASSUME NEW n \in Nodes PROVE deleted[n] <= (IF n \in list.live THEN 0 ELSE 1)
      <3>1. CASE n \in list.live
        BY <2>4, <3>1
      <3>2. CASE n \notin list.live
        BY <2>4, <3>2
      <3> QED
        BY <3>1, <3>2
    <2> QED
      BY <2>2, <2>3, <2>5 DEF DeletesAll
  <1> QED
    BY <1>1, ListInvariant, PTL

\* With finitely many nodes every variable keeps its type: the count in
\* particular is not more than there are nodes.
THEOREM ListTypeCorrect == ASSUME IsFiniteSet(Nodes) PROVE Spec => []TypeOK
  <1>1. Inv => TypeOK
    <2>1. SUFFICES ASSUME Inv PROVE TypeOK
      OBVIOUS
    <2>2. /\ Typed /\ order \in Seq(Nodes) /\ Distinct(order) /\ list.count = Len(order)
          /\ list.live = ToSet(order) /\ Len(order) \in Nat
      BY <2>1, LenProperties DEF Inv, Loose, Typed
    <2>3. order \in Injection(1..Len(order), Nodes)
      <3>1. order \in [1..Len(order) -> Nodes]
        BY <2>2, LenProperties
      <3> QED
        BY <2>2, <3>1 DEF Injection, IsInjective, Distinct
    <2>4. Cardinality(1..Len(order)) = Len(order)
      <3>1. Len(order) \in Int /\ 1 \in Int
        BY <2>2
      <3>2. Cardinality(1..Len(order)) = IF 1 > Len(order) THEN 0 ELSE Len(order) - 1 + 1
        BY <3>1, FS_Interval
      <3> QED
        BY <2>2, <3>2
    <2>5. Cardinality(1..Len(order)) <= Cardinality(Nodes) /\ Cardinality(Nodes) \in Nat
      BY <2>3, FS_Injection, FS_CardinalityType
    <2>6. list.count \in 0..Cardinality(Nodes)
      BY <2>2, <2>4, <2>5
    <2>7. list \in Lists
      BY <2>2, <2>6 DEF Typed, ListType, Lists
    <2> QED
      BY <2>1, <2>2, <2>7 DEF Inv, Typed, TypeOK
  <1> QED
    BY <1>1, ListInvariant, PTL

-----------------------------------------------------------------------------
(* Walks over a list that does not change, as get_elm makes them.          *)

\* The node at position j of s, a null pointer outside.
NodeAt(s, j) == IF j \in 1..Len(s) THEN s[j] ELSE Null

\* A set of numbers with an element has a least one.
LEMMA LeastElement ==
    ASSUME NEW T \in SUBSET Nat, T # {}
    PROVE  \E x \in T : \A y \in T : x <= y
  <1>1. PICK x \in T : \A y \in T : ~(<<y, x>> \in OpToRel(<, Nat))
    BY NatLessThanWellFounded, WFMin
  <1>2. \A y \in T : ~(y < x)
    BY <1>1 DEF OpToRel
  <1>3. QED
    BY <1>2

\* The iterator after i steps forward over the nodes of s.
StepsOn(s, i) ==
    IF i = 0 THEN GetIterator
    ELSE [started |-> TRUE, value |-> NodeAt(s, i), next |-> NodeAt(s, i + 1),
          prev |-> NodeAt(s, (IF i <= Len(s) THEN i ELSE Len(s)) - 1)]

\* The node after one of a list.
LEMMA NextNode ==
    ASSUME NEW l, NEW s \in Seq(Nodes), Linked(l, s), NEW j \in Nat, NodeAt(s, j) # Null
    PROVE  l.next[NodeAt(s, j)] = NodeAt(s, j + 1) /\ j \in 1..Len(s)
  <1>1. Len(s) \in Nat
    BY LenProperties
  <1>2. j \in 1..Len(s) /\ NodeAt(s, j) = s[j]
    BY DEF NodeAt
  <1>3. l.next[s[j]] = IF j = Len(s) THEN Null ELSE s[j + 1]
    BY <1>2 DEF Linked
  <1> QED
    BY <1>1, <1>2, <1>3 DEF NodeAt

\* The nodes of a sequence are no null pointers.
LEMMA NodeIsNotNull ==
    ASSUME NEW s \in Seq(Nodes), NEW j \in Int
    PROVE  NodeAt(s, j) # Null <=> j \in 1..Len(s)
  BY ElementOfSeq, NullIsNoNode DEF NodeAt

\* The two ends of a list.
LEMMA FirstNode ==
    ASSUME NEW l, NEW s \in Seq(Nodes), Linked(l, s)
    PROVE  l.first = NodeAt(s, 1) /\ l.last = NodeAt(s, Len(s))
  <1>1. Len(s) \in Nat
    BY LenProperties
  <1> QED
    BY <1>1 DEF Linked, NodeAt

\* An iterator is its fields.
LEMMA SameIterator ==
    ASSUME NEW a \in Iterators, NEW b \in Iterators,
           a.started = b.started, a.prev = b.prev, a.value = b.value, a.next = b.next
    PROVE  a = b
  BY DEF Iterators

\* iterator_next, field by field.
LEMMA NextIs ==
    ASSUME NEW l \in ListType, NEW it \in Iterators,
           NEW n, n = IF it.started THEN it.next ELSE l.first,
           NEW v, v = IF it.started THEN it.value ELSE Null,
           NEW p, p = IF it.started THEN it.prev ELSE Null
    PROVE  /\ IteratorNext(l, it) \in Iterators /\ IteratorNext(l, it).started
           /\ IteratorNext(l, it).value = n
           /\ IteratorNext(l, it).next = IF n = Null THEN Null ELSE l.next[n]
           /\ IteratorNext(l, it).prev = IF n = Null THEN p ELSE v
  <1> DEFINE i == Forward(l, it)
             r == IteratorNext(l, it)
  <1>1. n \in Pointers /\ v \in Pointers /\ p \in Pointers /\ Null \in Pointers
    BY DEF ListType, Iterators, Pointers
  <1>2. n # Null => l.next[n] \in Pointers
    BY <1>1 DEF ListType, Pointers
  <1>3. i \in Iterators /\ i.started /\ i.next = n /\ i.value = v /\ i.prev = p
    BY <1>1 DEF Forward, GetIterator, Iterators
  <1>4. r = IF i.next = Null THEN [i EXCEPT !.value = Null]
            ELSE [i EXCEPT !.next = l.next[i.next], !.prev = i.value, !.value = i.next]
    BY DEF IteratorNext
  <1> HIDE DEF i, r
  <1>5. r \in Iterators
    BY <1>1, <1>2, <1>3, <1>4 DEF Iterators
  <1>6. /\ r.started /\ r.value = n
        /\ r.next = IF n = Null THEN Null ELSE l.next[n]
        /\ r.prev = IF n = Null THEN p ELSE v
    BY <1>3, <1>4 DEF Iterators
  <1> QED
    BY <1>5, <1>6 DEF r

\* The iterator has its type.
LEMMA StepsOnTyped ==
    ASSUME NEW s \in Seq(Nodes), NEW i \in Nat
    PROVE  StepsOn(s, i) \in Iterators
  <1>1. \A j \in Int : NodeAt(s, j) \in Pointers
    BY ElementOfSeq DEF NodeAt, Pointers
  <1>2. i + 1 \in Int /\ (IF i <= Len(s) THEN i ELSE Len(s)) - 1 \in Int
    BY LenProperties
  <1>3. NodeAt(s, i) \in Pointers /\ NodeAt(s, i + 1) \in Pointers
        /\ NodeAt(s, (IF i <= Len(s) THEN i ELSE Len(s)) - 1) \in Pointers /\ Null \in Pointers
    BY <1>1, <1>2 DEF Pointers
  <1> QED
    BY <1>3 DEF StepsOn, Iterators, GetIterator

\* iterator_next makes one more step.
LEMMA StepForward ==
    ASSUME NEW l \in ListType, NEW s \in Seq(Nodes), Linked(l, s), NEW i \in Nat \ {0}
    PROVE  IteratorNext(l, StepsOn(s, i - 1)) = StepsOn(s, i)
  <1> DEFINE it == StepsOn(s, i - 1)
             r == IteratorNext(l, it)
             n == NodeAt(s, i)
             v == NodeAt(s, i - 1)
             p == NodeAt(s, (IF i - 1 <= Len(s) THEN i - 1 ELSE Len(s)) - 1)
  <1>1. Len(s) \in Nat /\ i \in Nat /\ i - 1 \in Nat
    BY LenProperties
  <1>2. it \in Iterators
    BY <1>1, StepsOnTyped
  <1>3. /\ n = IF it.started THEN it.next ELSE l.first
        /\ v = IF it.started THEN it.value ELSE Null
        /\ p = IF it.started THEN it.prev ELSE Null
    <2>1. CASE i = 1
      <3>1. NodeAt(s, i - 1) = Null /\ p = Null
        BY <1>1, <2>1 DEF NodeAt
      <3>2. ~it.started
        BY <2>1 DEF StepsOn, GetIterator
      <3>3. l.first = n
        BY <2>1, FirstNode
      <3> QED
        BY <3>1, <3>2, <3>3
    <2>2. CASE i # 1
      <3>1. i - 1 # 0 /\ (i - 1) + 1 = i
        BY <2>2
      <3>2. it.started /\ it.value = v /\ it.prev = p /\ it.next = NodeAt(s, (i - 1) + 1)
        BY <3>1 DEF StepsOn
      <3> QED
        BY <3>1, <3>2
    <2> QED
      BY <2>1, <2>2
  <1> HIDE DEF it, n, v, p
  <1>4. /\ r \in Iterators /\ r.started /\ r.value = n
        /\ r.next = IF n = Null THEN Null ELSE l.next[n]
        /\ r.prev = IF n = Null THEN p ELSE v
    BY <1>2, <1>3, NextIs
  <1> HIDE DEF r
  <1> DEFINE u == StepsOn(s, i)
  <1>5. /\ u \in Iterators /\ u.started /\ u.value = NodeAt(s, i) /\ u.next = NodeAt(s, i + 1)
        /\ u.prev = NodeAt(s, (IF i <= Len(s) THEN i ELSE Len(s)) - 1)
    <2>1. u \in Iterators
      BY StepsOnTyped
    <2> QED
      BY <2>1 DEF StepsOn
  <1> HIDE DEF u
  <1>6. r.next = u.next
    <2>1. CASE n = Null
      <3>1. NodeAt(s, i + 1) = Null
        BY <1>1, <2>1, NodeIsNotNull DEF n
      <3> QED
        BY <1>4, <1>5, <2>1, <3>1
    <2>2. CASE n # Null
      BY <1>4, <1>5, <2>2, NextNode DEF n
    <2> QED
      BY <2>1, <2>2
  <1>7. r.prev = u.prev
    <2>1. CASE n = Null
      <3>1. i > Len(s)
        BY <1>1, <2>1, NodeIsNotNull DEF n
      <3>2. p = u.prev
        BY <1>1, <1>5, <3>1 DEF p
      <3> QED
        BY <1>4, <2>1, <3>2
    <2>2. CASE n # Null
      <3>1. i <= Len(s)
        BY <1>1, <2>2, NodeIsNotNull DEF n
      <3> QED
        BY <1>4, <1>5, <2>2, <3>1 DEF v
    <2> QED
      BY <2>1, <2>2
  <1>8. r.started = u.started
    <2>1. r.started \in BOOLEAN /\ u.started \in BOOLEAN
      BY <1>4, <1>5 DEF Iterators
    <2> QED
      BY <1>4, <1>5, <2>1
  <1>9. r.value = u.value
    BY <1>4, <1>5 DEF n
  <1>10. r = u
    BY <1>4, <1>5, <1>6, <1>7, <1>8, <1>9, SameIterator
  <1> QED
    BY <1>10 DEF r, u, it

\* f holds the iterators of k steps forward.
StepsOf(f, k) == f = [i \in 0..k |-> IF i = 0 THEN GetIterator ELSE IteratorNext(elements, f[i - 1])]

\* Walked is the iterator after k steps: a function with these values satisfies
\* the recursion, and there is no least step at which another would differ.
LEMMA WalkedIs ==
    ASSUME elements \in ListType, NEW s \in Seq(Nodes), Linked(elements, s), NEW k \in Nat
    PROVE  Walked(k) = StepsOn(s, k)
  <1> DEFINE g == [i \in 0..k |-> StepsOn(s, i)]
  <1>1. Walked(k) = (CHOOSE f : StepsOf(f, k))[k]
    BY DEF Walked, StepsOf
  <1>2. StepsOf(g, k)
    <2>1. ASSUME NEW i \in 0..k, i # 0 PROVE StepsOn(s, i) = IteratorNext(elements, g[i - 1])
      <3>1. i - 1 \in 0..k /\ i \in Nat \ {0}
        BY <2>1
      <3> QED
        BY <3>1, StepForward
    <2>2. g = [i \in 0..k |-> IF i = 0 THEN GetIterator ELSE IteratorNext(elements, g[i - 1])]
      <3>1. ASSUME NEW i \in 0..k
            PROVE  StepsOn(s, i) = IF i = 0 THEN GetIterator ELSE IteratorNext(elements, g[i - 1])
        BY <2>1 DEF StepsOn
      <3> HIDE DEF g
      <3>2. g = [i \in 0..k |-> StepsOn(s, i)]
        BY DEF g
      <3> QED
        BY <3>1, <3>2, Zenon
    <2> QED
      BY <2>2 DEF StepsOf
  <1> HIDE DEF g
  <1>3. PICK f : StepsOf(f, k) /\ Walked(k) = f[k]
    BY <1>1, <1>2
  <1> DEFINE T == {i \in 0..k : f[i] # StepsOn(s, i)}
  <1>4. T = {}
    <2>1. SUFFICES ASSUME T # {} PROVE FALSE
      OBVIOUS
    <2>2. PICK i \in T : \A j \in T : i <= j
      <3>1. T \in SUBSET Nat
        OBVIOUS
      <3> HIDE DEF T
      <3> QED
        BY <2>1, <3>1, LeastElement
    <2>3. i \in 0..k /\ f[i] # StepsOn(s, i)
      BY <2>2
    <2>4. f[i] = IF i = 0 THEN GetIterator ELSE IteratorNext(elements, f[i - 1])
      BY <1>3, <2>3 DEF StepsOf
    <2>5. i # 0
      BY <2>3, <2>4 DEF StepsOn
    <2>6. i - 1 \in 0..k /\ i - 1 \notin T /\ i \in Nat \ {0}
      BY <2>2, <2>3, <2>5
    <2>7. f[i - 1] = StepsOn(s, i - 1)
      BY <2>6
    <2> QED
      BY <2>3, <2>4, <2>5, <2>6, <2>7, StepForward
  <1> QED
    BY <1>3, <1>4

\* The iterator after i steps back over the nodes of s.
StepsBack(s, i) ==
    IF i = 0 THEN GetIterator
    ELSE [started |-> TRUE, value |-> NodeAt(s, Len(s) + 1 - i), prev |-> NodeAt(s, Len(s) - i),
          next |-> NodeAt(s, Len(s) + 2 - (IF i <= Len(s) THEN i ELSE Len(s)))]

\* The node before one of a list.
LEMMA PrevNode ==
    ASSUME NEW l, NEW s \in Seq(Nodes), Linked(l, s), NEW j \in Int, NodeAt(s, j) # Null
    PROVE  l.prev[NodeAt(s, j)] = NodeAt(s, j - 1) /\ j \in 1..Len(s)
  <1>1. Len(s) \in Nat
    BY LenProperties
  <1>2. j \in 1..Len(s) /\ NodeAt(s, j) = s[j]
    BY DEF NodeAt
  <1>3. l.prev[s[j]] = IF j = 1 THEN Null ELSE s[j - 1]
    BY <1>2 DEF Linked
  <1> QED
    BY <1>1, <1>2, <1>3 DEF NodeAt

\* iterator_prev, field by field.
LEMMA PrevIs ==
    ASSUME NEW l \in ListType, NEW it \in Iterators,
           NEW n, n = IF it.started THEN it.prev ELSE l.last,
           NEW v, v = IF it.started THEN it.value ELSE Null,
           NEW p, p = IF it.started THEN it.next ELSE Null
    PROVE  /\ IteratorPrev(l, it) \in Iterators /\ IteratorPrev(l, it).started
           /\ IteratorPrev(l, it).value = n
           /\ IteratorPrev(l, it).prev = IF n = Null THEN Null ELSE l.prev[n]
           /\ IteratorPrev(l, it).next = IF n = Null THEN p ELSE v
  <1> DEFINE i == Backward(l, it)
             r == IteratorPrev(l, it)
  <1>1. n \in Pointers /\ v \in Pointers /\ p \in Pointers /\ Null \in Pointers
    BY DEF ListType, Iterators, Pointers
  <1>2. n # Null => l.prev[n] \in Pointers
    BY <1>1 DEF ListType, Pointers
  <1>3. i \in Iterators /\ i.started /\ i.prev = n /\ i.value = v /\ i.next = p
    BY <1>1 DEF Backward, GetIterator, Iterators
  <1>4. r = IF i.prev = Null THEN [i EXCEPT !.value = Null]
            ELSE [i EXCEPT !.prev = l.prev[i.prev], !.next = i.value, !.value = i.prev]
    BY DEF IteratorPrev
  <1> HIDE DEF i, r
  <1>5. r \in Iterators
    BY <1>1, <1>2, <1>3, <1>4 DEF Iterators
  <1>6. /\ r.started /\ r.value = n
        /\ r.prev = IF n = Null THEN Null ELSE l.prev[n]
        /\ r.next = IF n = Null THEN p ELSE v
    BY <1>3, <1>4 DEF Iterators
  <1> QED
    BY <1>5, <1>6 DEF r

\* The iterator has its type.
LEMMA StepsBackTyped ==
    ASSUME NEW s \in Seq(Nodes), NEW i \in Nat
    PROVE  StepsBack(s, i) \in Iterators
  <1>1. \A j \in Int : NodeAt(s, j) \in Pointers
    BY ElementOfSeq DEF NodeAt, Pointers
  <1>2. /\ Len(s) + 1 - i \in Int /\ Len(s) - i \in Int
        /\ Len(s) + 2 - (IF i <= Len(s) THEN i ELSE Len(s)) \in Int
    BY LenProperties
  <1>3. /\ NodeAt(s, Len(s) + 1 - i) \in Pointers /\ NodeAt(s, Len(s) - i) \in Pointers
        /\ NodeAt(s, Len(s) + 2 - (IF i <= Len(s) THEN i ELSE Len(s))) \in Pointers /\ Null \in Pointers
    BY <1>1, <1>2 DEF Pointers
  <1> QED
    BY <1>3 DEF StepsBack, Iterators, GetIterator

\* iterator_prev makes one more step.
LEMMA StepBack ==
    ASSUME NEW l \in ListType, NEW s \in Seq(Nodes), Linked(l, s), NEW i \in Nat \ {0}
    PROVE  IteratorPrev(l, StepsBack(s, i - 1)) = StepsBack(s, i)
  <1> DEFINE it == StepsBack(s, i - 1)
             r == IteratorPrev(l, it)
             n == NodeAt(s, Len(s) + 1 - i)
             v == NodeAt(s, Len(s) + 2 - i)
             p == NodeAt(s, Len(s) + 2 - (IF i - 1 <= Len(s) THEN i - 1 ELSE Len(s)))
  <1>1. Len(s) \in Nat /\ i \in Nat /\ i - 1 \in Nat /\ Len(s) + 1 - i \in Int
    BY LenProperties
  <1>2. it \in Iterators
    BY <1>1, StepsBackTyped
  <1>3. /\ n = IF it.started THEN it.prev ELSE l.last
        /\ v = IF it.started THEN it.value ELSE Null
        /\ p = IF it.started THEN it.next ELSE Null
    <2>1. CASE i = 1
      <3>1. v = Null /\ p = Null
        BY <1>1, <2>1 DEF NodeAt
      <3>2. ~it.started
        BY <2>1 DEF StepsBack, GetIterator
      <3>3. Len(s) + 1 - i = Len(s)
        BY <1>1, <2>1
      <3>4. l.last = n
        BY <3>3, FirstNode
      <3> QED
        BY <3>1, <3>2, <3>4
    <2>2. CASE i # 1
      <3>1. i - 1 # 0 /\ Len(s) + 1 - (i - 1) = Len(s) + 2 - i /\ Len(s) - (i - 1) = Len(s) + 1 - i
        BY <1>1, <2>2
      <3>2. /\ it.started /\ it.value = NodeAt(s, Len(s) + 1 - (i - 1))
            /\ it.prev = NodeAt(s, Len(s) - (i - 1)) /\ it.next = p
        BY <3>1 DEF StepsBack
      <3> QED
        BY <3>1, <3>2
    <2> QED
      BY <2>1, <2>2
  <1> HIDE DEF it, n, v, p
  <1>4. /\ r \in Iterators /\ r.started /\ r.value = n
        /\ r.prev = IF n = Null THEN Null ELSE l.prev[n]
        /\ r.next = IF n = Null THEN p ELSE v
    BY <1>2, <1>3, PrevIs
  <1> HIDE DEF r
  <1> DEFINE u == StepsBack(s, i)
  <1>5. /\ u \in Iterators /\ u.started
        /\ u.value = NodeAt(s, Len(s) + 1 - i) /\ u.prev = NodeAt(s, Len(s) - i)
        /\ u.next = NodeAt(s, Len(s) + 2 - (IF i <= Len(s) THEN i ELSE Len(s)))
    <2>1. u \in Iterators
      BY StepsBackTyped
    <2> QED
      BY <2>1 DEF StepsBack
  <1> HIDE DEF u
  <1>6. r.prev = u.prev
    <2>1. CASE n = Null
      <3>1. NodeAt(s, Len(s) - i) = Null
        BY <1>1, <2>1, NodeIsNotNull DEF n
      <3> QED
        BY <1>4, <1>5, <2>1, <3>1
    <2>2. CASE n # Null
      <3>1. (Len(s) + 1 - i) - 1 = Len(s) - i
        BY <1>1
      <3>2. l.prev[n] = NodeAt(s, (Len(s) + 1 - i) - 1)
        BY <1>1, <2>2, PrevNode DEF n
      <3> QED
        BY <1>4, <1>5, <2>2, <3>1, <3>2
    <2> QED
      BY <2>1, <2>2
  <1>7. r.next = u.next
    <2>1. CASE n = Null
      <3>1. i > Len(s)
        BY <1>1, <2>1, NodeIsNotNull DEF n
      <3>2. /\ (IF i - 1 <= Len(s) THEN i - 1 ELSE Len(s)) = Len(s)
            /\ (IF i <= Len(s) THEN i ELSE Len(s)) = Len(s)
        BY <1>1, <3>1
      <3>3. p = u.next
        BY <1>5, <3>2 DEF p
      <3> QED
        BY <1>4, <2>1, <3>3
    <2>2. CASE n # Null
      <3>1. i <= Len(s)
        BY <1>1, <2>2, NodeIsNotNull DEF n
      <3> QED
        BY <1>4, <1>5, <2>2, <3>1 DEF v
    <2> QED
      BY <2>1, <2>2
  <1>8. r.started = u.started
    <2>1. r.started \in BOOLEAN /\ u.started \in BOOLEAN
      BY <1>4, <1>5 DEF Iterators
    <2> QED
      BY <1>4, <1>5, <2>1
  <1>9. r.value = u.value
    BY <1>4, <1>5 DEF n
  <1>10. r = u
    BY <1>4, <1>5, <1>6, <1>7, <1>8, <1>9, SameIterator
  <1> QED
    BY <1>10 DEF r, u, it

\* f holds the iterators of k steps back.
StepsBackOf(f, k) == f = [i \in 0..k |-> IF i = 0 THEN GetIterator ELSE IteratorPrev(elements, f[i - 1])]

\* The same backward.
LEMMA WalkedBackIs ==
    ASSUME elements \in ListType, NEW s \in Seq(Nodes), Linked(elements, s), NEW k \in Nat
    PROVE  WalkedBack(k) = StepsBack(s, k)
  <1> DEFINE g == [i \in 0..k |-> StepsBack(s, i)]
  <1>1. WalkedBack(k) = (CHOOSE f : StepsBackOf(f, k))[k]
    BY DEF WalkedBack, StepsBackOf
  <1>2. StepsBackOf(g, k)
    <2>1. ASSUME NEW i \in 0..k, i # 0 PROVE StepsBack(s, i) = IteratorPrev(elements, g[i - 1])
      <3>1. i - 1 \in 0..k /\ i \in Nat \ {0}
        BY <2>1
      <3> QED
        BY <3>1, StepBack
    <2>2. g = [i \in 0..k |-> IF i = 0 THEN GetIterator ELSE IteratorPrev(elements, g[i - 1])]
      <3>1. ASSUME NEW i \in 0..k
            PROVE  StepsBack(s, i) = IF i = 0 THEN GetIterator ELSE IteratorPrev(elements, g[i - 1])
        BY <2>1 DEF StepsBack
      <3> HIDE DEF g
      <3>2. g = [i \in 0..k |-> StepsBack(s, i)]
        BY DEF g
      <3> QED
        BY <3>1, <3>2, Zenon
    <2> QED
      BY <2>2 DEF StepsBackOf
  <1> HIDE DEF g
  <1>3. PICK f : StepsBackOf(f, k) /\ WalkedBack(k) = f[k]
    BY <1>1, <1>2
  <1> DEFINE T == {i \in 0..k : f[i] # StepsBack(s, i)}
  <1>4. T = {}
    <2>1. SUFFICES ASSUME T # {} PROVE FALSE
      OBVIOUS
    <2>2. PICK i \in T : \A j \in T : i <= j
      <3>1. T \in SUBSET Nat
        OBVIOUS
      <3> HIDE DEF T
      <3> QED
        BY <2>1, <3>1, LeastElement
    <2>3. i \in 0..k /\ f[i] # StepsBack(s, i)
      BY <2>2
    <2>4. f[i] = IF i = 0 THEN GetIterator ELSE IteratorPrev(elements, f[i - 1])
      BY <1>3, <2>3 DEF StepsBackOf
    <2>5. i # 0
      BY <2>3, <2>4 DEF StepsBack
    <2>6. i - 1 \in 0..k /\ i - 1 \notin T /\ i \in Nat \ {0}
      BY <2>2, <2>3, <2>5
    <2>7. f[i - 1] = StepsBack(s, i - 1)
      BY <2>6
    <2> QED
      BY <2>3, <2>4, <2>5, <2>6, <2>7, StepBack
  <1> QED
    BY <1>3, <1>4

-----------------------------------------------------------------------------
(* The hookstack.                                                          *)

\* The elements are the nodes of q, in the order of the pushes until the stack
\* is deleted.
Holds(q) ==
    /\ Distinct(q) /\ Linked(elements, q)
    /\ stack \in {"null", "live"} =>
          /\ Len(q) = Len(pushed) /\ \A i \in 1..Len(q) : elm[q[i]] = pushed[i]
          /\ \A n \in Nodes : n \notin elements.live => ~elm[n].deleter
    /\ stack \in {"null", "gone"} => Len(q) = 0

\* The inductive invariant.
StackInv ==
    /\ stack \in {"null", "live", "deleting", "gone"}
    /\ elements \in ListType /\ pushed \in Seq(Elms) /\ elm \in [Nodes -> Elms \cup {NoElm}]
    /\ freed = [n \in Nodes |-> IF n \notin elements.live /\ elm[n].deleter THEN 1 ELSE 0]
    /\ \E q \in Seq(Nodes) : Holds(q)

\* What get_elm finds: the element the index stands for, if it is of the type.
LEMMA GetElmIs ==
    ASSUME StackInv, stack \in {"null", "live"}, NEW index \in Int, NEW type
    PROVE  GetElm(index, type) = IF At(index).type = type THEN At(index) ELSE NoElm
  <1>1. PICK q \in Seq(Nodes) : Holds(q)
    BY DEF StackInv
  <1> DEFINE j == IF index >= 0 THEN index + 1 ELSE Len(q) + index
  <1>2. /\ Len(q) \in Nat /\ Len(q) = Len(pushed) /\ j \in Int /\ Linked(elements, q)
        /\ elements \in ListType /\ \A i \in 1..Len(q) : elm[q[i]] = pushed[i]
    BY <1>1, LenProperties DEF Holds, StackInv
  <1>3. At(index) = IF j \in 1..Len(q) THEN pushed[j] ELSE NoElm
    BY <1>2 DEF At
  <1>4. CASE stack = "null"
    <2>1. Len(q) = 0
      BY <1>1, <1>4 DEF Holds
    <2>2. At(index) = NoElm
      BY <1>2, <1>3, <2>1
    <2>3. GetElm(index, type) = NoElm
      BY <1>4 DEF GetElm
    <2> QED
      BY <2>2, <2>3
  <1>5. CASE stack = "live"
    <2> DEFINE node == IF index >= 0 THEN Walked(index + 1).value ELSE WalkedBack(1 - index).value
    <2>1. node = NodeAt(q, j)
      <3>1. CASE index >= 0
        <4>1. index + 1 \in Nat /\ index + 1 # 0
          BY <3>1
        <4>2. Walked(index + 1) = StepsOn(q, index + 1)
          BY <1>2, <4>1, WalkedIs
        <4>3. StepsOn(q, index + 1).value = NodeAt(q, index + 1)
          BY <4>1 DEF StepsOn
        <4> QED
          BY <3>1, <4>2, <4>3
      <3>2. CASE ~(index >= 0)
        <4>1. 1 - index \in Nat /\ 1 - index # 0 /\ Len(q) + 1 - (1 - index) = Len(q) + index
          BY <1>2, <3>2
        <4>2. WalkedBack(1 - index) = StepsBack(q, 1 - index)
          BY <1>2, <4>1, WalkedBackIs
        <4>3. StepsBack(q, 1 - index).value = NodeAt(q, Len(q) + 1 - (1 - index))
          BY <4>1 DEF StepsBack
        <4> QED
          BY <3>2, <4>1, <4>2, <4>3
      <3> QED
        BY <3>1, <3>2
    <2>2. GetElm(index, type) = IF node = Null \/ elm[node].type # type THEN NoElm ELSE elm[node]
      BY <1>5 DEF GetElm
    <2> HIDE DEF node, j
    <2>3. CASE j \in 1..Len(q)
      <3>1. node # Null /\ node = q[j]
        BY <1>2, <2>1, <2>3, NodeIsNotNull DEF NodeAt
      <3>2. elm[node] = At(index)
        BY <1>2, <1>3, <2>3, <3>1
      <3> QED
        BY <2>2, <3>1, <3>2
    <2>4. CASE j \notin 1..Len(q)
      <3>1. node = Null /\ At(index) = NoElm
        BY <1>3, <2>1, <2>4 DEF NodeAt
      <3>2. GetElm(index, type) = NoElm
        BY <2>2, <3>1
      <3> QED
        BY <3>1, <3>2
    <2> QED
      BY <2>3, <2>4
  <1> QED
    BY <1>4, <1>5

\* The reads are right in every state of the invariant.
LEMMA StackInvReads ==
    ASSUME IsFiniteSet(Nodes), StackInv
    PROVE  StackReads
  <1>1. PICK q \in Seq(Nodes) : Holds(q)
    BY DEF StackInv
  <1>2. stack \in {"null", "live"} => freed = [n \in Nodes |-> 0]
    BY <1>1 DEF StackInv, Holds
  <1>3. stack = "gone" => freed = [n \in Nodes |-> IF elm[n].deleter THEN 1 ELSE 0]
    <2>1. SUFFICES ASSUME stack = "gone" PROVE freed = [n \in Nodes |-> IF elm[n].deleter THEN 1 ELSE 0]
      OBVIOUS
    <2>2. \A n \in Nodes : n \notin elements.live
      <3>1. Len(q) = 0 /\ elements.live = ToSet(q)
        BY <1>1, <2>1 DEF Holds, Linked
      <3>2. \A n : n \in ToSet(q) <=> \E i \in 1..Len(q) : n = q[i]
        BY Elements
      <3> QED
        BY <3>1, <3>2
    <2> QED
      BY <2>2 DEF StackInv
  <1>4. ASSUME stack \in {"null", "live"}, NEW index \in -(Cardinality(Nodes) + 1)..Cardinality(Nodes),
               NEW e, e = At(index)
        PROVE  /\ GetInteger(index) = ValueIf(e, e.type = "integer")
               /\ GetNumber(index) = ValueIf(e, e.type = "number")
               /\ GetString(index) = ValueIf(e, e.type = "number")
               /\ \A t \in TypeNames : GetPointer(index, t) = ValueIf(e, e.type = "pointer" /\ e.name = t)
    <2>1. index \in Int
      BY FS_CardinalityType
    <2>2. /\ GetElm(index, "integer") = IF e.type = "integer" THEN e ELSE NoElm
          /\ GetElm(index, "number") = IF e.type = "number" THEN e ELSE NoElm
          /\ GetElm(index, "pointer") = IF e.type = "pointer" THEN e ELSE NoElm
      BY <1>4, <2>1, GetElmIs
    <2>3. NoElm.value = NoValue
      BY DEF NoElm
    <2> QED
      BY <2>2, <2>3 DEF GetInteger, GetNumber, GetString, GetPointer, ValueIf
  <1> QED
    BY <1>2, <1>3, <1>4 DEF StackReads

\* A stack starts empty.
LEMMA StackInitKeeps == StackInit => StackInv
  <1>1. SUFFICES ASSUME StackInit PROVE StackInv
    OBVIOUS
  <1>2. elements \in ListType
    BY <1>1 DEF StackInit, NewList, ListType, Pointers
  <1>3. Len(<<>>) = 0 /\ <<>> \in Seq(Nodes) /\ pushed \in Seq(Elms) /\ Len(pushed) = 0
    BY <1>1 DEF StackInit
  <1>4. /\ ToSet(<<>>) = {} /\ elements.live = {} /\ elements.count = 0
        /\ elements.first = Null /\ elements.last = Null
    <2>1. \A x : x \in ToSet(<<>>) <=> \E i \in 1..Len(<<>>) : x = <<>>[i]
      BY <1>3, Elements
    <2>2. ToSet(<<>>) = {}
      BY <1>3, <2>1
    <2> QED
      BY <1>1, <2>2 DEF StackInit, NewList
  <1>5. \A n \in Nodes : ~elm[n].deleter
    BY <1>1 DEF StackInit, NoElm
  <1>6. Holds(<<>>)
    BY <1>3, <1>4, <1>5 DEF Holds, Distinct, Linked
  <1>7. freed = [n \in Nodes |-> IF n \notin elements.live /\ elm[n].deleter THEN 1 ELSE 0]
    BY <1>1, <1>5 DEF StackInit
  <1>8. elm \in [Nodes -> Elms \cup {NoElm}] /\ stack = "null"
    BY <1>1 DEF StackInit
  <1> QED
    BY <1>2, <1>3, <1>6, <1>7, <1>8 DEF StackInv

\* A push puts the element behind the others.
LEMMA PushKeeps == ASSUME StackInv, NEW e \in Elms, Push(e) PROVE StackInv'
  <1>1. CASE stack = "null"
    <2>1. UNCHANGED stackVars
      BY <1>1 DEF Push, stackVars
    <2> QED
      BY <2>1 DEF stackVars, StackInv, Holds, Distinct, Linked
  <1>2. CASE stack = "live"
    <2>1. PICK n \in Nodes \ elements.live :
             elements' = InsertLast(elements, n) /\ elm' = [elm EXCEPT ![n] = e]
      BY <1>2 DEF Push
    <2>2. pushed' = Append(pushed, e) /\ stack' = "live" /\ freed' = freed
      BY <1>2 DEF Push
    <2>3. PICK q \in Seq(Nodes) : Holds(q)
      BY DEF StackInv
    <2> DEFINE k == Len(q) + 1
    <2>4. /\ Len(q) \in Nat /\ k \in 1..(Len(q) + 1) /\ k \in Nat
          /\ Linked(elements, q) /\ Distinct(q) /\ elements \in ListType
          /\ Len(q) = Len(pushed) /\ pushed \in Seq(Elms) /\ elm \in [Nodes -> Elms \cup {NoElm}]
          /\ \A i \in 1..Len(q) : q[i] \in Nodes /\ q[i] # Null /\ elm[q[i]] = pushed[i]
          /\ \A m \in Nodes : m \notin elements.live => ~elm[m].deleter
      BY <1>2, <2>3, LenProperties, ElementOfSeq, NullIsNoNode DEF Holds, StackInv
    <2>5. PICK t \in Seq(Nodes) :
             Len(t) = Len(q) + 1 /\ (\A i \in 1..Len(q) : t[i] = q[i]) /\ t[Len(q) + 1] = n
      <3>1. /\ Append(q, n) \in Seq(Nodes) /\ Len(Append(q, n)) = Len(q) + 1
            /\ (\A i \in 1..Len(q) : Append(q, n)[i] = q[i]) /\ Append(q, n)[Len(q) + 1] = n
        BY <2>1, <2>3, AppendProperties
      <3> QED
        BY <3>1
    <2>6. /\ pushed' \in Seq(Elms) /\ Len(pushed') = Len(pushed) + 1
          /\ \A i \in 1..Len(pushed) : pushed'[i] = pushed[i]
          /\ pushed'[Len(pushed) + 1] = e
      BY <2>2, <2>4, AppendProperties
    <2>7. Puts(t, q, k, n)
      BY <2>4, <2>5 DEF Puts
    <2>8. elements' = InsertBetween(elements, n, IF k = 1 THEN Null ELSE q[k - 1], Null)
      <3>1. CASE Len(q) = 0
        BY <2>1, <2>4, <3>1 DEF InsertLast, InsertAfter, Linked
      <3>2. CASE Len(q) # 0
        <4>1. /\ elements.last = q[Len(q)] /\ q[Len(q)] # Null
              /\ elements.next[q[Len(q)]] = Null /\ k # 1 /\ k - 1 = Len(q)
          BY <2>4, <3>2 DEF Linked
        <4> QED
          BY <2>1, <4>1 DEF InsertLast, InsertAfter
      <3> QED
        BY <3>1, <3>2
    <2>9. elements' \in ListType /\ Linked(elements', t) /\ Distinct(t)
      <3> DEFINE pre == IF k = 1 THEN Null ELSE q[k - 1]
                 r == InsertBetween(elements, n, pre, Null)
      <3>1. k = Len(q) + 1
        OBVIOUS
      <3> HIDE DEF k, pre, r
      <3>2. pre = (IF k = 1 THEN Null ELSE q[k - 1]) /\ Null = IF k = Len(q) + 1 THEN Null ELSE q[k]
        BY <3>1 DEF pre
      <3>3. r \in ListType /\ Linked(r, t) /\ Distinct(t)
        BY <2>1, <2>3, <2>4, <2>7, <3>2, InsertBetweenLinks DEF r
      <3> QED
        BY <2>8, <3>3 DEF pre, r
    <2>10. /\ elements'.live = ToSet(t) /\ elements.live = ToSet(q)
           /\ \A m : m \in ToSet(t) <=> \E i \in 1..Len(t) : m = t[i]
           /\ \A m : m \in ToSet(q) <=> \E i \in 1..Len(q) : m = q[i]
      BY <2>3, <2>4, <2>5, <2>9, Elements DEF Linked
    <2>11. n \in elements'.live /\ \A m : m # n => (m \in elements'.live <=> m \in elements.live)
      <3>1. Len(t) \in 1..Len(t) /\ \A i \in 1..Len(q) : i \in 1..Len(t)
        BY <2>4, <2>5
      <3>2. n \in ToSet(t)
        BY <2>5, <2>10, <3>1
      <3>3. \A m : m \in ToSet(q) => m \in ToSet(t)
        BY <2>5, <2>10, <3>1
      <3>4. ASSUME NEW m \in ToSet(t), m # n PROVE m \in ToSet(q)
        <4>1. PICK i \in 1..Len(t) : m = t[i]
          BY <2>10, <3>4
        <4>2. i \in 1..Len(q)
          BY <2>4, <2>5, <3>4, <4>1
        <4> QED
          BY <2>5, <2>10, <4>1, <4>2
      <3> QED
        BY <2>10, <3>2, <3>3, <3>4
    <2>12. /\ elm' \in [Nodes -> Elms \cup {NoElm}] /\ elm'[n] = e
           /\ \A m \in Nodes : m # n => elm'[m] = elm[m]
      BY <2>1, <2>4
    <2>13. \A i \in 1..Len(t) : elm'[t[i]] = pushed'[i]
      <3>1. SUFFICES ASSUME NEW i \in 1..Len(t) PROVE elm'[t[i]] = pushed'[i]
        OBVIOUS
      <3>2. CASE i = Len(q) + 1
        BY <2>4, <2>5, <2>6, <2>12, <3>2
      <3>3. CASE i # Len(q) + 1
        <4>1. i \in 1..Len(q)
          BY <2>4, <2>5, <3>3
        <4>2. q[i] # n
          BY <2>1, <2>10, <4>1
        <4> QED
          BY <2>4, <2>5, <2>6, <2>12, <4>1, <4>2
      <3> QED
        BY <3>2, <3>3
    <2>14. Holds(t)'
      <3>1. Len(t) = Len(pushed')
        BY <2>4, <2>5, <2>6
      <3>2. \A m \in Nodes : m \notin elements'.live => ~elm'[m].deleter
        BY <2>4, <2>11, <2>12
      <3>3. stack' = "live"
        BY <2>2
      <3> QED
        BY <2>9, <2>13, <3>1, <3>2, <3>3 DEF Holds
    <2>15. freed' = [m \in Nodes |-> IF m \notin elements'.live /\ elm'[m].deleter THEN 1 ELSE 0]
      BY <2>1, <2>2, <2>4, <2>11, <2>12 DEF StackInv
    <2> QED
      BY <2>2, <2>5, <2>6, <2>9, <2>12, <2>14, <2>15 DEF StackInv
  <1> QED
    BY <1>1, <1>2 DEF Push

\* free_element of the first node, and its removal.
LEMMA DeletionKeeps == ASSUME StackInv, HookstackDelete PROVE StackInv'
  <1>1. PICK q \in Seq(Nodes) : Holds(q)
    BY DEF StackInv
  <1>2. /\ Len(q) \in Nat /\ Linked(elements, q) /\ Distinct(q) /\ elements \in ListType
        /\ elements.count = Len(q) /\ elements.live = ToSet(q)
        /\ \A m : m \in ToSet(q) <=> \E i \in 1..Len(q) : m = q[i]
    BY <1>1, LenProperties, Elements DEF Holds, StackInv, Linked
  <1>3. UNCHANGED <<elm, pushed>> /\ stack \in {"live", "deleting"}
    BY DEF HookstackDelete
  <1>4. CASE elements.count = 0
    <2>1. stack' = "gone" /\ UNCHANGED <<elements, freed>>
      BY <1>4 DEF HookstackDelete
    <2>2. Holds(q)'
      BY <1>1, <1>2, <1>3, <1>4, <2>1 DEF Holds, Distinct, Linked
    <2> QED
      BY <1>3, <2>1, <2>2 DEF StackInv
  <1>5. CASE elements.count # 0
    <2>1. /\ stack' = "deleting" /\ FreeElement(elements.first)
          /\ elements' = RemoveNode(elements, elements.first)
      BY <1>2, <1>5 DEF HookstackDelete
    <2>2. 1 \in 1..Len(q) /\ elements.first = q[1] /\ q[1] \in Nodes
      BY <1>2, <1>5, ElementOfSeq DEF Linked
    <2>3. PICK t : Takes(t, q, 1)
      <3>1. /\ RemoveAt(q, 1) \in Seq(Nodes) /\ Len(RemoveAt(q, 1)) = Len(q) - 1
            /\ \A i \in 1..(Len(q) - 1) : RemoveAt(q, 1)[i] = IF i < 1 THEN q[i] ELSE q[i + 1]
        BY <2>2, RemovedAt
      <3>2. Takes(RemoveAt(q, 1), q, 1)
        BY <3>1 DEF Takes
      <3> QED
        BY <3>2
    <2>4. /\ elements' \in ListType /\ Linked(elements', t) /\ Distinct(t) /\ t \in Seq(Nodes)
          /\ q[1] \notin ToSet(t) /\ \A x : x \in ToSet(q) /\ x # q[1] => x \in ToSet(t)
      <3>1. /\ RemoveNode(elements, q[1]) \in ListType /\ Linked(RemoveNode(elements, q[1]), t) /\ Distinct(t)
            /\ q[1] \notin ToSet(t) /\ \A x : x \in ToSet(q) /\ x # q[1] => x \in ToSet(t)
        BY <1>1, <1>2, <2>2, <2>3, RemoveNodeLinks
      <3>2. elements' = RemoveNode(elements, q[1]) /\ t \in Seq(Nodes)
        BY <2>1, <2>2, <2>3 DEF Takes
      <3> QED
        BY <3>1, <3>2
    <2>5. /\ elements'.live = ToSet(t)
          /\ \A x \in Nodes : x \in elements'.live <=> (x \in elements.live /\ x # q[1])
      <3>1. elements'.live = ToSet(t) /\ elements'.live = elements.live \ {q[1]}
        BY <1>2, <2>1, <2>2, <2>4 DEF RemoveNode, ListType, Linked
      <3> QED
        BY <3>1
    <2>6. Holds(t)'
      BY <2>1, <2>4 DEF Holds, Distinct, Linked
    <2>7. freed' = [m \in Nodes |-> IF m \notin elements'.live /\ elm'[m].deleter THEN 1 ELSE 0]
      <3>1. q[1] \in elements.live
        BY <1>2, <2>2
      <3>2. freed' = [freed EXCEPT ![q[1]] = IF elm[q[1]].deleter THEN @ + 1 ELSE @]
        BY <2>1, <2>2 DEF FreeElement
      <3>3. freed = [m \in Nodes |-> IF m \notin elements.live /\ elm[m].deleter THEN 1 ELSE 0]
        BY DEF StackInv
      <3>4. \A m \in Nodes : freed'[m] = IF m \notin elements'.live /\ elm'[m].deleter THEN 1 ELSE 0
        <4>1. SUFFICES ASSUME NEW m \in Nodes
                       PROVE  freed'[m] = IF m \notin elements'.live /\ elm'[m].deleter THEN 1 ELSE 0
          OBVIOUS
        <4>2. CASE m = q[1]
          BY <1>3, <2>5, <3>1, <3>2, <3>3, <4>2
        <4>3. CASE m # q[1]
          BY <1>3, <2>5, <3>2, <3>3, <4>3
        <4> QED
          BY <4>2, <4>3
      <3> QED
        BY <3>2, <3>3, <3>4
    <2> QED
      BY <1>3, <2>1, <2>4, <2>6, <2>7 DEF StackInv
  <1> QED
    BY <1>4, <1>5

\* The invariant is inductive.
LEMMA StackNextKeeps == ASSUME StackInv, [StackNext]_stackVars PROVE StackInv'
  <1>1. CASE HookstackNew
    BY <1>1 DEF HookstackNew, StackInv, Holds, Distinct, Linked
  <1>2. CASE UNCHANGED stackVars
    BY <1>2 DEF stackVars, StackInv, Holds, Distinct, Linked
  <1> QED
    BY <1>1, <1>2, PushKeeps, DeletionKeeps DEF StackNext

\* On a stack of any length an integer, a number or a pointer is read back by the
\* function of its type (a pointer under its name only) at its index from 0 on, or
\* at a negative index, which counts from the last but one; a string is never read
\* back, as get_string asks for a number (hook.c:325), and no negative index is the
\* last element (hook.c:241).  And hookstack_delete gives each element that has a
\* deleter to it once.
THEOREM StacksReadBack == ASSUME IsFiniteSet(Nodes) PROVE StackSpec => []StackReads
  <1>1. StackInv /\ [StackNext]_stackVars => StackInv'
    BY StackNextKeeps
  <1>2. StackInv => StackReads
    BY StackInvReads
  <1> QED
    BY StackInitKeeps, <1>1, <1>2, PTL DEF StackSpec

-----------------------------------------------------------------------------
(* The chain a call follows.                                               *)

\* Both chains of l are s and its reverse; l may have other nodes.
Chained(l, s) ==
    /\ l.first = IF Len(s) = 0 THEN Null ELSE s[1]
    /\ l.last = IF Len(s) = 0 THEN Null ELSE s[Len(s)]
    /\ \A i \in 1..Len(s) :
          /\ l.prev[s[i]] = IF i = 1 THEN Null ELSE s[i - 1]
          /\ l.next[s[i]] = IF i = Len(s) THEN Null ELSE s[i + 1]

\* l without the nodes that are not in its chain.
Only(l, s) == [first |-> l.first, last |-> l.last, count |-> Len(s), live |-> ToSet(s),
               next |-> l.next, prev |-> l.prev]

\* That is a list of which s is the order.
LEMMA OnlyIsLinked ==
    ASSUME NEW l \in ListType, NEW s \in Seq(Nodes), Chained(l, s)
    PROVE  Only(l, s) \in ListType /\ Linked(Only(l, s), s)
  <1> DEFINE o == Only(l, s)
  <1>1. /\ l.first \in Pointers /\ l.last \in Pointers
        /\ l.next \in [Nodes -> Pointers] /\ l.prev \in [Nodes -> Pointers]
    BY DEF ListType
  <1>2. Len(s) \in Nat /\ ToSet(s) \in SUBSET Nodes
    BY LenProperties, ElementOfSeq, Elements
  <1>3. o \in ListType
    BY <1>1, <1>2 DEF Only, ListType
  <1>4. /\ o.first = l.first /\ o.last = l.last /\ o.next = l.next /\ o.prev = l.prev
        /\ o.live = ToSet(s) /\ o.count = Len(s)
    BY DEF Only
  <1> HIDE DEF o
  <1>5. Linked(o, s)
    BY <1>4 DEF Linked, Chained
  <1> QED
    BY <1>3, <1>5 DEF o

\* Lists with the same pointers have the same chains.
LEMMA SameChain ==
    ASSUME NEW l, NEW s \in Seq(Nodes), Chained(l, s), NEW r,
           r.first = l.first, r.last = l.last,
           \A m \in Nodes : r.next[m] = l.next[m] /\ r.prev[m] = l.prev[m]
    PROVE  Chained(r, s)
  <1>1. \A i \in 1..Len(s) : s[i] \in Nodes
    BY ElementOfSeq
  <1>2. \A i \in 1..Len(s) : r.next[s[i]] = l.next[s[i]] /\ r.prev[s[i]] = l.prev[s[i]]
    BY <1>1
  <1> QED
    BY <1>2 DEF Chained

\* A node put in its place in the chain.
LEMMA ChainInserted ==
    ASSUME NEW l \in ListType, NEW s \in Seq(Nodes), Chained(l, s), Distinct(s),
           NEW n \in Nodes, n \notin ToSet(s), NEW k \in 1..Len(s), NEW t, Puts(t, s, k, n),
           NEW pre \in Pointers, pre = IF k = 1 THEN Null ELSE s[k - 1]
    PROVE  Chained(InsertBetween(l, n, pre, s[k]), t) /\ Distinct(t)
  <1> DEFINE o == Only(l, s)
             post == s[k]
             r == InsertBetween(l, n, pre, post)
             v == InsertBetween(o, n, pre, post)
  <1>1. o \in ListType /\ Linked(o, s) /\ o.live = ToSet(s)
    BY OnlyIsLinked DEF Only
  <1>2. Len(s) \in Nat /\ k \in 1..(Len(s) + 1) /\ post \in Pointers /\ post \in Nodes
    BY LenProperties, ElementOfSeq DEF Pointers
  <1>3. post = IF k = Len(s) + 1 THEN Null ELSE s[k]
    BY <1>2
  <1>4. o.first = l.first /\ o.last = l.last /\ o.next = l.next /\ o.prev = l.prev
    BY DEF Only
  <1>5. r = InsertBetween(l, n, pre, post) /\ v = InsertBetween(o, n, pre, post)
    OBVIOUS
  <1> HIDE DEF o, post, r, v
  <1>6. n \in Nodes \ o.live
    BY <1>1
  <1>7. Linked(v, t) /\ Distinct(t)
    BY <1>1, <1>2, <1>3, <1>5, <1>6, InsertBetweenLinks
  <1>8. Gained(v, o, n, pre, post)
    BY <1>1, <1>2, InsertBetweenIs DEF v
  <1>9. Gained(r, l, n, pre, post)
    BY <1>2, InsertBetweenIs DEF r
  <1>10. /\ r.first = v.first /\ r.last = v.last
        /\ \A m \in Nodes : r.next[m] = v.next[m] /\ r.prev[m] = v.prev[m]
    BY <1>4, <1>8, <1>9 DEF Gained
  <1>11. t \in Seq(Nodes) /\ Chained(v, t)
    BY <1>7 DEF Puts, Linked, Chained
  <1>12. Chained(r, t)
    BY <1>10, <1>11, SameChain
  <1> QED
    BY <1>7, <1>12 DEF r, post

\* A node before a null one is a chain of its own.
LEMMA ChainRestarted ==
    ASSUME NEW l \in ListType, NEW n \in Nodes
    PROVE  Chained(InsertBetween(l, n, Null, Null), <<n>>) /\ Distinct(<<n>>)
  <1> DEFINE r == InsertBetween(l, n, Null, Null)
  <1>1. Null \in Pointers
    BY DEF Pointers
  <1>2. r.first = n /\ r.last = n /\ r.next[n] = Null /\ r.prev[n] = Null
    BY <1>1, InsertBetweenIs DEF Gained
  <1> HIDE DEF r
  <1>3. Len(<<n>>) = 1 /\ <<n>>[1] = n
    OBVIOUS
  <1>4. \A i \in 1..1 : i = 1
    OBVIOUS
  <1>5. Chained(r, <<n>>) /\ Distinct(<<n>>)
    BY <1>2, <1>3, <1>4 DEF Chained, Distinct
  <1> QED
    BY <1>5 DEF r

\* A node taken out of the chain.
LEMMA ChainRemoved ==
    ASSUME NEW l \in ListType, NEW s \in Seq(Nodes), Chained(l, s), Distinct(s),
           l.count # 0, NEW k \in 1..Len(s), NEW t, Takes(t, s, k)
    PROVE  Chained(RemoveNode(l, s[k]), t) /\ Distinct(t)
  <1> DEFINE o == Only(l, s)
             n == s[k]
             pre == l.prev[n]
             post == l.next[n]
             r == RemoveNode(l, n)
             v == RemoveNode(o, n)
  <1>1. o \in ListType /\ Linked(o, s) /\ o.count = Len(s)
    BY OnlyIsLinked DEF Only
  <1>2. Len(s) \in Nat /\ Len(s) # 0 /\ n \in Nodes
    BY LenProperties, ElementOfSeq
  <1>3. o.first = l.first /\ o.last = l.last /\ o.next = l.next /\ o.prev = l.prev
    BY DEF Only
  <1>4. /\ r = RemoveNode(l, n) /\ v = RemoveNode(o, n) /\ n = s[k]
        /\ pre = l.prev[n] /\ post = l.next[n]
    OBVIOUS
  <1> HIDE DEF o, n, r, v, pre, post
  <1>5. Linked(v, t) /\ Distinct(t)
    <2>1. RemoveNode(o, s[k]) = v
      BY <1>4
    <2> QED
      BY <1>1, <2>1, RemoveNodeLinks
  <1>6. Lost(v, o, n, pre, post)
    <2>1. pre = o.prev[n] /\ post = o.next[n] /\ o.count # 0
      BY <1>1, <1>2, <1>3, <1>4
    <2> QED
      BY <1>1, <1>2, <2>1, RemoveNodeIs DEF v
  <1>7. Lost(r, l, n, pre, post)
    BY <1>2, <1>4, RemoveNodeIs
  <1>8. /\ r.first = v.first /\ r.last = v.last
        /\ \A m \in Nodes : r.next[m] = v.next[m] /\ r.prev[m] = v.prev[m]
    BY <1>3, <1>6, <1>7 DEF Lost
  <1>9. t \in Seq(Nodes) /\ Chained(v, t)
    BY <1>5 DEF Takes, Linked, Chained
  <1>10. Chained(r, t)
    BY <1>8, <1>9, SameChain
  <1> QED
    BY <1>5, <1>10 DEF r, n

-----------------------------------------------------------------------------
(* The loops over a chain.                                                 *)

\* A sequence of different nodes is no longer than there are nodes.
LEMMA LengthBound ==
    ASSUME IsFiniteSet(Nodes), NEW s \in Seq(Nodes), Distinct(s)
    PROVE  Len(s) \in 0..Cardinality(Nodes) /\ Cardinality(Nodes) \in Nat
  <1>1. Len(s) \in Nat /\ s \in [1..Len(s) -> Nodes]
    BY LenProperties
  <1>2. s \in Injection(1..Len(s), Nodes)
    BY <1>1 DEF Injection, IsInjective, Distinct
  <1>3. Cardinality(1..Len(s)) = Len(s)
    <2>1. Len(s) \in Int /\ 1 \in Int
      BY <1>1
    <2>2. Cardinality(1..Len(s)) = IF 1 > Len(s) THEN 0 ELSE Len(s) - 1 + 1
      BY <2>1, FS_Interval
    <2> QED
      BY <1>1, <2>2
  <1>4. Cardinality(1..Len(s)) <= Cardinality(Nodes) /\ Cardinality(Nodes) \in Nat
    BY <1>2, FS_Injection, FS_CardinalityType
  <1> QED
    BY <1>1, <1>3, <1>4

\* One step of a loop.
LEMMA ChainStep ==
    ASSUME NEW l, NEW s \in Seq(Nodes), Chained(l, s), NEW k \in Nat
    PROVE  NodeAt(s, k + 1) = IF k = 0 THEN l.first
                              ELSE IF NodeAt(s, k) = Null THEN Null ELSE l.next[NodeAt(s, k)]
  <1>1. Len(s) \in Nat
    BY LenProperties
  <1>2. CASE k = 0
    BY <1>1, <1>2 DEF Chained, NodeAt
  <1>3. CASE k # 0 /\ k \in 1..Len(s)
    <2>1. NodeAt(s, k) = s[k] /\ s[k] # Null
      BY <1>3, ElementOfSeq, NullIsNoNode DEF NodeAt
    <2>2. l.next[s[k]] = IF k = Len(s) THEN Null ELSE s[k + 1]
      BY <1>3 DEF Chained
    <2>3. NodeAt(s, k + 1) = IF k = Len(s) THEN Null ELSE s[k + 1]
      BY <1>1, <1>3 DEF NodeAt
    <2> QED
      BY <1>3, <2>1, <2>2, <2>3
  <1>4. CASE k # 0 /\ k \notin 1..Len(s)
    BY <1>1, <1>4 DEF NodeAt
  <1> QED
    BY <1>2, <1>3, <1>4

\* f holds the steps of a loop over l.
LoopOf(f, l) ==
    f = [k \in 0..Cardinality(Nodes) |->
            IF k = 0 THEN l.first ELSE IF f[k - 1] = Null THEN Null ELSE l.next[f[k - 1]]]

\* A loop over l visits its chain: a function with these values satisfies the
\* recursion, and there is no least step at which another would differ.
LEMMA VisitedIs ==
    ASSUME IsFiniteSet(Nodes), NEW l, NEW s \in Seq(Nodes), Chained(l, s)
    PROVE  \A k \in 0..Cardinality(Nodes) : Visited(l)[k] = NodeAt(s, k + 1)
  <1> DEFINE N == Cardinality(Nodes)
             g == [k \in 0..N |-> NodeAt(s, k + 1)]
  <1>0. N \in Nat
    BY FS_CardinalityType
  <1>1. Visited(l) = CHOOSE f : LoopOf(f, l)
    BY DEF Visited, LoopOf
  <1> HIDE DEF N
  <1>2. LoopOf(g, l)
    <2>1. ASSUME NEW k \in 0..N
          PROVE  NodeAt(s, k + 1) = IF k = 0 THEN l.first
                                    ELSE IF g[k - 1] = Null THEN Null ELSE l.next[g[k - 1]]
      <3>1. CASE k = 0
        BY <3>1, ChainStep
      <3>2. CASE k # 0
        <4>1. k - 1 \in 0..N /\ (k - 1) + 1 = k /\ k \in Nat
          BY <1>0, <3>2
        <4>2. g[k - 1] = NodeAt(s, k)
          BY <4>1
        <4> HIDE DEF g
        <4> QED
          BY <3>2, <4>1, <4>2, ChainStep
      <3> QED
        BY <3>1, <3>2
    <2> HIDE DEF g
    <2>2. g = [k \in 0..N |-> NodeAt(s, k + 1)]
      BY DEF g
    <2>3. g = [k \in 0..N |-> IF k = 0 THEN l.first
                              ELSE IF g[k - 1] = Null THEN Null ELSE l.next[g[k - 1]]]
      BY <2>1, <2>2, Zenon
    <2> QED
      BY <2>3 DEF LoopOf, N
  <1> HIDE DEF g
  <1>3. PICK f : LoopOf(f, l) /\ Visited(l) = f
    BY <1>1, <1>2
  <1>4. \A k \in 0..N : f[k] = IF k = 0 THEN l.first
                               ELSE IF f[k - 1] = Null THEN Null ELSE l.next[f[k - 1]]
    BY <1>3 DEF LoopOf, N
  <1> DEFINE T == {k \in 0..N : f[k] # NodeAt(s, k + 1)}
  <1>5. T = {}
    <2>1. SUFFICES ASSUME T # {} PROVE FALSE
      OBVIOUS
    <2>2. PICK k \in T : \A j \in T : k <= j
      <3>1. T \in SUBSET Nat
        BY <1>0
      <3> HIDE DEF T
      <3> QED
        BY <2>1, <3>1, LeastElement
    <2>3. k \in 0..N /\ f[k] # NodeAt(s, k + 1) /\ k \in Nat
      BY <1>0, <2>2
    <2>4. CASE k = 0
      BY <1>4, <2>3, <2>4, ChainStep
    <2>5. CASE k # 0
      <3>1. k - 1 \in 0..N /\ k - 1 \notin T /\ (k - 1) + 1 = k
        BY <1>0, <2>2, <2>3, <2>5
      <3>2. f[k - 1] = NodeAt(s, k)
        BY <3>1
      <3>3. f[k] = IF f[k - 1] = Null THEN Null ELSE l.next[f[k - 1]]
        BY <1>4, <2>3, <2>5
      <3>4. NodeAt(s, k + 1) = IF NodeAt(s, k) = Null THEN Null ELSE l.next[NodeAt(s, k)]
        BY <2>3, <2>5, ChainStep
      <3> QED
        BY <2>3, <3>2, <3>3, <3>4
    <2> QED
      BY <2>4, <2>5
  <1> QED
    BY <1>3, <1>5 DEF N

\* What can be reached is the chain.
LEMMA ReachableIs ==
    ASSUME IsFiniteSet(Nodes), NEW l, NEW s \in Seq(Nodes), Distinct(s), Chained(l, s)
    PROVE  Reachable(l) = ToSet(s)
  <1> DEFINE N == Cardinality(Nodes)
  <1>1. Len(s) \in 0..N /\ N \in Nat
    BY LengthBound
  <1>2. \A k \in 0..N : Visited(l)[k] = NodeAt(s, k + 1)
    BY VisitedIs
  <1>3. Reachable(l) = {Visited(l)[k] : k \in 0..N} \ {Null}
    BY DEF Reachable
  <1> HIDE DEF N
  <1>4. \A x : x \in ToSet(s) <=> \E i \in 1..Len(s) : x = s[i]
    BY Elements
  <1>5. ASSUME NEW x \in Reachable(l) PROVE x \in ToSet(s)
    <2>1. PICK k \in 0..N : x = NodeAt(s, k + 1) /\ x # Null
      BY <1>2, <1>3, <1>5
    <2>2. k + 1 \in 1..Len(s) /\ x = s[k + 1]
      BY <2>1 DEF NodeAt
    <2> QED
      BY <1>4, <2>2
  <1>6. ASSUME NEW x \in ToSet(s) PROVE x \in Reachable(l)
    <2>1. PICK i \in 1..Len(s) : x = s[i]
      BY <1>4, <1>6
    <2>2. i - 1 \in 0..N /\ (i - 1) + 1 = i
      BY <1>1, <2>1
    <2>3. NodeAt(s, i) = x /\ x # Null
      BY <2>1, ElementOfSeq, NullIsNoNode DEF NodeAt
    <2>4. Visited(l)[i - 1] = x
      BY <1>2, <2>2, <2>3
    <2> QED
      BY <1>3, <2>2, <2>3, <2>4
  <1> QED
    BY <1>5, <1>6

\* A loop ends at the first of the nodes it looks for, or behind the chain.
LEMMA StopsAtIs ==
    ASSUME IsFiniteSet(Nodes), NEW l, NEW s \in Seq(Nodes), Distinct(s), Chained(l, s),
           NEW nodes \in SUBSET Nodes
    PROVE  \E j \in 1..(Len(s) + 1) :
              /\ Visited(l)[StopsAt(l, nodes)] = NodeAt(s, j)
              /\ j \in 1..Len(s) => s[j] \in nodes
              /\ \A i \in 1..(j - 1) : s[i] \notin nodes
  <1> DEFINE N == Cardinality(Nodes)
             S == nodes \cup {Null}
             z == StopsAt(l, nodes)
             T == {k \in 0..N : NodeAt(s, k + 1) \in S}
  <1>1. Len(s) \in 0..N /\ N \in Nat
    BY LengthBound
  <1>2. \A k \in 0..N : Visited(l)[k] = NodeAt(s, k + 1)
    BY VisitedIs
  <1>3. z = CHOOSE k \in 0..N : /\ Visited(l)[k] \in S
                                /\ \A j \in 0..(k - 1) : Visited(l)[j] \notin S
    BY DEF StopsAt
  <1> HIDE DEF N, S, z
  <1>4. Len(s) \in T
    <2>1. NodeAt(s, Len(s) + 1) = Null
      BY <1>1 DEF NodeAt
    <2> QED
      BY <1>1, <2>1 DEF S
  <1>5. PICK k \in T : \A j \in T : k <= j
    <2>1. T \in SUBSET Nat /\ T # {}
      BY <1>1, <1>4
    <2> HIDE DEF T
    <2> QED
      BY <2>1, LeastElement
  <1>6. k \in 0..N /\ Visited(l)[k] \in S /\ \A j \in 0..(k - 1) : Visited(l)[j] \notin S
    <2>1. ASSUME NEW j \in 0..(k - 1) PROVE Visited(l)[j] \notin S
      <3>1. j \in 0..N /\ ~(k <= j)
        BY <1>1, <1>5, <2>1
      <3> QED
        BY <1>2, <1>5, <3>1
    <2> QED
      BY <1>2, <1>5, <2>1
  <1>7. z \in 0..N /\ Visited(l)[z] \in S /\ \A j \in 0..(z - 1) : Visited(l)[j] \notin S
    BY <1>3, <1>6
  <1>8. z \in Nat /\ NodeAt(s, z + 1) \in S /\ \A j \in 0..(z - 1) : NodeAt(s, j + 1) \notin S
    <2>1. z \in Nat /\ \A j \in 0..(z - 1) : j \in 0..N
      BY <1>1, <1>7
    <2>2. NodeAt(s, z + 1) = Visited(l)[z]
      BY <1>2, <1>7
    <2>3. ASSUME NEW j \in 0..(z - 1) PROVE NodeAt(s, j + 1) \notin S
      <3>1. NodeAt(s, j + 1) = Visited(l)[j]
        BY <1>2, <2>1
      <3> QED
        BY <1>7, <3>1
    <2> QED
      BY <1>7, <2>1, <2>2, <2>3
  <1>9. z <= Len(s)
    <2>1. SUFFICES ASSUME ~(z <= Len(s)) PROVE FALSE
      OBVIOUS
    <2>2. Len(s) \in 0..(z - 1)
      BY <1>1, <1>8, <2>1
    <2> QED
      BY <1>4, <1>8, <2>2
  <1>10. z + 1 \in 1..(Len(s) + 1) /\ Visited(l)[z] = NodeAt(s, z + 1)
    BY <1>1, <1>2, <1>7, <1>8, <1>9
  <1>11. ASSUME z + 1 \in 1..Len(s) PROVE s[z + 1] \in nodes
    <2>1. NodeAt(s, z + 1) = s[z + 1] /\ s[z + 1] # Null
      BY <1>11, ElementOfSeq, NullIsNoNode DEF NodeAt
    <2> QED
      BY <1>8, <2>1 DEF S
  <1>12. ASSUME NEW i \in 1..((z + 1) - 1) PROVE s[i] \notin nodes
    <2>1. i - 1 \in 0..(z - 1) /\ (i - 1) + 1 = i /\ i \in 1..Len(s)
      BY <1>1, <1>8, <1>9
    <2>2. NodeAt(s, i) = s[i]
      BY <2>1 DEF NodeAt
    <2> QED
      BY <1>8, <2>1, <2>2 DEF S
  <1>13. \E j \in 1..(Len(s) + 1) :
              /\ Visited(l)[z] = NodeAt(s, j)
              /\ j \in 1..Len(s) => s[j] \in nodes
              /\ \A i \in 1..(j - 1) : s[i] \notin nodes
    BY <1>10, <1>11, <1>12
  <1> QED
    BY <1>13 DEF z

\* hook_add stops before the first greater priority, or behind the chain.
LEMMA PlaceIs ==
    ASSUME IsFiniteSet(Nodes), NEW l, NEW s \in Seq(Nodes), Distinct(s), Chained(l, s), NEW priority
    PROVE  \E j \in 1..(Len(s) + 1) :
              /\ Place(l, priority) = NodeAt(s, j)
              /\ j \in 1..Len(s) => hook[s[j]].priority > priority
              /\ \A i \in 1..(j - 1) : ~(hook[s[i]].priority > priority)
  <1> DEFINE nodes == {m \in Nodes : hook[m].priority > priority}
  <1>1. nodes \in SUBSET Nodes /\ Place(l, priority) = Visited(l)[StopsAt(l, nodes)]
    BY DEF Place
  <1>2. \A m \in Nodes : m \in nodes <=> hook[m].priority > priority
    OBVIOUS
  <1> HIDE DEF nodes
  <1>3. PICK j \in 1..(Len(s) + 1) :
              /\ Place(l, priority) = NodeAt(s, j)
              /\ j \in 1..Len(s) => s[j] \in nodes
              /\ \A i \in 1..(j - 1) : s[i] \notin nodes
    BY <1>1, StopsAtIs
  <1>4. \A i \in 1..Len(s) : s[i] \in Nodes
    BY ElementOfSeq
  <1>5. \A i \in 1..(j - 1) : i \in 1..Len(s)
    BY LenProperties
  <1>6. \A i \in 1..(j - 1) : ~(hook[s[i]].priority > priority)
    BY <1>2, <1>3, <1>4, <1>5
  <1>7. j \in 1..Len(s) => hook[s[j]].priority > priority
    BY <1>2, <1>3, <1>4
  <1> QED
    BY <1>3, <1>6, <1>7

-----------------------------------------------------------------------------
(* The list of a table, with the hooks h in its nodes and its chain s.     *)
(* Nodes that an insertion before a null node cut off are still live, and a*)
(* call may be among them: they lead on to each other and never back into  *)
(* the chain, so that what is taken out of the chain is not ahead of them. *)

\* Behind m comes a live node, of another id and no lower priority, or none.
LeadsOn(l, h, m) ==
    l.next[m] # Null =>
        /\ l.next[m] \in l.live /\ h[l.next[m]].id # h[m].id
        /\ h[m].priority <= h[l.next[m]].priority

\* The chain is in the list and each of its hooks has an id of its own.
ChainOf(l, h, s) ==
    /\ s \in Seq(Nodes) /\ Distinct(s) /\ Chained(l, s)
    /\ \A i \in 1..Len(s) : s[i] \in l.live
    /\ \A i, j \in 1..Len(s) : h[s[i]].id = h[s[j]].id => i = j

\* A node that was cut off from the chain.
CutOff(l, s, m) == m \in l.live /\ \A i \in 1..Len(s) : m # s[i]

\* The priorities that are a float32_t.
Rounded == {p \in Priorities : Float32[p] = p}

Sane(l, h, s) ==
    /\ l \in ListType /\ l.count = Cardinality(l.live) /\ ChainOf(l, h, s)
    /\ \A m \in l.live : h[m].id \in Ids /\ h[m].priority \in Rounded /\ LeadsOn(l, h, m)
    /\ \A m \in Nodes : CutOff(l, s, m) => \A i \in 1..Len(s) : l.next[m] # s[i]

\* remove of a node of the chain.
LEMMA SaneRemoved ==
    ASSUME IsFiniteSet(Nodes), NEW l, NEW h, NEW s, Sane(l, h, s), NEW k \in 1..Len(s),
           NEW r, r = RemoveNode(l, s[k])
    PROVE  /\ r.live = l.live \ {s[k]}
           /\ \E t : Sane(r, h, t) /\ \A i \in 1..Len(t) : \E j \in 1..Len(s) : j # k /\ t[i] = s[j]
  <1> DEFINE n == s[k]
             pre == l.prev[n]
             post == l.next[n]
  <1>1. /\ l \in ListType /\ s \in Seq(Nodes) /\ Distinct(s) /\ Chained(l, s) /\ Len(s) \in Nat
        /\ l.live \subseteq Nodes /\ l.count = Cardinality(l.live)
        /\ \A i \in 1..Len(s) : s[i] \in l.live /\ s[i] \in Nodes /\ s[i] # Null
    BY LenProperties, ElementOfSeq, NullIsNoNode DEF Sane, ChainOf, ListType
  <1>2. n \in l.live /\ n \in Nodes /\ IsFiniteSet(l.live)
    BY <1>1, FS_Subset
  <1>3. l.count # 0 /\ Cardinality(l.live \ {n}) = l.count - 1
    <2>1. Cardinality(l.live \ {n}) = Cardinality(l.live) - 1 /\ Cardinality(l.live \ {n}) \in Nat
          /\ Cardinality(l.live) \in Nat
      BY <1>2, FS_RemoveElement, FS_CardinalityType, FS_Subset
    <2> QED
      BY <1>1, <2>1
  <1>4. /\ pre = IF k = 1 THEN Null ELSE s[k - 1]
        /\ post = IF k = Len(s) THEN Null ELSE s[k + 1]
    BY <1>1 DEF Chained
  <1>5. n = s[k] /\ pre = l.prev[n] /\ post = l.next[n]
    OBVIOUS
  <1> HIDE DEF n, pre, post
  <1>6. Lost(r, l, n, pre, post)
    BY <1>1, <1>2, <1>3, <1>5, RemoveNodeIs
  <1>7. /\ r \in ListType /\ r.live = l.live \ {n} /\ r.count = l.count - 1
        /\ \A m \in Nodes : r.next[m] = IF m = n THEN Null ELSE IF m = pre THEN post ELSE l.next[m]
    BY <1>6 DEF Lost
  <1>8. PICK t : Takes(t, s, k)
    <2>1. Takes(RemoveAt(s, k), s, k)
      BY <1>1, RemovedAt DEF Takes
    <2> QED
      BY <2>1
  <1>9. Chained(r, t) /\ Distinct(t) /\ t \in Seq(Nodes) /\ Len(t) = Len(s) - 1
    <2>1. Chained(RemoveNode(l, s[k]), t) /\ Distinct(t)
      BY <1>1, <1>3, <1>8, ChainRemoved
    <2> QED
      BY <1>8, <2>1 DEF Takes
  <1> DEFINE From(i) == IF i < k THEN i ELSE i + 1
  <1>10. \A i \in 1..Len(t) : From(i) \in 1..Len(s) /\ From(i) # k /\ t[i] = s[From(i)]
    BY <1>1, <1>8 DEF Takes
  <1>11. \A j \in 1..Len(s) : j # k => \E i \in 1..Len(t) : t[i] = s[j]
    <2>1. SUFFICES ASSUME NEW j \in 1..Len(s), j # k PROVE \E i \in 1..Len(t) : t[i] = s[j]
      OBVIOUS
    <2>2. CASE j < k
      <3>1. j \in 1..Len(t) /\ From(j) = j
        BY <1>1, <1>9, <2>2
      <3> QED
        BY <1>10, <3>1
    <2>3. CASE j > k
      <3>1. j - 1 \in 1..Len(t) /\ From(j - 1) = j
        BY <1>1, <1>9, <2>3
      <3> QED
        BY <1>10, <3>1
    <2> QED
      BY <1>1, <2>1, <2>2, <2>3
  <1>12. \A i, j \in 1..Len(t) : From(i) = From(j) => i = j
    BY <1>1, <1>9
  <1> HIDE DEF From
  <1>13. ChainOf(r, h, t)
    <2>1. \A i \in 1..Len(t) : t[i] \in r.live
      <3>1. \A i \in 1..Len(t) : s[From(i)] # s[k] /\ s[From(i)] \in l.live
        BY <1>1, <1>10 DEF Distinct
      <3> QED
        BY <1>5, <1>7, <1>10, <3>1
    <2>2. \A i, j \in 1..Len(t) : h[t[i]].id = h[t[j]].id => i = j
      <3>1. \A i, j \in 1..Len(s) : h[s[i]].id = h[s[j]].id => i = j
        BY DEF Sane, ChainOf
      <3> QED
        BY <1>10, <1>12, <3>1
    <2> QED
      BY <1>9, <2>1, <2>2 DEF ChainOf
  <1>14. ASSUME NEW m \in l.live, m # n, m # pre
         PROVE  l.next[m] # n
    <2>1. CASE CutOff(l, s, m)
      BY <1>1, <1>5, <2>1 DEF Sane
    <2>2. CASE ~CutOff(l, s, m)
      <3>1. PICK i \in 1..Len(s) : m = s[i]
        BY <2>2 DEF CutOff
      <3>2. l.next[m] = IF i = Len(s) THEN Null ELSE s[i + 1]
        BY <1>1, <3>1 DEF Chained
      <3>3. ASSUME l.next[m] = n PROVE FALSE
        <4>1. i # Len(s) /\ s[i + 1] = s[k] /\ i + 1 \in 1..Len(s)
          BY <1>1, <1>5, <3>1, <3>2, <3>3
        <4>2. i + 1 = k
          BY <1>1, <4>1 DEF Distinct
        <4>3. k # 1 /\ k - 1 = i
          BY <3>1, <4>2
        <4> QED
          BY <1>4, <1>14, <3>1, <4>3
      <3> QED
        BY <3>3
    <2> QED
      BY <2>1, <2>2
  <1>15. ASSUME NEW m \in r.live
         PROVE  LeadsOn(r, h, m)
    <2>1. m \in l.live /\ m # n /\ m \in Nodes /\ LeadsOn(l, h, m)
      BY <1>1, <1>7, <1>15 DEF Sane
    <2>2. CASE m # pre
      <3>1. r.next[m] = l.next[m] /\ l.next[m] # n
        BY <1>7, <1>14, <2>1, <2>2
      <3> QED
        BY <1>7, <2>1, <3>1 DEF LeadsOn
    <2>3. CASE m = pre
      <3>1. r.next[m] = post
        BY <1>7, <2>1, <2>3
      <3>2. k # 1 /\ k - 1 \in 1..Len(s) /\ m = s[k - 1] /\ m # Null
        BY <1>1, <1>4, <2>1, <2>3, NullIsNoNode
      <3>3. SUFFICES ASSUME post # Null
                     PROVE  post \in r.live /\ h[post].id # h[m].id /\ h[m].priority <= h[post].priority
        BY <3>1 DEF LeadsOn
      <3>4. k + 1 \in 1..Len(s) /\ post = s[k + 1]
        BY <1>1, <1>4, <3>3
      <3>5. h[post].id # h[m].id
        <4>1. k + 1 # k - 1
          OBVIOUS
        <4> QED
          BY <3>2, <3>4, <4>1 DEF Sane, ChainOf
      <3>6. post \in r.live
        <4>1. s[k + 1] # s[k] /\ s[k + 1] \in l.live
          BY <1>1, <3>4 DEF Distinct
        <4> QED
          BY <1>5, <1>7, <3>4, <4>1
      <3>7. l.next[m] = n
        BY <1>1, <1>5, <3>2 DEF Chained
      <3>8. h[m].priority <= h[n].priority /\ h[n].priority <= h[post].priority
        <4>1. LeadsOn(l, h, m) /\ LeadsOn(l, h, n) /\ l.next[n] = post /\ n # Null
          BY <1>2, <1>5, <2>1, NullIsNoNode DEF Sane
        <4> QED
          BY <3>3, <3>7, <4>1 DEF LeadsOn
      <3>9. h[m].priority \in Nat /\ h[n].priority \in Nat /\ h[post].priority \in Nat
        BY <1>2, <1>7, <2>1, <3>6, HookAssumption DEF Sane, Rounded
      <3>10. h[m].priority <= h[post].priority
        BY <3>8, <3>9
      <3> QED
        BY <3>5, <3>6, <3>10
    <2> QED
      BY <2>2, <2>3
  <1>16. ASSUME NEW m \in Nodes, CutOff(r, t, m), NEW i \in 1..Len(t) PROVE r.next[m] # t[i]
    <2>1. m \in l.live /\ m # n /\ \A j \in 1..Len(t) : m # t[j]
      BY <1>7, <1>16 DEF CutOff
    <2>2. \A j \in 1..Len(s) : m # s[j]
      BY <1>5, <1>11, <2>1
    <2>3. m # pre
      <3>1. CASE k = 1
        BY <1>4, <3>1, NullIsNoNode
      <3>2. CASE k # 1
        <4>1. k - 1 \in 1..Len(s)
          BY <1>1, <3>2
        <4> QED
          BY <1>4, <2>2, <3>2, <4>1
      <3> QED
        BY <3>1, <3>2
    <2>4. r.next[m] = l.next[m]
      BY <1>7, <2>1, <2>3
    <2>5. \A j \in 1..Len(s) : l.next[m] # s[j]
      BY <2>1, <2>2 DEF Sane, CutOff
    <2> QED
      BY <1>10, <2>4, <2>5
  <1>17. Sane(r, h, t)
    <2>1. r.count = Cardinality(r.live)
      BY <1>3, <1>7
    <2>2. \A m \in r.live : h[m].id \in Ids /\ h[m].priority \in Rounded
      BY <1>7 DEF Sane
    <2> QED
      BY <1>7, <1>13, <1>15, <1>16, <2>1, <2>2 DEF Sane
  <1> QED
    BY <1>5, <1>7, <1>10, <1>17

\* Hooks in nodes that are not live do not matter.
LEMMA SaneHooks ==
    ASSUME NEW l, NEW h, NEW s, Sane(l, h, s), NEW g, \A m \in l.live : g[m] = h[m]
    PROVE  Sane(l, g, s)
  <1>1. ChainOf(l, g, s)
    <2>1. \A i \in 1..Len(s) : g[s[i]] = h[s[i]]
      BY DEF Sane, ChainOf
    <2> QED
      BY <2>1 DEF Sane, ChainOf
  <1>2. ASSUME NEW m \in l.live PROVE g[m].id \in Ids /\ g[m].priority \in Rounded /\ LeadsOn(l, g, m)
    BY DEF Sane, LeadsOn
  <1> QED
    BY <1>1, <1>2 DEF Sane

\* insert_before of a node of the chain, for a hook with a new id, behind
\* no greater priority and before no lower one.
LEMMA SaneInserted ==
    ASSUME IsFiniteSet(Nodes), NEW l, NEW h, NEW s, Sane(l, h, s), NEW k \in 1..Len(s),
           NEW n \in Nodes \ l.live, h[n].id \in Ids, h[n].priority \in Rounded,
           \A i \in 1..Len(s) : h[s[i]].id # h[n].id,
           h[n].priority <= h[s[k]].priority,
           \A i \in 1..(k - 1) : h[s[i]].priority <= h[n].priority,
           NEW r, r = InsertBefore(l, n, s[k])
    PROVE  r.live = l.live \cup {n} /\ \E t : Sane(r, h, t)
  <1> DEFINE post == s[k]
             pre == IF k = 1 THEN Null ELSE s[k - 1]
  <1>1. /\ l \in ListType /\ s \in Seq(Nodes) /\ Distinct(s) /\ Chained(l, s) /\ Len(s) \in Nat
        /\ l.live \subseteq Nodes /\ l.count = Cardinality(l.live)
        /\ \A i \in 1..Len(s) : s[i] \in l.live /\ s[i] \in Nodes /\ s[i] # Null
    BY LenProperties, ElementOfSeq, NullIsNoNode DEF Sane, ChainOf, ListType
  <1>2. n \notin l.live /\ n \in Nodes /\ n # Null /\ IsFiniteSet(l.live) /\ l.count \in Nat
        /\ Cardinality(l.live \cup {n}) = l.count + 1
    <2>1. n \notin l.live /\ n \in Nodes /\ n # Null
      BY NullIsNoNode
    <2>2. IsFiniteSet(l.live) /\ l.count \in Nat
      BY <1>1, FS_Subset, FS_CardinalityType
    <2>3. Cardinality(l.live \cup {n}) = Cardinality(l.live) + 1
      BY <2>1, <2>2, FS_AddElement
    <2> QED
      BY <1>1, <2>1, <2>2, <2>3
  <1>3. pre \in Pointers /\ post \in Pointers /\ post # Null /\ post \in l.live
    BY <1>1 DEF Pointers
  <1>4. r = InsertBetween(l, n, pre, post)
    <2>1. l.prev[s[k]] = pre
      BY <1>1 DEF Chained
    <2> QED
      BY <1>1, <2>1 DEF InsertBefore
  <1>5. post = s[k] /\ pre = IF k = 1 THEN Null ELSE s[k - 1]
    OBVIOUS
  <1> HIDE DEF pre, post
  <1>6. Gained(r, l, n, pre, post)
    BY <1>1, <1>2, <1>3, <1>4, InsertBetweenIs
  <1>7. /\ r \in ListType /\ r.live = l.live \cup {n} /\ r.count = l.count + 1
        /\ \A m \in Nodes : r.next[m] = IF m = n THEN post ELSE IF m = pre THEN n ELSE l.next[m]
    BY <1>6 DEF Gained
  <1>8. PICK t : Puts(t, s, k, n)
    <2>1. k \in 1..(Len(s) + 1)
      BY <1>1
    <2> QED
      BY <1>1, <1>2, <2>1, InsertAtPuts
  <1>9. Chained(r, t) /\ Distinct(t) /\ t \in Seq(Nodes) /\ Len(t) = Len(s) + 1
    <2>1. n \notin ToSet(s)
      BY <1>1, <1>2, Elements
    <2>2. Chained(InsertBetween(l, n, pre, s[k]), t) /\ Distinct(t)
      BY <1>1, <1>2, <1>3, <1>5, <1>8, <2>1, ChainInserted
    <2> QED
      BY <1>4, <1>5, <1>8, <2>2 DEF Puts
  <1> DEFINE From(i) == IF i < k THEN i ELSE i - 1
  <1>10. \A i \in 1..Len(t) : IF i = k THEN t[i] = n ELSE From(i) \in 1..Len(s) /\ t[i] = s[From(i)]
    BY <1>1, <1>8 DEF Puts
  <1>11. \A j \in 1..Len(s) : \E i \in 1..Len(t) : t[i] = s[j]
    <2>1. SUFFICES ASSUME NEW j \in 1..Len(s) PROVE \E i \in 1..Len(t) : t[i] = s[j]
      OBVIOUS
    <2>2. CASE j < k
      <3>1. j \in 1..Len(t) /\ From(j) = j /\ j # k
        BY <1>1, <1>9, <2>2
      <3> QED
        BY <1>10, <3>1
    <2>3. CASE ~(j < k)
      <3>1. j + 1 \in 1..Len(t) /\ From(j + 1) = j /\ j + 1 # k
        BY <1>1, <1>9, <2>3
      <3> QED
        BY <1>10, <3>1
    <2> QED
      BY <2>2, <2>3
  <1>12. \A i, j \in 1..Len(t) : i # k /\ j # k /\ From(i) = From(j) => i = j
    BY <1>1, <1>9
  <1> HIDE DEF From
  <1>13. ChainOf(r, h, t)
    <2>1. \A i \in 1..Len(t) : t[i] \in r.live
      BY <1>1, <1>7, <1>10
    <2>2. ASSUME NEW i \in 1..Len(t), NEW j \in 1..Len(t), h[t[i]].id = h[t[j]].id PROVE i = j
      <3>1. CASE i = k /\ j = k
        BY <3>1
      <3>2. CASE i = k /\ j # k
        BY <1>10, <2>2, <3>2
      <3>3. CASE i # k /\ j = k
        BY <1>10, <2>2, <3>3
      <3>4. CASE i # k /\ j # k
        BY <1>10, <1>12, <2>2, <3>4 DEF Sane, ChainOf
      <3> QED
        BY <3>1, <3>2, <3>3, <3>4
    <2> QED
      BY <1>9, <2>1, <2>2 DEF ChainOf
  <1>14. \A m \in r.live : h[m].id \in Ids /\ h[m].priority \in Rounded /\ h[m].priority \in Nat
    BY <1>7, HookAssumption DEF Sane, Rounded
  <1>15. ASSUME NEW m \in r.live
         PROVE  LeadsOn(r, h, m)
    <2>1. CASE m = n
      <3>1. r.next[m] = post
        BY <1>2, <1>7, <2>1
      <3>2. h[post].id # h[m].id /\ h[m].priority <= h[post].priority
        BY <1>5, <2>1
      <3>3. h[post].priority \in Nat /\ h[m].priority \in Nat
        BY <1>3, <1>7, <1>14
      <3> QED
        BY <1>3, <1>7, <3>1, <3>2, <3>3 DEF LeadsOn
    <2>2. CASE m # n /\ m = pre
      <3>1. r.next[m] = n /\ m \in l.live
        BY <1>1, <1>2, <1>7, <2>2
      <3>2. k # 1 /\ k - 1 \in 1..Len(s) /\ m = s[k - 1] /\ k - 1 \in 1..(k - 1)
        BY <1>1, <1>5, <2>2, <3>1, NullIsNoNode
      <3>3. h[n].id # h[m].id /\ h[m].priority <= h[n].priority
        BY <3>2
      <3>4. h[m].priority \in Nat /\ h[n].priority \in Nat
        BY <1>7, <1>14
      <3> QED
        BY <1>7, <3>1, <3>3, <3>4 DEF LeadsOn
    <2>3. CASE m # n /\ m # pre
      <3>1. r.next[m] = l.next[m] /\ LeadsOn(l, h, m)
        BY <1>1, <1>7, <2>3 DEF Sane
      <3> QED
        BY <1>7, <3>1 DEF LeadsOn
    <2> QED
      BY <2>1, <2>2, <2>3
  <1>16. ASSUME NEW m \in Nodes, CutOff(r, t, m), NEW i \in 1..Len(t) PROVE r.next[m] # t[i]
    <2>1. m # n /\ m \in l.live /\ \A j \in 1..Len(s) : m # s[j]
      <3>1. k \in 1..Len(t) /\ t[k] = n
        BY <1>1, <1>9, <1>10
      <3>2. m \in r.live /\ \A j \in 1..Len(t) : m # t[j]
        BY <1>16 DEF CutOff
      <3>3. m # n
        BY <3>1, <3>2
      <3>4. \A j \in 1..Len(s) : m # s[j]
        BY <1>11, <3>2
      <3> QED
        BY <1>7, <3>2, <3>3, <3>4
    <2>2. m # pre
      <3>1. CASE k = 1
        BY <1>5, <3>1, NullIsNoNode
      <3>2. CASE k # 1
        <4>1. k - 1 \in 1..Len(s)
          BY <1>1, <3>2
        <4> QED
          BY <1>5, <2>1, <3>2, <4>1
      <3> QED
        BY <3>1, <3>2
    <2>3. r.next[m] = l.next[m]
      BY <1>7, <2>1, <2>2
    <2>4. \A j \in 1..Len(s) : l.next[m] # s[j]
      BY <2>1 DEF Sane, CutOff
    <2>5. l.next[m] # n
      BY <1>2, <2>1 DEF Sane, LeadsOn
    <2> QED
      BY <1>10, <2>3, <2>4, <2>5
  <1>17. Sane(r, h, t)
    <2>1. r.count = Cardinality(r.live)
      BY <1>2, <1>7
    <2> QED
      BY <1>7, <1>13, <1>14, <1>15, <1>16, <2>1 DEF Sane
  <1> QED
    BY <1>7, <1>17

\* insert_before of a null node: what was in the list is cut off.
LEMMA SaneRestarted ==
    ASSUME IsFiniteSet(Nodes), NEW l, NEW h, NEW s, Sane(l, h, s),
           NEW n \in Nodes \ l.live, h[n].id \in Ids, h[n].priority \in Rounded,
           NEW r, r = InsertBefore(l, n, Null)
    PROVE  r.live = l.live \cup {n} /\ \E t : Sane(r, h, t)
  <1> DEFINE t == <<n>>
  <1>1. l \in ListType /\ l.live \subseteq Nodes /\ l.count = Cardinality(l.live) /\ Null \in Pointers
    BY DEF Sane, ListType, Pointers
  <1>2. n \notin l.live /\ n \in Nodes /\ n # Null /\ IsFiniteSet(l.live) /\ l.count \in Nat
        /\ Cardinality(l.live \cup {n}) = l.count + 1
    <2>1. n \notin l.live /\ n \in Nodes /\ n # Null
      BY NullIsNoNode
    <2>2. IsFiniteSet(l.live) /\ l.count \in Nat
      BY <1>1, FS_Subset, FS_CardinalityType
    <2>3. Cardinality(l.live \cup {n}) = Cardinality(l.live) + 1
      BY <2>1, <2>2, FS_AddElement
    <2> QED
      BY <1>1, <2>1, <2>2, <2>3
  <1>3. r = InsertBetween(l, n, Null, Null)
    BY DEF InsertBefore
  <1>4. Gained(r, l, n, Null, Null)
    BY <1>1, <1>2, <1>3, InsertBetweenIs
  <1>5. /\ r \in ListType /\ r.live = l.live \cup {n} /\ r.count = l.count + 1
        /\ \A m \in Nodes : r.next[m] = IF m = n THEN Null ELSE l.next[m]
    BY <1>4, NullIsNoNode DEF Gained
  <1>6. Chained(r, t) /\ Distinct(t)
    BY <1>1, <1>2, <1>3, ChainRestarted
  <1>7. t \in Seq(Nodes) /\ Len(t) = 1 /\ t[1] = n /\ \A i \in 1..Len(t) : i = 1
    BY <1>2
  <1> HIDE DEF t
  <1>8. ChainOf(r, h, t)
    BY <1>5, <1>6, <1>7 DEF ChainOf
  <1>9. ASSUME NEW m \in r.live
        PROVE  h[m].id \in Ids /\ h[m].priority \in Rounded /\ LeadsOn(r, h, m)
    <2>1. CASE m = n
      BY <1>2, <1>5, <2>1 DEF LeadsOn
    <2>2. CASE m # n
      <3>1. m \in l.live /\ r.next[m] = l.next[m] /\ LeadsOn(l, h, m)
        BY <1>1, <1>5, <2>2 DEF Sane
      <3> QED
        BY <1>5, <3>1 DEF LeadsOn, Sane
    <2> QED
      BY <2>1, <2>2
  <1>10. ASSUME NEW m \in Nodes, CutOff(r, t, m), NEW i \in 1..Len(t) PROVE r.next[m] # t[i]
    <2>1. m # n /\ m \in l.live
      BY <1>5, <1>7, <1>10 DEF CutOff
    <2>2. r.next[m] = l.next[m] /\ l.next[m] # n
      BY <1>2, <1>5, <2>1 DEF Sane, LeadsOn
    <2> QED
      BY <1>7, <2>2
  <1>11. Sane(r, h, t)
    <2>1. r.count = Cardinality(r.live)
      BY <1>2, <1>5
    <2> QED
      BY <1>5, <1>8, <1>9, <1>10, <2>1 DEF Sane
  <1> QED
    BY <1>5, <1>11

\* The fold of WithoutId, over any nodes.
Removed(l, S) == FoldSet(LAMBDA m, acc : RemoveNode(acc, m), l, S)

\* f is the function that the fold chooses.
FoldOf(f, l, S) ==
    f = [s \in SUBSET S |-> IF s = {} THEN l
                            ELSE RemoveNode(f[s \ {CHOOSE x \in s : TRUE}], CHOOSE x \in s : TRUE)]

\* By the definition of the fold.
LEMMA RemovedDef == ASSUME NEW l, NEW S PROVE Removed(l, S) = (CHOOSE f : FoldOf(f, l, S))[S]
  BY DEF Removed, FoldSet, MapThenFoldSet, FoldOf

\* Without nodes the list stays as it is.
LEMMA RemovedNone == ASSUME NEW l PROVE Removed(l, {}) = l
  <1>1. FoldOf([s \in SUBSET {} |-> l], l, {})
    BY DEF FoldOf
  <1>2. PICK f : FoldOf(f, l, {}) /\ Removed(l, {}) = f[{}]
    BY <1>1, RemovedDef
  <1> QED
    BY <1>2 DEF FoldOf

\* With one, that is removed.
LEMMA RemovedOne == ASSUME NEW l, NEW m PROVE Removed(l, {m}) = RemoveNode(l, m)
  <1> DEFINE g == [s \in SUBSET {m} |-> IF s = {} THEN l ELSE RemoveNode(l, m)]
  <1>1. \A s \in SUBSET {m} : s # {} => s = {m} /\ (CHOOSE x \in s : TRUE) = m
    OBVIOUS
  <1>2. FoldOf(g, l, {m})
    <2>1. ASSUME NEW s \in SUBSET {m}, s # {}
          PROVE  RemoveNode(g[s \ {CHOOSE x \in s : TRUE}], CHOOSE x \in s : TRUE) = RemoveNode(l, m)
      <3>1. s \ {CHOOSE x \in s : TRUE} = {}
        BY <1>1, <2>1
      <3>2. g[{}] = l
        OBVIOUS
      <3> QED
        BY <1>1, <2>1, <3>1, <3>2
    <2>2. g = [s \in SUBSET {m} |-> IF s = {} THEN l
                 ELSE RemoveNode(g[s \ {CHOOSE x \in s : TRUE}], CHOOSE x \in s : TRUE)]
      BY <2>1
    <2> QED
      BY <2>2 DEF FoldOf
  <1> HIDE DEF g
  <1>3. PICK f : FoldOf(f, l, {m}) /\ Removed(l, {m}) = f[{m}]
    BY <1>2, RemovedDef
  <1>4. f[{}] = l
    BY <1>3 DEF FoldOf
  <1>5. {m} \in SUBSET {m} /\ {m} # {} /\ (CHOOSE x \in {m} : TRUE) = m /\ {m} \ {m} = {}
    BY <1>1
  <1>6. f[{m}] = RemoveNode(f[{m} \ {CHOOSE x \in {m} : TRUE}], CHOOSE x \in {m} : TRUE)
    BY <1>3, <1>5 DEF FoldOf
  <1> QED
    BY <1>3, <1>4, <1>5, <1>6

\* What the loop of hook_remove does, and that it takes what has this id only.
LEMMA WithoutIdIs ==
    ASSUME IsFiniteSet(Nodes), NEW l, NEW s, Sane(l, hook, s), NEW id, NEW r, r = WithoutId(l, id)
    PROVE  /\ \E t : Sane(r, hook, t) /\ \A i \in 1..Len(t) : hook[t[i]].id # id
           /\ r.live \subseteq l.live
           /\ \A m \in l.live : hook[m].id # id => m \in r.live
           /\ (\A i \in 1..Len(s) : hook[s[i]].id # id) => r = l
  <1> DEFINE S == {m \in Reachable(l) : hook[m].id = id}
  <1>1. s \in Seq(Nodes) /\ Distinct(s) /\ Chained(l, s)
    BY DEF Sane, ChainOf
  <1>2. Reachable(l) = ToSet(s) /\ \A x : x \in ToSet(s) <=> \E i \in 1..Len(s) : x = s[i]
    BY <1>1, ReachableIs, Elements
  <1>3. r = Removed(l, S)
    BY DEF WithoutId, Removed
  <1>4. CASE \A i \in 1..Len(s) : hook[s[i]].id # id
    <2>1. S = {}
      BY <1>2, <1>4
    <2>2. r = l
      BY <1>3, <2>1, RemovedNone
    <2> QED
      BY <1>4, <2>2
  <1>5. CASE \E i \in 1..Len(s) : hook[s[i]].id = id
    <2>1. PICK k \in 1..Len(s) : hook[s[k]].id = id
      BY <1>5
    <2>2. \A i \in 1..Len(s) : hook[s[i]].id = id => i = k
      BY <2>1 DEF Sane, ChainOf
    <2>3. S = {s[k]}
      BY <1>2, <2>1, <2>2
    <2>4. r = RemoveNode(l, s[k])
      BY <1>3, <2>3, RemovedOne
    <2>5. r.live = l.live \ {s[k]}
      BY <2>4, SaneRemoved
    <2>6. PICK t : Sane(r, hook, t) /\ \A i \in 1..Len(t) : \E j \in 1..Len(s) : j # k /\ t[i] = s[j]
      BY <2>4, SaneRemoved
    <2>7. \A i \in 1..Len(t) : hook[t[i]].id # id
      BY <2>2, <2>6
    <2> QED
      BY <2>1, <2>5, <2>6, <2>7
  <1> QED
    BY <1>4, <1>5

\* The insertion of hook_add, once the hook with the same id is gone.
LEMMA AddedIs ==
    ASSUME IsFiniteSet(Nodes), NEW l, NEW s, Sane(l, hook, s), NEW id \in Ids, NEW priority \in Priorities,
           \A i \in 1..Len(s) : hook[s[i]].id # id, NEW n \in Nodes \ l.live,
           NEW g, g[n].id = id, g[n].priority = Float32[priority], \A m \in l.live : g[m] = hook[m],
           NEW r, r = InsertBefore(l, n, Place(l, priority))
    PROVE  r.live = l.live \cup {n} /\ \E t : Sane(r, g, t)
  <1>1. s \in Seq(Nodes) /\ Distinct(s) /\ Chained(l, s) /\ \A i \in 1..Len(s) : s[i] \in l.live
    BY DEF Sane, ChainOf
  <1>2. PICK k \in 1..(Len(s) + 1) :
              /\ Place(l, priority) = NodeAt(s, k)
              /\ k \in 1..Len(s) => hook[s[k]].priority > priority
              /\ \A i \in 1..(k - 1) : ~(hook[s[i]].priority > priority)
    BY <1>1, PlaceIs
  <1>3. Sane(l, g, s)
    BY SaneHooks
  <1>4. \A i \in 1..Len(s) : g[s[i]] = hook[s[i]]
    BY <1>1
  <1> DEFINE f == Float32[priority]
  <1>7. f \in Rounded /\ g[n].priority = f
    BY HookAssumption DEF Rounded
  <1>8. ASSUME NEW q \in Rounded PROVE (q > priority => f <= q) /\ (~(q > priority) => q <= f)
    <2>1. q \in Priorities /\ Float32[q] = q /\ q \in Nat /\ priority \in Nat
      BY HookAssumption DEF Rounded
    <2>2. q > priority => priority <= q
      BY <2>1
    <2>3. ~(q > priority) => q <= priority
      BY <2>1
    <2> QED
      BY <2>1, <2>2, <2>3, HookAssumption
  <1> HIDE DEF f
  <1>9. \A i \in 1..Len(s) : hook[s[i]].priority \in Rounded
    BY <1>1 DEF Sane
  <1>5. CASE k \in 1..Len(s)
    <2>1. r = InsertBefore(l, n, s[k])
      BY <1>2, <1>5 DEF NodeAt
    <2>2. \A i \in 1..(k - 1) : i \in 1..Len(s)
      BY <1>1, <1>5, LenProperties
    <2>3. /\ \A i \in 1..Len(s) : g[s[i]].id # g[n].id
          /\ g[n].priority <= g[s[k]].priority
          /\ \A i \in 1..(k - 1) : g[s[i]].priority <= g[n].priority
      BY <1>2, <1>4, <1>5, <1>7, <1>8, <1>9, <2>2
    <2> QED
      BY <1>3, <1>5, <1>7, <2>1, <2>3, SaneInserted
  <1>6. CASE k \notin 1..Len(s)
    <2>1. r = InsertBefore(l, n, Null)
      BY <1>2, <1>6 DEF NodeAt
    <2> QED
      BY <1>3, <1>7, <2>1, SaneRestarted
  <1> QED
    BY <1>5, <1>6

-----------------------------------------------------------------------------
(* The table and the calls.                                                *)

Calls == [active : BOOLEAN, iter : Iterators, runs : Hooks]

\* The invariant of the table, for any number of callers.
TableInv == HookTypeOK /\ \E s : Sane(table, hook, s)

\* What the call k has stored leads on from the hook it runs.
Continues(k, l, h) ==
    k.active => /\ k.iter.started
                /\ k.iter.next # Null =>
                      /\ k.iter.next \in l.live /\ h[k.iter.next].id # k.runs.id
                      /\ k.runs.priority <= h[k.iter.next].priority

\* No freed node was read, and none is stored.
Going == ~fault /\ \A c \in Callers : Continues(call[c], table, hook)

\* The invariant of the calls: so it is until a caller removes the node that the
\* call of another has stored.
CallInv == ~raced => Going

\* The records of a call that is not in progress.
LEMMA NoCallIs == NoHook \in Hooks /\ NoCall \in Calls /\ ~NoCall.active
  <1>1. NoHook \in Hooks
    BY HookAssumption DEF NoHook, Hooks
  <1>2. GetIterator \in Iterators
    BY DEF GetIterator, Iterators, Pointers
  <1> QED
    BY <1>1, <1>2 DEF NoCall, Calls

\* Such a list has its type.
LEMMA SaneTyped ==
    ASSUME IsFiniteSet(Nodes), NEW l, NEW h, NEW s, Sane(l, h, s)
    PROVE  l \in Lists
  <1>1. l \in ListType /\ l.count = Cardinality(l.live) /\ l.live \in SUBSET Nodes
    BY DEF Sane, ListType
  <1>2. l.count \in 0..Cardinality(Nodes)
    <2>1. /\ Cardinality(l.live) <= Cardinality(Nodes)
          /\ Cardinality(l.live) \in Nat /\ Cardinality(Nodes) \in Nat
      BY <1>1, FS_Subset, FS_CardinalityType
    <2> QED
      BY <1>1, <2>1
  <1> QED
    BY <1>1, <1>2 DEF ListType, Lists

\* The first node of a table is live.
LEMMA FirstIsLive ==
    ASSUME NEW l, NEW h, NEW s, Sane(l, h, s)
    PROVE  l.first = Null \/ l.first \in l.live
  <1>1. s \in Seq(Nodes) /\ Chained(l, s) /\ \A i \in 1..Len(s) : s[i] \in l.live
    BY DEF Sane, ChainOf
  <1>2. Len(s) \in Nat
    BY <1>1, LenProperties
  <1>3. Len(s) # 0 => 1 \in 1..Len(s)
    BY <1>2
  <1> QED
    BY <1>1, <1>3 DEF Chained

\* One turn of the loop of hook_call: the hook that runs next is the one of the
\* node the iterator goes on with, and what it stores leads on from there.
LEMMA RunsIs ==
    ASSUME TableInv, NEW it \in Iterators, NEW n, n = IF it.started THEN it.next ELSE table.first,
           n = Null \/ n \in table.live,
           NEW k, k = Runs(IteratorNext(table, it))
    PROVE  /\ k \in Calls /\ Continues(k, table, hook)
           /\ k.active => k.iter.value \in Nodes /\ n \in table.live /\ k.runs = hook[n]
  <1> DEFINE j == IteratorNext(table, it)
  <1>1. PICK s : Sane(table, hook, s)
    BY DEF TableInv
  <1>2. table \in ListType /\ table.live \subseteq Nodes /\ hook \in [Nodes -> Hooks]
    BY <1>1 DEF Sane, TableInv, HookTypeOK, ListType
  <1>3. /\ j \in Iterators /\ j.started /\ j.value = n
        /\ j.next = IF n = Null THEN Null ELSE table.next[n]
    BY <1>2, NextIs
  <1> DEFINE e == [j EXCEPT !.prev = Null]
  <1>4. k = IF j.value = Null THEN NoCall ELSE [active |-> TRUE, iter |-> e, runs |-> hook[j.value]]
    BY DEF Runs
  <1>7. e \in Iterators /\ e.started /\ e.value = n /\ e.next = j.next
    BY <1>3 DEF Iterators, Pointers
  <1> HIDE DEF e
  <1> HIDE DEF j
  <1>5. CASE n = Null
    BY <1>3, <1>4, <1>5, NoCallIs DEF Continues
  <1>6. CASE n # Null
    <2>1. n \in table.live /\ n \in Nodes /\ hook[n] \in Hooks /\ LeadsOn(table, hook, n)
      BY <1>1, <1>2, <1>6 DEF Sane
    <2>2. k = [active |-> TRUE, iter |-> e, runs |-> hook[n]]
      BY <1>3, <1>4, <1>6
    <2>3. k \in Calls /\ k.active /\ k.iter = e /\ k.runs = hook[n]
      BY <1>7, <2>1, <2>2 DEF Calls
    <2>4. Continues(k, table, hook)
      BY <1>3, <1>6, <1>7, <2>1, <2>3 DEF Continues, LeadsOn
    <2> QED
      BY <1>7, <2>1, <2>3, <2>4
  <1> QED
    BY <1>5, <1>6

\* The empty list of a new table.
LEMMA SaneNew == ASSUME NEW h PROVE Sane(NewList, h, <<>>)
  <1>1. NewList \in ListType
    BY DEF NewList, ListType, Pointers
  <1>2. NewList.live = {} /\ NewList.count = 0 /\ NewList.first = Null /\ NewList.last = Null
    BY DEF NewList
  <1>3. Cardinality({}) = 0
    BY FS_EmptySet
  <1>4. <<>> \in Seq(Nodes) /\ Len(<<>>) = 0 /\ \A i \in 1..0 : FALSE
    OBVIOUS
  <1> HIDE DEF NewList
  <1>5. ChainOf(NewList, h, <<>>)
    BY <1>2, <1>4 DEF ChainOf, Chained, Distinct
  <1> QED
    BY <1>1, <1>2, <1>3, <1>4, <1>5 DEF Sane, CutOff

\* The initial state.
LEMMA HookInitKeeps == ASSUME IsFiniteSet(Nodes), HookInit PROVE TableInv /\ Going
  <1>1. Sane(table, hook, <<>>)
    BY SaneNew DEF HookInit
  <1>2. \A c \in Callers : call[c] = NoCall
    BY DEF HookInit
  <1>3. HookTypeOK
    <2>1. table \in Lists
      BY <1>1, SaneTyped
    <2>2. hook \in [Nodes -> Hooks] /\ call \in [Callers -> Calls]
      BY NoCallIs DEF HookInit
    <2>3. \A c \in Callers : call[c].active => call[c].iter.value \in Nodes
      BY <1>2, NoCallIs
    <2> QED
      BY <2>1, <2>2, <2>3 DEF HookInit, HookTypeOK, Calls
  <1>4. Going
    BY <1>2, NoCallIs DEF HookInit, Going, Continues
  <1> QED
    BY <1>1, <1>3, <1>4 DEF TableInv

\* The step takes no hook out of the table but, when it may, those of one id.
OnlyOne(c) ==
    /\ \A m \in table.live \cap table'.live : hook'[m] = hook[m]
    /\ \/ table.live \subseteq table'.live
       \/ \E id \in Ids :
             /\ MayRemove(c, id)
             /\ \A m \in table.live : hook[m].id # id => m \in table'.live

\* hook_remove.
LEMMA RemoveKeeps ==
    ASSUME IsFiniteSet(Nodes), TableInv, NEW c \in Callers, HookRemove(c)
    PROVE  TableInv' /\ OnlyOne(c)
  <1>1. PICK id \in Ids : /\ MayRemove(c, id) /\ table' = WithoutId(table, id)
                          /\ hook' = Stored(table'.live) /\ registered' = {h \in registered : h.id # id}
    BY DEF HookRemove
  <1>2. UNCHANGED <<status, call, fault>> /\ raced' \in BOOLEAN /\ HookTypeOK
    BY DEF HookRemove, TableInv, HookTypeOK
  <1>3. PICK s : Sane(table, hook, s)
    BY DEF TableInv
  <1>4. /\ \E t : Sane(table', hook, t)
        /\ \A m \in table.live : hook[m].id # id => m \in table'.live
    BY <1>1, <1>3, WithoutIdIs
  <1>5. PICK t : Sane(table', hook, t)
    BY <1>4
  <1>6. table'.live \subseteq Nodes
    BY <1>5 DEF Sane, ListType
  <1>7. hook' \in [Nodes -> Hooks] /\ \A m \in table'.live : hook'[m] = hook[m]
    BY <1>1, <1>2, <1>6, NoCallIs DEF Stored, HookTypeOK
  <1>8. Sane(table', hook', t)
    BY <1>5, <1>7, SaneHooks
  <1>9. table' \in Lists
    BY <1>8, SaneTyped
  <1>10. HookTypeOK'
    BY <1>1, <1>2, <1>7, <1>9 DEF HookTypeOK
  <1>11. OnlyOne(c)
    BY <1>1, <1>4, <1>7 DEF OnlyOne
  <1> QED
    BY <1>8, <1>10, <1>11 DEF TableInv

\* hook_add.
LEMMA AddKeeps ==
    ASSUME IsFiniteSet(Nodes), TableInv, NEW c \in Callers, HookAdd(c)
    PROVE  TableInv' /\ OnlyOne(c)
  <1>1. PICK id \in Ids, priority \in Priorities, n \in Free :
          /\ MayRemove(c, id) \/ id \notin {h.id : h \in HooksIn(table)}
          /\ table' = InsertBefore(WithoutId(table, id), n, Place(WithoutId(table, id), priority))
          /\ hook' = [Stored(table'.live) EXCEPT ![n] = [id |-> id, priority |-> Float32[priority]]]
          /\ registered' = {h \in registered : h.id # id} \cup {hook'[n]}
    BY DEF HookAdd
  <1>2. UNCHANGED <<status, call, fault>> /\ raced' \in BOOLEAN /\ HookTypeOK /\ n \in Nodes /\ n \notin table.live
    BY <1>1 DEF HookAdd, TableInv, HookTypeOK, Free
  <1>3. PICK s : Sane(table, hook, s)
    BY DEF TableInv
  <1> DEFINE l == WithoutId(table, id)
             p == Place(l, priority)
  <1>4. /\ \E t : Sane(l, hook, t) /\ \A i \in 1..Len(t) : hook[t[i]].id # id
        /\ l.live \subseteq table.live
        /\ \A m \in table.live : hook[m].id # id => m \in l.live
        /\ (\A i \in 1..Len(s) : hook[s[i]].id # id) => l = table
    BY <1>3, WithoutIdIs
  <1>5. table' = InsertBefore(l, n, p) /\ p = Place(l, priority)
    BY <1>1
  <1> HIDE DEF l, p
  <1>6. PICK t : Sane(l, hook, t) /\ \A i \in 1..Len(t) : hook[t[i]].id # id
    BY <1>4
  <1>7. n \in Nodes \ l.live
    BY <1>2, <1>4
  <1>8. table'.live = l.live \cup {n}
    <2>1. l \in ListType
      BY <1>6 DEF Sane
    <2> QED
      BY <1>5, <2>1 DEF InsertBefore, InsertBetween, ListType
  <1>9. /\ hook' \in [Nodes -> Hooks] /\ hook'[n] = [id |-> id, priority |-> Float32[priority]]
        /\ \A m \in l.live : hook'[m] = hook[m]
    <2>1. l.live \subseteq Nodes
      BY <1>6 DEF Sane, ListType
    <2>2. [id |-> id, priority |-> Float32[priority]] \in Hooks
      BY HookAssumption DEF Hooks
    <2>3. Stored(table'.live) \in [Nodes -> Hooks] /\ \A m \in l.live : Stored(table'.live)[m] = hook[m]
      BY <1>2, <1>8, <2>1, NoCallIs DEF Stored, HookTypeOK
    <2> QED
      BY <1>1, <1>2, <1>7, <2>1, <2>2, <2>3
  <1>10. PICK u : Sane(table', hook', u)
    <2>1. hook'[n].id = id /\ hook'[n].priority = Float32[priority]
      BY <1>9
    <2> QED
      BY <1>5, <1>6, <1>7, <1>9, <2>1, AddedIs
  <1>11. table' \in Lists
    BY <1>10, SaneTyped
  <1>12. HookTypeOK'
    <2>1. registered' \subseteq Hooks
      BY <1>1, <1>2, <1>9 DEF HookTypeOK
    <2> QED
      BY <1>2, <1>9, <1>11, <2>1 DEF HookTypeOK
  <1>13. OnlyOne(c)
    <2>0. \A m \in table.live \cap table'.live : hook'[m] = hook[m]
      BY <1>2, <1>8, <1>9
    <2>1. CASE MayRemove(c, id)
      BY <1>4, <1>8, <2>0, <2>1 DEF OnlyOne
    <2>2. CASE id \notin {h.id : h \in HooksIn(table)}
      <3>1. Reachable(table) = ToSet(s) /\ \A i \in 1..Len(s) : s[i] \in ToSet(s)
        BY <1>3, ReachableIs, Elements DEF Sane, ChainOf
      <3>2. \A i \in 1..Len(s) : hook[s[i]] \in HooksIn(table)
        BY <3>1 DEF HooksIn
      <3>3. l = table
        BY <1>4, <2>2, <3>2
      <3> QED
        BY <1>8, <2>0, <3>3 DEF OnlyOne
    <2> QED
      BY <1>1, <2>1, <2>2
  <1> QED
    BY <1>10, <1>12, <1>13 DEF TableInv

\* hook_call up to its first function.
LEMMA CallKeeps ==
    ASSUME TableInv, NEW c \in Callers, HookCall(c)
    PROVE  TableInv' /\ (Going => Going')
  <1> DEFINE k == Runs(IteratorNext(table, GetIterator))
  <1>1. call' = [call EXCEPT ![c] = k] /\ UNCHANGED <<status, table, hook, fault, raced, registered>>
    BY DEF HookCall
  <1>2. GetIterator \in Iterators /\ ~GetIterator.started
    BY DEF GetIterator, Iterators, Pointers
  <1>3. table.first = Null \/ table.first \in table.live
    BY FirstIsLive DEF TableInv
  <1>4. k \in Calls /\ Continues(k, table, hook) /\ (k.active => k.iter.value \in Nodes)
    <2>1. table.first = IF GetIterator.started THEN GetIterator.next ELSE table.first
      BY <1>2
    <2> QED
      BY <1>2, <1>3, <2>1, RunsIs
  <1> HIDE DEF k
  <1>5. HookTypeOK /\ call \in [Callers -> Calls]
    BY DEF TableInv, HookTypeOK, Calls
  <1>6. call' \in [Callers -> Calls] /\ \A d \in Callers : call'[d] = IF d = c THEN k ELSE call[d]
    BY <1>1, <1>4, <1>5
  <1>7. \A d \in Callers : call'[d].active => call'[d].iter.value \in Nodes
    BY <1>4, <1>5, <1>6 DEF HookTypeOK
  <1>8. HookTypeOK'
    BY <1>1, <1>5, <1>6, <1>7 DEF HookTypeOK, Calls
  <1>9. ASSUME Going PROVE Going'
    <2>1. \A d \in Callers : Continues(call'[d], table, hook)
      BY <1>4, <1>6, <1>9 DEF Going
    <2>2. \A d \in Callers : Continues(call'[d], table', hook')
      BY <1>1, <2>1
    <2> QED
      BY <1>1, <1>9, <2>2 DEF Going
  <1> QED
    BY <1>1, <1>8, <1>9 DEF TableInv

\* A function returns: the hook that runs next, if one does, is the one of the
\* stored node.
LEMMA ReturnKeeps ==
    ASSUME TableInv, NEW c \in Callers, FunctionReturns(c)
    PROVE  /\ TableInv'
           /\ Going => /\ Going'
                       /\ call'[c].active =>
                             /\ call[c].iter.next \in table.live /\ call[c].active
                             /\ call'[c].runs = hook[call[c].iter.next]
                       /\ \A d \in Callers : d # c => call'[d] = call[d]
  <1> DEFINE it == call[c].iter
             k == Runs(IteratorNext(table, it))
             n == IF it.started THEN it.next ELSE table.first
  <1>1. UNCHANGED <<status, table, hook, raced, registered>> /\ call[c].active
    BY DEF FunctionReturns
  <1>2. \/ call' = [call EXCEPT ![c] = NoCall] /\ fault' = fault
        \/ /\ fault' = (it.next \notin table.live \cup {Null})
           /\ call' = [call EXCEPT ![c] = IF fault' THEN NoCall ELSE k]
    BY DEF FunctionReturns
  <1>3. HookTypeOK /\ call \in [Callers -> Calls] /\ it \in Iterators /\ fault \in BOOLEAN
    BY DEF TableInv, HookTypeOK, Calls
  <1>4. table.first = Null \/ table.first \in table.live
    BY FirstIsLive DEF TableInv
  <1>5. ASSUME it.next \in table.live \cup {Null}
        PROVE  /\ k \in Calls /\ Continues(k, table, hook)
               /\ k.active => k.iter.value \in Nodes /\ n \in table.live /\ k.runs = hook[n]
    <2>1. n = Null \/ n \in table.live
      BY <1>4, <1>5
    <2> HIDE DEF n, k
    <2>2. n = (IF it.started THEN it.next ELSE table.first) /\ k = Runs(IteratorNext(table, it))
      BY DEF n, k
    <2> HIDE DEF it
    <2> QED
      BY <1>3, <2>1, <2>2, RunsIs
  <1> HIDE DEF k, it, n
  <1>6. PICK z \in {NoCall, k} :
           /\ call' = [call EXCEPT ![c] = z] /\ fault' \in BOOLEAN
           /\ z # NoCall => it.next \in table.live \cup {Null} /\ ~fault'
    <2>1. CASE call' = [call EXCEPT ![c] = NoCall] /\ fault' = fault
      BY <1>3, <2>1
    <2>2. CASE /\ fault' = (it.next \notin table.live \cup {Null})
               /\ call' = [call EXCEPT ![c] = IF fault' THEN NoCall ELSE k]
      <3>1. fault' \in BOOLEAN
        BY <2>2
      <3>2. CASE fault'
        BY <2>2, <3>1, <3>2
      <3>3. CASE ~fault'
        BY <2>2, <3>1, <3>3
      <3> QED
        BY <3>2, <3>3
    <2> QED
      BY <1>2, <2>1, <2>2
  <1>7. /\ z \in Calls /\ Continues(z, table, hook)
        /\ z.active => z.iter.value \in Nodes /\ n \in table.live /\ z.runs = hook[n]
    <2>1. CASE z = NoCall
      BY <2>1, NoCallIs DEF Continues
    <2>2. CASE z # NoCall
      BY <1>5, <1>6, <2>2
    <2> QED
      BY <2>1, <2>2
  <1>8. call' \in [Callers -> Calls] /\ \A d \in Callers : call'[d] = IF d = c THEN z ELSE call[d]
    BY <1>3, <1>6, <1>7
  <1>9. \A d \in Callers : call'[d].active => call'[d].iter.value \in Nodes
    BY <1>3, <1>7, <1>8 DEF HookTypeOK
  <1>10. HookTypeOK'
    BY <1>1, <1>3, <1>6, <1>8, <1>9 DEF HookTypeOK, Calls
  <1>11. ASSUME Going
         PROVE  /\ Going' /\ \A d \in Callers : d # c => call'[d] = call[d]
                /\ call'[c].active => /\ call[c].iter.next \in table.live /\ call[c].active
                                      /\ call'[c].runs = hook[call[c].iter.next]
    <2>1. Continues(call[c], table, hook) /\ ~fault
      BY <1>11 DEF Going
    <2>2. it.started /\ it.next \in table.live \cup {Null}
      BY <1>1, <2>1 DEF Continues, it
    <2>3. n = it.next
      BY <2>2 DEF n
    <2>4. ~fault'
      BY <1>2, <2>1, <2>2
    <2>5. \A d \in Callers : Continues(call'[d], table, hook)
      BY <1>7, <1>8, <1>11 DEF Going
    <2>6. \A d \in Callers : Continues(call'[d], table', hook')
      BY <1>1, <2>5
    <2>7. Going'
      BY <2>4, <2>6 DEF Going
    <2>8. ASSUME call'[c].active
          PROVE  it.next \in table.live /\ call'[c].runs = hook[it.next]
      BY <1>7, <1>8, <2>3, <2>8
    <2> QED
      BY <1>1, <1>8, <2>7, <2>8 DEF it
  <1> QED
    BY <1>1, <1>10, <1>11 DEF TableInv

\* hook_unload.
LEMMA UnloadKeeps == ASSUME IsFiniteSet(Nodes), TableInv, HookUnload PROVE TableInv' /\ (Going => Going')
  <1>1. /\ table' = NewList /\ hook' = [n \in Nodes |-> NoHook] /\ registered' = {} /\ UNCHANGED <<call, fault, raced>>
        /\ status' \in {"unloaded", "aborted"} /\ \A c \in Callers : ~call[c].active
    BY DEF HookUnload
  <1>2. Sane(table', hook', <<>>)
    BY <1>1, SaneNew
  <1>3. table' \in Lists
    BY <1>2, SaneTyped
  <1>4. hook' \in [Nodes -> Hooks]
    BY <1>1, NoCallIs
  <1>5. HookTypeOK'
    BY <1>1, <1>3, <1>4 DEF TableInv, HookTypeOK
  <1>6. Going => Going'
    BY <1>1 DEF Going, Continues
  <1> QED
    BY <1>2, <1>5, <1>6 DEF TableInv

\* hook_load, a fatal error, and steps that change nothing here.
LEMMA StatusKeeps ==
    ASSUME TableInv, HookLoad \/ Fatal \/ UNCHANGED hookVars
    PROVE  TableInv' /\ (Going => Going') /\ call' = call
  <1>1. UNCHANGED <<table, hook, call, fault, raced, registered>>
    BY DEF HookLoad, Fatal, hookVars
  <1>2. status' \in {"unloaded", "loaded", "fatal", "aborted"}
    BY DEF HookLoad, Fatal, hookVars, TableInv, HookTypeOK
  <1>3. HookTypeOK'
    BY <1>1, <1>2 DEF TableInv, HookTypeOK
  <1>4. Going => Going'
    BY <1>1 DEF Going, Continues
  <1> QED
    BY <1>1, <1>3, <1>4 DEF TableInv

\* The invariant of the table is inductive.
LEMMA TableNextKeeps == ASSUME IsFiniteSet(Nodes), TableInv, [HookNext]_hookVars PROVE TableInv'
  <1>1. CASE HookLoad \/ Fatal \/ UNCHANGED hookVars
    BY <1>1, StatusKeeps
  <1>2. CASE HookUnload
    BY <1>2, UnloadKeeps
  <1>3. ASSUME NEW c \in Callers, HookAdd(c) \/ HookRemove(c) \/ HookCall(c) \/ FunctionReturns(c)
        PROVE  TableInv'
    BY <1>3, AddKeeps, RemoveKeeps, CallKeeps, ReturnKeeps
  <1> QED
    BY <1>1, <1>2, <1>3 DEF HookNext

\* While a function runs it takes out its own hook only, and so never the node
\* that its call has stored; when it takes the one of another call, that is a race.
LEMMA OthersKeep ==
    ASSUME Going, NEW c \in Callers, OnlyOne(c), UNCHANGED <<call, fault>>, ~Races(c)
    PROVE  Going'
  <1>1. SUFFICES ASSUME NEW d \in Callers PROVE Continues(call[d], table', hook')
    BY DEF Going
  <1>2. Continues(call[d], table, hook)
    BY DEF Going
  <1>3. SUFFICES ASSUME call[d].active, call[d].iter.next # Null
                 PROVE  call[d].iter.next \in table'.live /\ hook'[call[d].iter.next] = hook[call[d].iter.next]
    BY <1>2 DEF Continues
  <1>4. call[d].iter.next \in table.live /\ hook[call[d].iter.next].id # call[d].runs.id
    BY <1>2, <1>3 DEF Continues
  <1>5. call[d].iter.next \in table'.live
    <2>1. CASE d # c
      BY <1>3, <1>4, <2>1 DEF Races
    <2>2. CASE d = c /\ table.live \subseteq table'.live
      BY <1>4, <2>2
    <2>3. CASE d = c /\ \E id \in Ids :
                /\ MayRemove(c, id)
                /\ \A m \in table.live : hook[m].id # id => m \in table'.live
      BY <1>3, <1>4, <2>3 DEF MayRemove
    <2> QED
      BY <2>1, <2>2, <2>3 DEF OnlyOne
  <1> QED
    BY <1>4, <1>5 DEF OnlyOne

\* So the invariant of the calls is inductive too.
LEMMA CallNextKeeps ==
    ASSUME IsFiniteSet(Nodes), TableInv, CallInv, [HookNext]_hookVars
    PROVE  CallInv'
  <1>1. SUFFICES ASSUME ~raced' PROVE Going'
    BY DEF CallInv
  <1>2. CASE HookLoad \/ Fatal \/ UNCHANGED hookVars
    <2>1. ~raced
      BY <1>1, <1>2 DEF HookLoad, Fatal, hookVars
    <2> QED
      BY <1>2, <2>1, StatusKeeps DEF CallInv
  <1>3. CASE HookUnload
    <2>1. ~raced
      BY <1>1, <1>3 DEF HookUnload
    <2> QED
      BY <1>3, <2>1, UnloadKeeps DEF CallInv
  <1>4. ASSUME NEW c \in Callers, HookAdd(c) \/ HookRemove(c)
        PROVE  Going'
    <2>1. OnlyOne(c)
      BY <1>4, AddKeeps, RemoveKeeps
    <2>2. UNCHANGED <<call, fault>> /\ raced' = (raced \/ Races(c))
      BY <1>4 DEF HookAdd, HookRemove
    <2>3. ~raced /\ ~Races(c)
      BY Zenon, <1>1, <2>2
    <2> QED
      BY <2>1, <2>2, <2>3, OthersKeep DEF CallInv
  <1>5. ASSUME NEW c \in Callers, HookCall(c) \/ FunctionReturns(c)
        PROVE  Going'
    <2>1. ~raced
      BY <1>1, <1>5 DEF HookCall, FunctionReturns
    <2>2. Going
      BY <2>1 DEF CallInv
    <2>3. CASE HookCall(c)
      BY <2>2, <2>3, CallKeeps
    <2>4. CASE FunctionReturns(c)
      BY <2>2, <2>4, ReturnKeeps
    <2> QED
      BY <1>5, <2>3, <2>4
  <1> QED
    BY <1>2, <1>3, <1>4, <1>5 DEF HookNext

-----------------------------------------------------------------------------
(* The theorems.                                                           *)

\* With any number of callers the table keeps its invariant: what a call can
\* reach is a chain with both links right, even after an insertion before a null
\* node has cut others off.
THEOREM TableInvariant == ASSUME IsFiniteSet(Nodes) PROVE HookSpec => []TableInv
  <1>1. HookInit => TableInv
    BY HookInitKeeps
  <1>2. TableInv /\ [HookNext]_hookVars => TableInv'
    BY TableNextKeeps
  <1> QED
    BY <1>1, <1>2, PTL DEF HookSpec

\* Every variable of the hook library keeps its type: in particular the count
\* of the list stays within the nodes that there are.
THEOREM HookTypeCorrect == ASSUME IsFiniteSet(Nodes) PROVE HookSpec => []HookTypeOK
  <1>1. TableInv => HookTypeOK
    BY DEF TableInv
  <1> QED
    BY <1>1, TableInvariant, PTL

\* hook_add replaces: no two functions that a call can reach have the same id.
THEOREM OneHookPerId == ASSUME IsFiniteSet(Nodes) PROVE HookSpec => []OnePerId
  <1>1. TableInv => OnePerId
    <2>1. SUFFICES ASSUME TableInv, NEW m \in Reachable(table), NEW n \in Reachable(table),
                          hook[m].id = hook[n].id
                   PROVE  m = n
      BY DEF OnePerId
    <2>2. PICK s : Sane(table, hook, s)
      BY <2>1 DEF TableInv
    <2>3. /\ Reachable(table) = ToSet(s) /\ \A x : x \in ToSet(s) <=> \E i \in 1..Len(s) : x = s[i]
          /\ \A i, j \in 1..Len(s) : hook[s[i]].id = hook[s[j]].id => i = j
      BY <2>2, ReachableIs, Elements DEF Sane, ChainOf
    <2>4. PICK i \in 1..Len(s), j \in 1..Len(s) : m = s[i] /\ n = s[j]
      BY <2>3
    <2> QED
      BY <2>1, <2>3, <2>4
  <1> QED
    BY <1>1, TableInvariant, PTL

\* Both invariants hold, with any number of callers.
THEOREM CallInvariant == ASSUME IsFiniteSet(Nodes) PROVE HookSpec => [](TableInv /\ CallInv)
  <1>1. HookInit => TableInv /\ CallInv
    BY HookInitKeeps DEF CallInv
  <1>2. TableInv /\ CallInv /\ [HookNext]_hookVars => (TableInv /\ CallInv)'
    BY TableNextKeeps, CallNextKeeps
  <1> QED
    BY <1>1, <1>2, PTL DEF HookSpec

\* Several callers may be inside the hook and change it: a call reads no freed
\* node, whatever hooks are added, removed and replaced between two of its
\* functions, as long as no caller removes the very node that the call of another
\* has stored.  (When one does, hook_shared shows the read.)
THEOREM CallsReadNoFreedNode == ASSUME IsFiniteSet(Nodes) PROVE HookSpec => []CallsAreSafe
  <1>1. CallInv => CallsAreSafe
    BY DEF CallInv, Going, CallsAreSafe
  <1> QED
    BY <1>1, CallInvariant, PTL

\* And the functions it runs have ascending priorities, as they are stored: those
\* that were added, or cut off, during the call included.
THEOREM CallsAscend == ASSUME IsFiniteSet(Nodes) PROVE HookSpec => InPriorityOrder
  <1> DEFINE Ascends == ~raced => \A c \in Callers : call[c].active /\ call'[c].active
                                     => call[c].runs.priority <= call'[c].runs.priority
  <1>1. ASSUME TableInv, CallInv, [HookNext]_hookVars PROVE Ascends
    <2>1. SUFFICES ASSUME ~raced, NEW c \in Callers, call[c].active, call'[c].active
                   PROVE  call[c].runs.priority <= call'[c].runs.priority
      OBVIOUS
    <2>0. Going
      BY <1>1, <2>1 DEF CallInv
    <2>2. call[c].runs.priority \in Nat /\ call \in [Callers -> Calls]
      BY <1>1, HookAssumption DEF TableInv, HookTypeOK, Hooks, Calls
    <2>3. CASE call' = call
      BY <2>2, <2>3
    <2>4. ASSUME NEW d \in Callers, FunctionReturns(d) PROVE call[c].runs.priority <= call'[c].runs.priority
      <3>1. /\ call'[d].active => /\ call[d].iter.next \in table.live /\ call[d].active
                                 /\ call'[d].runs = hook[call[d].iter.next]
            /\ \A e \in Callers : e # d => call'[e] = call[e]
        BY <1>1, <2>0, <2>4, ReturnKeeps
      <3>2. CASE c = d
        <4>1. call[c].iter.next \in table.live /\ call'[c].runs = hook[call[c].iter.next]
          BY <2>1, <3>1, <3>2
        <4>2. Continues(call[c], table, hook) /\ call[c].iter.next # Null
          BY <1>1, <2>0, <2>1, <4>1, NullIsNoNode DEF Going, TableInv, HookTypeOK, Lists
        <4> QED
          BY <2>1, <4>1, <4>2 DEF Continues
      <3>3. CASE c # d
        <4>1. call'[c] = call[c]
          BY <3>1, <3>3
        <4> QED
          BY <2>2, <4>1
      <3> QED
        BY <3>2, <3>3
    <2>5. ASSUME NEW d \in Callers, HookCall(d) PROVE call[c].runs.priority <= call'[c].runs.priority
      <3>1. c # d
        BY <2>1, <2>5 DEF HookCall
      <3>2. call'[c] = call[c]
        BY <2>2, <2>5, <3>1 DEF HookCall
      <3> QED
        BY <2>2, <3>2
    <2>6. CASE HookLoad \/ Fatal \/ UNCHANGED hookVars
      BY <2>3, <2>6 DEF HookLoad, Fatal, hookVars
    <2>7. CASE HookUnload
      BY <2>3, <2>7 DEF HookUnload
    <2>8. ASSUME NEW d \in Callers, HookAdd(d) \/ HookRemove(d)
          PROVE  call' = call
      BY <2>8 DEF HookAdd, HookRemove
    <2> QED
      BY <1>1, <2>3, <2>4, <2>5, <2>6, <2>7, <2>8 DEF HookNext
  <1>2. TableInv /\ CallInv /\ [HookNext]_hookVars => [Ascends]_hookVars
    BY <1>1
  <1> QED
    BY <1>2, CallInvariant, PTL DEF HookSpec, InPriorityOrder
=============================================================================


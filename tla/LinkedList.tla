----------------------------- MODULE LinkedList -----------------------------
(***************************************************************************)
(* The doubly linked list of cflare/linkedlist.c as operators on records:  *)
(* a list with the nodes it has allocated, and an iterator on it.  The     *)
(* modules LinkedListUse and Hook keep such records in their state.        *)
(***************************************************************************)
EXTENDS Naturals, FiniteSets

CONSTANTS Nodes, Null

ASSUME NullIsNoNode == Null \notin Nodes

Pointers == Nodes \cup {Null}

Lists ==
    [first : Pointers, last : Pointers, count : 0..Cardinality(Nodes), live : SUBSET Nodes,
     next : [Nodes -> Pointers], prev : [Nodes -> Pointers]]

\* cflare_linkedlist_new.  live: the nodes that are allocated.
NewList ==
    [first |-> Null, last |-> Null, count |-> 0, live |-> {},
     next |-> [n \in Nodes |-> Null], prev |-> [n \in Nodes |-> Null]]

\* A slip: the node after the new one is not told of it.
InsertHalf(l, n, pre, post) ==
    [l EXCEPT !.live = @ \cup {n},
              !.next = [@ EXCEPT ![n] = post, ![IF pre = Null THEN n ELSE pre] = IF pre = Null THEN post ELSE n],
              !.prev[n] = pre,
              !.first = IF pre = Null THEN n ELSE @,
              !.last = IF post = Null THEN n ELSE @,
              !.count = @ + 1]

\* insert_between: the new node n gets the neighbours pre and post, which may
\* be null pointers; then it is the first, or the last, of the list.
InsertBetween(l, n, pre, post) ==
    [l EXCEPT !.live = @ \cup {n},
              !.next = [m \in Nodes |-> IF m = n THEN post ELSE IF m = pre THEN n ELSE @[m]],
              !.prev = [m \in Nodes |-> IF m = n THEN pre ELSE IF m = post THEN n ELSE @[m]],
              !.first = IF pre = Null THEN n ELSE @,
              !.last = IF post = Null THEN n ELSE @,
              !.count = @ + 1]

InsertBefore(l, n, node) == InsertBetween(l, n, IF node = Null THEN Null ELSE l.prev[node], node)
InsertAfter(l, n, node) == InsertBetween(l, n, node, IF node = Null THEN Null ELSE l.next[node])
InsertFirst(l, n) == InsertBefore(l, n, l.first)
InsertLast(l, n) == InsertAfter(l, n, l.last)

\* cflare_linkedlist_remove: node is unlinked and freed.  What freed memory
\* holds is never meant to be read: its pointers are null here, and every use
\* of a list says separately that it does not follow a pointer to a freed node.
RemoveNode(l, node) ==
    LET pre  == l.prev[node]
        post == l.next[node]
    IN  [l EXCEPT !.live = @ \ {node},
                  !.next = [m \in Nodes |-> IF m = node THEN Null ELSE IF m = pre THEN post ELSE @[m]],
                  !.prev = [m \in Nodes |-> IF m = node THEN Null ELSE IF m = post THEN pre ELSE @[m]],
                  !.first = IF pre = Null THEN post ELSE @,
                  !.last = IF post = Null THEN pre ELSE @,
                  !.count = @ - 1]

-----------------------------------------------------------------------------
(* Iterators.                                                              *)

Iterators == [started : BOOLEAN, prev : Pointers, value : Pointers, next : Pointers]

\* cflare_linkedlist_get_iterator; value is set by the first step.
GetIterator == [started |-> FALSE, prev |-> Null, value |-> Null, next |-> Null]

\* The iterator as the first step finds it.
Forward(l, it)  == IF it.started THEN it ELSE [GetIterator EXCEPT !.started = TRUE, !.next = l.first]
Backward(l, it) == IF it.started THEN it ELSE [GetIterator EXCEPT !.started = TRUE, !.prev = l.last]

\* A slip: the node to go on with is looked up when it is needed.
IteratorNextLate(l, it) ==
    LET next == IF it.started /\ it.value # Null THEN l.next[it.value] ELSE Forward(l, it).next
    IN  IF next = Null
        THEN [it EXCEPT !.started = TRUE, !.value = Null, !.next = Null]
        ELSE [started |-> TRUE, next |-> l.next[next], prev |-> it.value, value |-> next]

\* A slip: the stored node is the one returned, not the one after it.
IteratorNextSame(l, it) ==
    LET i == Forward(l, it)
    IN  IF i.next = Null
        THEN [i EXCEPT !.value = Null]
        ELSE [i EXCEPT !.prev = i.value, !.value = i.next]

\* cflare_linkedlist_iterator_next and _prev.  The node returned is the value.
IteratorNext(l, it) ==
    LET i == Forward(l, it)
    IN  IF i.next = Null
        THEN [i EXCEPT !.value = Null]
        ELSE [i EXCEPT !.next = l.next[i.next], !.prev = i.value, !.value = i.next]

IteratorPrev(l, it) ==
    LET i == Backward(l, it)
    IN  IF i.prev = Null
        THEN [i EXCEPT !.value = Null]
        ELSE [i EXCEPT !.prev = l.prev[i.prev], !.next = i.value, !.value = i.prev]
=============================================================================

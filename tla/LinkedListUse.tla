--------------------------- MODULE LinkedListUse ---------------------------
(***************************************************************************)
(* One list used the way its documentation allows: nodes are inserted and  *)
(* removed anywhere, also while an iterator walks the list in one          *)
(* direction, and in the end the list is deleted.                          *)
(*                                                                         *)
(* An address is not handed out twice, so that a pointer to a freed node is*)
(* always recognisable.  Bound: Nodes.                                     *)
(***************************************************************************)
EXTENDS LinkedList, Sequences, SequencesExt

VARIABLES
    list,       \* the cflare_linkedlist
    iter,       \* the iterator
    dir,        \* the function it is used with: "next" or "prev"
    pc,         \* "use", "deleting", "gone", or "abort" after a failed assert
    order,      \* history: the nodes in the order the documentation gives them
    start,      \* history: the nodes in the list when the iterator started
    seen,       \* history: the nodes the iterator has returned
    deleted,    \* history: how often the deleter was called on each node
    cut         \* history: a node was inserted before or after a null node,
                \* although the list was not empty

vars == <<list, iter, dir, pc, order, start, seen, deleted, cut>>

Init ==
    /\ list = NewList /\ iter = GetIterator /\ dir \in {"next", "prev"} /\ pc = "use"
    /\ order = <<>> /\ start = {} /\ seen = {} /\ deleted = [n \in Nodes |-> 0]
    /\ cut = FALSE

Position(n) == CHOOSE i \in 1..Len(order) : order[i] = n
Fresh == {n \in Nodes : n \notin list.live /\ deleted[n] = 0}

\* A null node on a list that is not empty: insert_between makes the new node the
\* first and the last one, and the others can be reached from the list no more.
CutsOff(node) == node = Null /\ order # <<>>

\* Where the documentation puts a new node: "If null, then it's placed at the
\* beginning of the list", and "at the end of the list" for insert_after.
Before ==
    /\ pc = "use"
    /\ \E n \in Fresh, node \in ToSet(order) \cup {Null} :
          /\ list' = InsertBefore(list, n, node)
          /\ order' = InsertAt(order, IF node = Null THEN 1 ELSE Position(node), n)
          /\ cut' = (cut \/ CutsOff(node))
    /\ UNCHANGED <<iter, dir, pc, start, seen, deleted>>

After ==
    /\ pc = "use"
    /\ \E n \in Fresh, node \in ToSet(order) \cup {Null} :
          /\ list' = InsertAfter(list, n, node)
          /\ order' = InsertAt(order, IF node = Null THEN Len(order) + 1 ELSE Position(node) + 1, n)
          /\ cut' = (cut \/ CutsOff(node))
    /\ UNCHANGED <<iter, dir, pc, start, seen, deleted>>

AtFront ==
    /\ pc = "use"
    /\ \E n \in Fresh : list' = InsertFirst(list, n) /\ order' = <<n>> \o order
    /\ UNCHANGED <<iter, dir, pc, start, seen, deleted, cut>>

AtBack ==
    /\ pc = "use"
    /\ \E n \in Fresh : list' = InsertLast(list, n) /\ order' = Append(order, n)
    /\ UNCHANGED <<iter, dir, pc, start, seen, deleted, cut>>

Removes(node) ==
    /\ list' = RemoveNode(list, node)
    /\ order' = RemoveAt(order, Position(node))
    /\ deleted' = [deleted EXCEPT ![node] = @ + 1]

\* While an iterator walks, its current and traversed nodes may be removed.
RemoveOne ==
    /\ pc = "use"
    /\ \E node \in ToSet(order) :
          /\ iter.started => node \in seen
          /\ Removes(node)
    /\ UNCHANGED <<iter, dir, pc, start, seen, cut>>

\* A new iterator, and a step of it.
Iterate ==
    /\ pc = "use" /\ iter.started
    /\ iter' = GetIterator /\ dir' \in {"next", "prev"}
    /\ start' = {} /\ seen' = {}
    /\ UNCHANGED <<list, pc, order, deleted, cut>>

Step ==
    /\ pc = "use"
    /\ iter' = IF dir = "next" THEN IteratorNext(list, iter) ELSE IteratorPrev(list, iter)
    /\ start' = IF iter.started THEN start ELSE ToSet(order)
    /\ seen' = seen \cup ({iter'.value} \ {Null})
    /\ UNCHANGED <<list, dir, pc, order, deleted, cut>>

-----------------------------------------------------------------------------
\* A slip: the loop of cflare_linkedlist_delete ends one too early.
DeleteLeavesOne ==
    /\ pc \in {"use", "deleting"}
    /\ \/ list.count > 1 /\ Removes(list.first) /\ pc' = "deleting"
       \/ list.count <= 1 /\ pc' = "gone" /\ UNCHANGED <<list, order, deleted>>
    /\ UNCHANGED <<iter, dir, start, seen, cut>>

\* cflare_linkedlist_delete: while(list->count) remove the first, then free the
\* list.  cflare_linkedlist_remove asserts that it gets a node.
Delete ==
    /\ pc \in {"use", "deleting"}
    /\ pc' = IF list.count = 0 THEN "gone" ELSE IF list.first = Null THEN "abort" ELSE "deleting"
    /\ IF pc' = "deleting" THEN Removes(list.first) ELSE UNCHANGED <<list, order, deleted>>
    /\ UNCHANGED <<iter, dir, start, seen, cut>>

Next == Before \/ After \/ AtFront \/ AtBack \/ RemoveOne \/ Iterate \/ Step \/ Delete

Spec == Init /\ [][Next]_vars

-----------------------------------------------------------------------------
\* Every variable has its type.
TypeOK ==
    /\ list \in Lists /\ iter \in Iterators /\ dir \in {"next", "prev"}
    /\ pc \in {"use", "deleting", "gone", "abort"}
    /\ order \in Seq(Nodes) /\ start \subseteq Nodes /\ seen \subseteq Nodes
    /\ deleted \in [Nodes -> 0..1] /\ cut \in BOOLEAN

\* The list has allocated, and counts, the nodes that were inserted and not
\* removed; read from either end it has them in the order the documentation
\* promises - unless a null node was given for a list that was not empty.
WellLinked ==
    LET k == Len(order) IN
    /\ list.live = ToSet(order) /\ list.count = k
    /\ ~cut =>
          /\ list.first = IF k = 0 THEN Null ELSE order[1]
          /\ list.last = IF k = 0 THEN Null ELSE order[k]
          /\ \A i \in 1..k :
                /\ list.prev[order[i]] = IF i = 1 THEN Null ELSE order[i - 1]
                /\ list.next[order[i]] = IF i = k THEN Null ELSE order[i + 1]

\* "it is safe to remove an iterator's current---and traversed---value(s), as the
\* continuing node is stored": the stored node is never one that was freed.  (Here
\* and below lists that a null node has cut are left aside.)
Ahead == IF dir = "next" THEN iter.next ELSE iter.prev
ContinuesSafely == ~cut /\ iter.started /\ pc = "use" => Ahead \in list.live \cup {Null}

\* An iterator misses nothing: a node that was in the list when it started and
\* still is, and that it has not returned yet, is the stored one or beyond it,
\* whatever was inserted and removed meanwhile.
Beyond(n) == IF dir = "next" THEN Position(n) >= Position(Ahead) ELSE Position(n) <= Position(Ahead)
VisitsAll ==
    ~cut /\ iter.started /\ pc = "use" =>
        \A n \in start \cap ToSet(order) :
            n \notin seen => (Ahead # Null /\ Beyond(n))

\* "Will deconstruct the linked list, calling the deleter for all existing
\* elements": when the list is gone so are its nodes, none was given to the deleter
\* twice or while it was still in the list, and unless a null node has cut the list,
\* cflare_linkedlist_remove's assertion that it is given a node does not fail.
DeletesAll ==
    /\ pc = "abort" => cut
    /\ pc = "gone" => list.live = {}
    /\ \A n \in Nodes : deleted[n] <= (IF n \in list.live THEN 0 ELSE 1)
=============================================================================

----------------------------- MODULE HookStack -----------------------------
(***************************************************************************)
(* A hookstack (the second half of cflare/hook.c): the arguments or the    *)
(* results of a hook call, a linked list of typed elements that are pushed *)
(* at its end, read by index, and given to their deleters with the stack.  *)
(* Whoever makes a stack uses it alone.  A null stack, such as the results *)
(* of the "Log" hook, takes no pushes and has no elements.                 *)
(*                                                                         *)
(* A string is strdup'ed when it is pushed: its value stands for the copy. *)
(* Bounds: Nodes (from LinkedList), Values and TypeNames.                  *)
(***************************************************************************)
EXTENDS LinkedList, Integers, Sequences

CONSTANTS Values, TypeNames, NoValue

ASSUME NoValueAssumption == NoValue \notin Values

VARIABLES
    stack,      \* "null", "live", "deleting" or "gone"
    elements,   \* stack->elements
    elm,        \* the cflare_hookstack_elm in each node
    pushed,     \* history: what was pushed
    freed       \* history: how often the deleter of each node's element was called

stackVars == <<stack, elements, elm, pushed, freed>>

NoElm == [type |-> "none", value |-> NoValue, name |-> NoValue, deleter |-> FALSE]

\* The elements the four push functions make; the deleter of a pointer is the
\* caller's, and may be missing.
Elms ==
    [type : {"integer", "number"}, value : Values, name : {NoValue}, deleter : {FALSE}]
        \cup [type : {"string"}, value : Values, name : {NoValue}, deleter : {TRUE}]
        \cup [type : {"pointer"}, value : Values, name : TypeNames, deleter : BOOLEAN]

StackInit ==
    /\ stack = "null" /\ elements = NewList /\ elm = [n \in Nodes |-> NoElm]
    /\ pushed = <<>> /\ freed = [n \in Nodes |-> 0]

HookstackNew ==
    /\ stack = "null" /\ stack' = "live"
    /\ UNCHANGED <<elements, elm, pushed, freed>>

\* cflare_hookstack_push_integer, _number, _string and _pointer.
Push(e) ==
    /\ \/ stack = "null" /\ UNCHANGED <<elements, elm, pushed>>
       \/ /\ stack = "live"
          /\ \E n \in Nodes \ elements.live :
                elements' = InsertLast(elements, n) /\ elm' = [elm EXCEPT ![n] = e]
          /\ pushed' = Append(pushed, e)
    /\ UNCHANGED <<stack, freed>>

\* free_element, which the list calls for each node it frees.
FreeElement(n) == freed' = [freed EXCEPT ![n] = IF elm[n].deleter THEN @ + 1 ELSE @]

\* cflare_hookstack_delete: cflare_linkedlist_delete, then the stack is freed.
HookstackDelete ==
    /\ \/ /\ stack \in {"live", "deleting"} /\ elements.count > 0
          /\ stack' = "deleting"
          /\ FreeElement(elements.first)
          /\ elements' = RemoveNode(elements, elements.first)
       \/ /\ stack \in {"live", "deleting"} /\ elements.count = 0
          /\ stack' = "gone"
          /\ UNCHANGED <<elements, freed>>
    /\ UNCHANGED <<elm, pushed>>

StackNext == HookstackNew \/ HookstackDelete \/ \E e \in Elms : Push(e)

StackSpec == StackInit /\ [][StackNext]_stackVars

-----------------------------------------------------------------------------
(* Reading, which changes nothing.                                         *)

\* An iterator after k steps of iterator_next, or of iterator_prev.
Walked(k) == LET it[i \in 0..k] == IF i = 0 THEN GetIterator ELSE IteratorNext(elements, it[i - 1])
             IN  it[k]
WalkedBack(k) == LET it[i \in 0..k] == IF i = 0 THEN GetIterator ELSE IteratorPrev(elements, it[i - 1])
                 IN  it[k]

\* A slip: the walk stops a step before the element.
GetElmShort(index, type) ==
    LET node == IF stack = "null" THEN Null
                ELSE IF index >= 0 THEN Walked(index).value ELSE WalkedBack(1 - index).value
    IN  IF node = Null \/ elm[node].type # type THEN NoElm ELSE elm[node]

\* get_elm: index + 1 steps forward, or 1 - index steps backward (i runs from 0
\* down to index - 1, exclusive).  Another type is a warning and no element.
GetElm(index, type) ==
    LET node == IF stack = "null" THEN Null
                ELSE IF index >= 0 THEN Walked(index + 1).value ELSE WalkedBack(1 - index).value
    IN  IF node = Null \/ elm[node].type # type THEN NoElm ELSE elm[node]

\* cflare_hookstack_get_integer, _number, _string (which asks get_elm for a
\* number) and _pointer (which compares the type's name too): what *out is set
\* to, NoValue when the call returns false.
GetInteger(index) == GetElm(index, "integer").value
GetNumber(index) == GetElm(index, "number").value
GetString(index) == GetElm(index, "number").value
GetPointer(index, name) ==
    LET e == GetElm(index, "pointer") IN IF e.name = name THEN e.value ELSE NoValue

-----------------------------------------------------------------------------
\* The element an index stands for: from 0 on in the order of the pushes; -1 is
\* the last but one and -2 the one before it, so no negative index is the last.
At(index) ==
    LET i == IF index >= 0 THEN index + 1 ELSE Len(pushed) + index
    IN  IF i \in 1..Len(pushed) THEN pushed[i] ELSE NoElm

ValueIf(e, test) == IF test THEN e.value ELSE NoValue

\* Through pushes, the list's links and the deletion: what was pushed is read
\* back at its index, by the function of its type and under its name only - but
\* for a string, which get_string never returns - and a deleter is called once
\* for each element that has one, when the stack is deleted and not before.
StackReads ==
    /\ stack \in {"null", "live"} =>
          /\ freed = [n \in Nodes |-> 0]
          /\ \A index \in -(Cardinality(Nodes) + 1)..Cardinality(Nodes) :
                LET e == At(index) IN
                /\ GetInteger(index) = ValueIf(e, e.type = "integer")
                /\ GetNumber(index) = ValueIf(e, e.type = "number")
                /\ GetString(index) = ValueIf(e, e.type = "number")
                /\ \A t \in TypeNames :
                      GetPointer(index, t) = ValueIf(e, e.type = "pointer" /\ e.name = t)
    /\ stack = "gone" => freed = [n \in Nodes |-> IF elm[n].deleter THEN 1 ELSE 0]
=============================================================================

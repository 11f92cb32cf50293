-------------------------------- MODULE Hook --------------------------------
(***************************************************************************)
(* The hook library (cflare/hook.c): the functions registered under one    *)
(* hook name, and the calls of that hook in progress.  Tables of different *)
(* names share nothing, and a name without a table behaves as one whose    *)
(* list is empty.                                                          *)
(*                                                                         *)
(* A caller is a coroutine, or a level of nesting of one: all run on one   *)
(* thread, so hook_add, hook_remove and the stretches of hook_call between *)
(* two functions are atomic, but while a function runs it may add and      *)
(* remove hooks, and it may yield to other callers (the Request hook does  *)
(* so in every read and write of the socket).                              *)
(*                                                                         *)
(* A function called by the hook removes or replaces no hook but its own.  *)
(* A priority is given as a float64_t and stored as a float32_t: numbers   *)
(* stand for what float64_t can tell apart, Float32 for the rounding.      *)
(* Bounds: Nodes, the allocations alive at once; Ids; Priorities.          *)
(***************************************************************************)
EXTENDS LinkedList, FiniteSetsExt

CONSTANTS Callers, Ids, Priorities, Float32, None

ASSUME HookAssumption ==
    /\ Priorities \subseteq Nat /\ Priorities # {} /\ None \notin Ids
    /\ Float32 \in [Priorities -> Priorities]
    /\ \A p, q \in Priorities : p <= q => Float32[p] <= Float32[q]
    /\ \A p \in Priorities : Float32[Float32[p]] = Float32[p]

VARIABLES
    status,       \* "unloaded", "loaded", "fatal" (cflare_fatal), "aborted" (assert)
    table,        \* hook_table.funcs
    hook,         \* the hook struct in each node
    call,         \* the hook_call of each caller: its iterator and the running hook
    fault,        \* a freed node was read: what follows is undefined
    raced,        \* history: a node that a call had stored was removed by another caller
    registered    \* history: the hooks that were added and not removed

hookVars == <<status, table, hook, call, fault, raced, registered>>

Hooks == [id : Ids \cup {None}, priority : Priorities]
NoHook == [id |-> None, priority |-> CHOOSE p \in Priorities : TRUE]
NoCall == [active |-> FALSE, iter |-> GetIterator, runs |-> NoHook]

HookInit ==
    /\ status = "unloaded"
    /\ table = NewList /\ hook = [n \in Nodes |-> NoHook]
    /\ call = [c \in Callers |-> NoCall]
    /\ fault = FALSE /\ raced = FALSE /\ registered = {}

\* What an iterator over l returns, step by step: the nodes, and then null.
Visited(l) ==
    LET at[k \in 0..Cardinality(Nodes)] ==
            IF k = 0 THEN l.first
            ELSE LET m == at[k - 1] IN IF m = Null THEN Null ELSE l.next[m]
    IN  at

Reachable(l) == {Visited(l)[k] : k \in 0..Cardinality(Nodes)} \ {Null}

HooksIn(l) == {hook[m] : m \in Reachable(l)}

\* The loop of cflare_hook_remove.
WithoutId(l, id) ==
    FoldSet(LAMBDA m, acc : RemoveNode(acc, m), l, {m \in Reachable(l) : hook[m].id = id})

\* The hook structs in these nodes; the others are freed.
Stored(nodes) == [n \in Nodes |-> IF n \in nodes THEN hook[n] ELSE NoHook]

\* malloc may return any memory that is free; memory an iterator still points
\* to is left out, so that such a pointer is recognised when it is followed.
Free == {n \in Nodes \ table.live : \A c \in Callers : n \notin {call[c].iter.value, call[c].iter.next}}

\* A function removes or replaces its own hook only.
MayRemove(c, id) == call[c].active => call[c].runs.id = id

\* Whether c has just removed the node with which a call of another goes on.
Races(c) == \E d \in Callers \ {c} : call[d].active /\ call[d].iter.next \in table.live \ table'.live

-----------------------------------------------------------------------------
\* The step at which a loop over l ends: at the first of these nodes, or at
\* the null pointer behind the last node.
StopsAt(l, nodes) ==
    CHOOSE k \in 0..Cardinality(Nodes) :
        /\ Visited(l)[k] \in nodes \cup {Null}
        /\ \A j \in 0..(k - 1) : Visited(l)[j] \notin nodes \cup {Null}

\* A slip: the search for the place ends at the first lower priority.
PlaceDescending(l, priority) == Visited(l)[StopsAt(l, {m \in Nodes : hook[m].priority < priority})]

\* Where hook_add inserts: before the first hook with a greater priority, or
\* before a null node when there is none.
Place(l, priority) == Visited(l)[StopsAt(l, {m \in Nodes : hook[m].priority > priority})]

\* A slip: the hook with the same id is not removed first.
AddKeepsOld(c) ==
    /\ status = "loaded"
    /\ \E id \in Ids, priority \in Priorities, n \in Free :
          /\ MayRemove(c, id) \/ id \notin {h.id : h \in HooksIn(table)}
          /\ table' = InsertBefore(table, n, Place(table, priority))
          /\ hook' = [Stored(table'.live) EXCEPT ![n] = [id |-> id, priority |-> Float32[priority]]]
          /\ registered' = {h \in registered : h.id # id} \cup {hook'[n]}
    /\ raced' = (raced \/ Races(c))
    /\ UNCHANGED <<status, call, fault>>

\* cflare_hook_add.
HookAdd(c) ==
    /\ status = "loaded"
    /\ \E id \in Ids, priority \in Priorities, n \in Free :
          /\ MayRemove(c, id) \/ id \notin {h.id : h \in HooksIn(table)}
          /\ LET l == WithoutId(table, id)
             IN  table' = InsertBefore(l, n, Place(l, priority))
          /\ hook' = [Stored(table'.live) EXCEPT ![n] = [id |-> id, priority |-> Float32[priority]]]
          /\ registered' = {h \in registered : h.id # id} \cup {hook'[n]}
    /\ raced' = (raced \/ Races(c))
    /\ UNCHANGED <<status, call, fault>>

\* cflare_hook_remove.
HookRemove(c) ==
    /\ status = "loaded"
    /\ \E id \in Ids :
          /\ MayRemove(c, id)
          /\ table' = WithoutId(table, id)
          /\ hook' = Stored(table'.live)
          /\ registered' = {h \in registered : h.id # id}
    /\ raced' = (raced \/ Races(c))
    /\ UNCHANGED <<status, call, fault>>

\* The loop of hook_call: with a value the function of that hook runs, without
\* one the call returns.  The loop never reads the iterator's prev: it is null here.
Runs(it) ==
    IF it.value = Null THEN NoCall
    ELSE [active |-> TRUE, iter |-> [it EXCEPT !.prev = Null], runs |-> hook[it.value]]

\* cflare_hook_call up to its first function, if it has one.
HookCall(c) ==
    /\ status = "loaded" /\ ~call[c].active
    /\ call' = [call EXCEPT ![c] = Runs(IteratorNext(table, GetIterator))]
    /\ UNCHANGED <<status, table, hook, fault, raced, registered>>

\* The function returned: true ends the call, false goes on to the next hook,
\* whose node the iterator has stored.
FunctionReturns(c) ==
    /\ status = "loaded" /\ call[c].active
    /\ \/ /\ call' = [call EXCEPT ![c] = NoCall]
          /\ UNCHANGED fault
       \/ /\ fault' = (call[c].iter.next \notin table.live \cup {Null})
          /\ call' = [call EXCEPT ![c] = IF fault' THEN NoCall ELSE Runs(IteratorNext(table, @.iter))]
    /\ UNCHANGED <<status, table, hook, raced, registered>>

-----------------------------------------------------------------------------
\* cflare_hook_load.
HookLoad ==
    /\ status = "unloaded" /\ status' = "loaded"
    /\ UNCHANGED <<table, hook, call, fault, raced, registered>>

\* cflare_hook_unload, once no call is in progress: the list is deleted, which
\* asserts that as many nodes as it counts can be reached.
HookUnload ==
    /\ status = "loaded" /\ \A c \in Callers : ~call[c].active
    /\ status' = IF table.count = Cardinality(Reachable(table)) THEN "unloaded" ELSE "aborted"
    /\ table' = NewList /\ hook' = [n \in Nodes |-> NoHook] /\ registered' = {}
    /\ UNCHANGED <<call, fault, raced>>

\* cflare_fatal: hook_load when loaded; hook_add, hook_remove and hook_unload
\* when not.
Fatal ==
    /\ status \in {"unloaded", "loaded"} /\ status' = "fatal"
    /\ UNCHANGED <<table, hook, call, fault, raced, registered>>

HookNext ==
    /\ ~fault
    /\ \/ HookLoad \/ HookUnload \/ Fatal
       \/ \E c \in Callers : HookAdd(c) \/ HookRemove(c) \/ HookCall(c) \/ FunctionReturns(c)

HookSpec == HookInit /\ [][HookNext]_hookVars

-----------------------------------------------------------------------------
\* Every variable has its type.
HookTypeOK ==
    /\ status \in {"unloaded", "loaded", "fatal", "aborted"}
    /\ table \in Lists /\ hook \in [Nodes -> Hooks]
    /\ call \in [Callers -> [active : BOOLEAN, iter : Iterators, runs : Hooks]]
    /\ \A c \in Callers : call[c].active => call[c].iter.value \in Nodes
    /\ fault \in BOOLEAN /\ raced \in BOOLEAN /\ registered \subseteq Hooks

\* No two functions that a call would reach have the same id.
OnePerId == \A m, n \in Reachable(table) : hook[m].id = hook[n].id => m = n

\* A call reads no freed node, although functions remove and replace themselves
\* and other callers add, remove and replace hooks meanwhile: it goes on with the
\* pointer it stored before.  Only when another caller removes that very node,
\* which no lock prevents, does the call follow a freed pointer.
CallsAreSafe == ~raced => ~fault


\* Whatever is added and removed while calls are in progress, the functions each
\* runs have ascending priorities, as they are stored.
InPriorityOrder ==
    [][~raced => \A c \in Callers : call[c].active /\ call'[c].active
                    => call[c].runs.priority <= call'[c].runs.priority]_hookVars

\* 50.hook.def on the priority of hook_add: "Hooks are called in the order of
\* priority, from low to high."  A call that starts can reach all of them.
AllAreCalled == HooksIn(table) = registered
=============================================================================

------------------------------ MODULE MCLists ------------------------------
(***************************************************************************)
(* A linked list used directly, one under a hookstack, and one under a     *)
(* hook; a behaviour is about one of the three.                            *)
(***************************************************************************)
EXTENDS LinkedListUse, HookStack, Hook, TLC

VARIABLE part    \* "list", "stack" or "hook"

MCInit ==
    /\ part \in {"list", "stack", "hook"} /\ Init /\ StackInit /\ HookInit
    /\ part # "list" => dir = "next"

MCNext ==
    /\ \/ part = "list" /\ Next /\ UNCHANGED <<stackVars, hookVars>>
       \/ part = "stack" /\ StackNext /\ UNCHANGED <<vars, hookVars>>
       \/ part = "hook" /\ HookNext /\ UNCHANGED <<vars, stackVars>>
    /\ UNCHANGED part

MCSpec == MCInit /\ [][MCNext]_<<vars, stackVars, hookVars, part>>

\* The second priority is no float32_t and is rounded up.
Rounding == [p \in Priorities |-> IF p = 2 THEN 3 ELSE p]

Symm == Permutations(Nodes) \cup Permutations(Ids) \cup Permutations(Callers)
=============================================================================

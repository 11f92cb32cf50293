------------------------------- MODULE MCHook -------------------------------
EXTENDS Hook, TLC

\* The second priority is no float32_t and is rounded up.
Rounding == [p \in Priorities |-> IF p = 2 THEN 3 ELSE p]

Symm == Permutations(Nodes) \cup Permutations(Ids) \cup Permutations(Callers)
=============================================================================

---------------------------- MODULE MCHashtable ----------------------------
EXTENDS Hashtable, TLC

CONSTANTS k1, k2, k3

\* One bucket holds all three, four buckets make two collide, sixteen none.
Hashes == k1 :> 0 @@ k2 :> 4 @@ k3 :> 5

Symm == Permutations(Threads) \cup Permutations(Values)
=============================================================================

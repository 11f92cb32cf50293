--------------------------------- MODULE Map ---------------------------------
(***************************************************************************)
(* What a hashtable promises its threads: a map from keys to values.  A    *)
(* call that sets or removes a key takes effect at one point between its   *)
(* beginning and its end, a lookup returns what is there at one point.     *)
(***************************************************************************)
CONSTANTS Threads, Keys, Values, NoValue, NoCall

VARIABLES map,     \* the value of each key, NoValue for none
          asked,   \* the set call each thread is in: <<key, value>> or NoCall
          got      \* the key and the result of the last lookup

vars == <<map, asked, got>>

Init ==
    /\ map = [k \in Keys |-> NoValue]
    /\ asked = [t \in Threads |-> NoCall]
    /\ got = NoCall

Ask(t) ==
    /\ asked[t] = NoCall
    /\ \E k \in Keys, v \in Values \cup {NoValue} : asked' = [asked EXCEPT ![t] = <<k, v>>]
    /\ UNCHANGED <<map, got>>

TakeEffect(t) ==
    /\ asked[t] # NoCall
    /\ map' = [map EXCEPT ![asked[t][1]] = asked[t][2]]
    /\ asked' = [asked EXCEPT ![t] = NoCall]
    /\ UNCHANGED got

Lookup(t) ==
    /\ asked[t] = NoCall
    /\ \E k \in Keys : got' = <<k, map[k]>>
    /\ UNCHANGED <<map, asked>>

\* The map is deleted when no call is in progress.
Clear ==
    /\ \A t \in Threads : asked[t] = NoCall
    /\ map' = [k \in Keys |-> NoValue]
    /\ UNCHANGED <<asked, got>>

Next == Clear \/ \E t \in Threads : Ask(t) \/ TakeEffect(t) \/ Lookup(t)

Spec == Init /\ [][Next]_vars
=============================================================================

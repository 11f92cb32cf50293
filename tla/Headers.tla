------------------------------ MODULE Headers ------------------------------
(***************************************************************************)
(* The registry of header names (cflare/headers.c): every spelling of a    *)
(* name leads to one header with an id, kept in a hashtable under the      *)
(* normalised name.  The table's get and set are atomic (see Hashtable);   *)
(* cflare_headers_ensure is a get, a create and a get.  The threads share  *)
(* the registry without a lock of their own around these.                  *)
(*                                                                         *)
(* Bounds: Names and Normal, the spellings and what they normalise to;     *)
(* MaxLines, the lines of the header files read by cflare_headers_load;    *)
(* MaxReloadId, the next id up to which the registry is unloaded and loaded*)
(* again.                                                                  *)
(***************************************************************************)
EXTENDS Naturals

CONSTANTS Threads, Names, Normal, NoName, MaxLines, MaxReloadId

ASSUME HeadersAssumption == NoName \notin Names /\ MaxLines \in Nat /\ MaxReloadId \in Nat

Keys == {Normal[n] : n \in Names}

VARIABLES
    loaded,    \* cflare_headers_load is over
    lines,     \* lines it has read
    gid,       \* the next id
    header,    \* canonical_headers: the id of the header each key has, 0 for none
    live,      \* ids of the headers that are allocated
    pc,        \* "idle", "got", "id", "set", "found" of each thread
    name,      \* the name a thread's call is about
    mine,      \* the id of the header a thread's call has in hand
    held,      \* history: <<key, id>> of every header that was returned
    fault      \* a freed header was read

vars == <<loaded, lines, gid, header, live, pc, name, mine, held, fault>>

Init ==
    /\ loaded = FALSE /\ lines = 0 /\ gid = 1
    /\ header = [k \in Keys |-> 0] /\ live = {}
    /\ pc = [t \in Threads |-> "idle"]
    /\ name = [t \in Threads |-> NoName] /\ mine = [t \in Threads |-> 0]
    /\ held = {} /\ fault = FALSE

\* cflare_hashtable_set in create_header; what the key had before is freed.
Stored(n, i) ==
    /\ header' = [header EXCEPT ![Normal[n]] = i]
    /\ live' = (live \cup {i}) \ {header[Normal[n]]}

-----------------------------------------------------------------------------
\* A line of a header file, while nothing else runs: create_header, whether the
\* name is there already or not.
ParseLine ==
    /\ ~loaded /\ lines < MaxLines
    /\ lines' = lines + 1 /\ gid' = gid + 1
    /\ \E n \in Names : Stored(n, gid)
    /\ UNCHANGED <<loaded, pc, name, mine, held, fault>>

\* The end of cflare_headers_load, which looks up and keeps some of the headers.
Loaded ==
    /\ ~loaded /\ loaded' = TRUE
    /\ held' = {p \in Keys \X live : header[p[1]] = p[2]}
    /\ UNCHANGED <<lines, gid, header, live, pc, name, mine, fault>>

\* cflare_headers_unload, while no call runs: the table's headers are freed, and
\* those that were returned are no longer to be used.  The ids go on.
Unload ==
    /\ loaded /\ gid <= MaxReloadId /\ \A t \in Threads : pc[t] = "idle"
    /\ loaded' = FALSE /\ header' = [k \in Keys |-> 0] /\ live' = {} /\ held' = {}
    /\ UNCHANGED <<lines, gid, pc, name, mine, fault>>

\* A slip: no look whether the header exists.
EnsureCreates(t) ==
    /\ loaded /\ pc[t] = "idle"
    /\ \E n \in Names : name' = [name EXCEPT ![t] = n]
    /\ pc' = [pc EXCEPT ![t] = "id"]
    /\ UNCHANGED <<loaded, lines, gid, header, live, mine, held, fault>>

\* cflare_headers_ensure begins with a get: the search in the table.
EnsureLooks(t) ==
    /\ loaded /\ pc[t] = "idle"
    /\ \E n \in Names :
          /\ name' = [name EXCEPT ![t] = n]
          /\ mine' = [mine EXCEPT ![t] = header[Normal[n]]]
          /\ pc' = [pc EXCEPT ![t] = IF header[Normal[n]] # 0 THEN "found" ELSE "id"]
    /\ UNCHANGED <<loaded, lines, gid, header, live, held, fault>>

\* The header the table had is read after the table was unlocked; with it the
\* call returns.
EnsureReturns(t) ==
    /\ pc[t] = "found"
    /\ fault' = (fault \/ mine[t] \notin live)
    /\ held' = held \cup {<<Normal[name[t]], mine[t]>>}
    /\ pc' = [pc EXCEPT ![t] = "idle"]
    /\ name' = [name EXCEPT ![t] = NoName] /\ mine' = [mine EXCEPT ![t] = 0]
    /\ UNCHANGED <<loaded, lines, gid, header, live>>

\* A slip: the counter is not moved on.
CreateSharesId(t) ==
    /\ pc[t] = "id"
    /\ mine' = [mine EXCEPT ![t] = gid] /\ UNCHANGED gid
    /\ pc' = [pc EXCEPT ![t] = "set"]
    /\ UNCHANGED <<loaded, lines, header, live, name, held, fault>>

\* create_header: an id under gid_mutex...
CreateTakesId(t) ==
    /\ pc[t] = "id"
    /\ mine' = [mine EXCEPT ![t] = gid] /\ gid' = gid + 1
    /\ pc' = [pc EXCEPT ![t] = "set"]
    /\ UNCHANGED <<loaded, lines, header, live, name, held, fault>>

\* ... then the set.
CreateStores(t) ==
    /\ pc[t] = "set"
    /\ Stored(name[t], mine[t])
    /\ pc' = [pc EXCEPT ![t] = "got"]
    /\ UNCHANGED <<loaded, lines, gid, name, mine, held, fault>>

\* The second get.
EnsureLooksAgain(t) ==
    /\ pc[t] = "got"
    /\ mine' = [mine EXCEPT ![t] = header[Normal[name[t]]]]
    /\ pc' = [pc EXCEPT ![t] = "found"]
    /\ UNCHANGED <<loaded, lines, gid, header, live, name, held, fault>>

Next ==
    \/ ParseLine \/ Loaded \/ Unload
    \/ \E t \in Threads :
          \/ EnsureLooks(t) \/ EnsureReturns(t) \/ CreateTakesId(t)
          \/ CreateStores(t) \/ EnsureLooksAgain(t)

Spec == Init /\ [][Next]_vars

-----------------------------------------------------------------------------
\* Every variable has its type.
TypeOK ==
    /\ loaded \in BOOLEAN /\ lines \in 0..MaxLines /\ gid \in Nat
    /\ header \in [Keys -> Nat] /\ live \subseteq Nat \ {0}
    /\ pc \in [Threads -> {"idle", "got", "id", "set", "found"}]
    /\ name \in [Threads -> Names \cup {NoName}] /\ mine \in [Threads -> Nat]
    /\ held \subseteq Keys \X (Nat \ {0}) /\ fault \in BOOLEAN

\* "Create the header if it does not yet exist, and return it": all calls for a
\* name, however spelled, return the same header, and no other name's; so
\* comparing ids, as cflare_headers_equals does, compares names.
OneHeaderPerName == \A p, q \in held : p[1] = q[1] <=> p[2] = q[2]

\* A header that was returned, with its pointer to the name, is never freed.
HeldStaysValid == ~fault /\ \A p \in held : p[2] \in live
=============================================================================

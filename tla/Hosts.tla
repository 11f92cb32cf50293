------------------------------- MODULE Hosts -------------------------------
(***************************************************************************)
(* The hosts and their static routes (cflare/hosts.c): an array that grows *)
(* by realloc, and descriptors that are one more than an index into it.    *)
(*                                                                         *)
(* Bounds: StartHosts for the 32 of the code, MaxHosts for the size up to  *)
(* which the array grows.                                                  *)
(***************************************************************************)
EXTENDS Integers, FiniteSets

CONSTANTS Domains, NoDomain, Paths, Callbacks, NoCallback, StartHosts, MaxHosts

ASSUME HostsAssumption ==
    /\ NoDomain \notin Domains /\ NoCallback \notin Callbacks
    /\ MaxHosts \in Nat /\ StartHosts \in 1..MaxHosts

VARIABLES
    hosts,         \* the array, from 0; empty when hosts is null
    hosts_alloc,
    given,         \* history: what the owner of each descriptor put there
    hostsState     \* "ok", or "crashed": a null array used, or an assertion

hostsVars == <<hosts, hosts_alloc, given, hostsState>>

Descriptors == 1..MaxHosts
NoRoutes == [p \in Paths |-> NoCallback]
FreeHost == [name |-> NoDomain, routes |-> NoRoutes]

HostsInit ==
    /\ hosts = [i \in {} |-> FreeHost] /\ hosts_alloc = StartHosts
    /\ given = [d \in Descriptors |-> FreeHost]
    /\ hostsState = "ok"

HostsNull == DOMAIN hosts = {}

\* DESCRIPTOR_TO_PTR: the descriptors callers have.
HasDescriptor(d) == d \in Descriptors /\ given[d] # FreeHost

\* cflare_hosts_load.
HostsLoad ==
    /\ hostsState = "ok"
    /\ IF HostsNull
       THEN hosts' = [i \in 0..(hosts_alloc - 1) |-> FreeHost] /\ UNCHANGED hostsState
       ELSE hostsState' = "crashed" /\ UNCHANGED hosts
    /\ UNCHANGED <<hosts_alloc, given>>

\* The first index without a name, hosts_alloc when there is none.
FirstFree(i) ==
    /\ i \in 0..hosts_alloc
    /\ i < hosts_alloc => hosts[i].name = NoDomain
    /\ \A j \in 0..(i - 1) : hosts[j].name # NoDomain

\* A slip: all of the array is cleared, not its new half.
GrownClearsOld(n) == [i \in 0..(2 * n - 1) |-> FreeHost]

\* if(!i < hosts_alloc): 0 or 1 is always less, so the array doubles for every
\* host, and its new half is cleared.
Grown(n) == [i \in 0..(2 * n - 1) |-> IF i < n THEN hosts[i] ELSE FreeHost]

\* cflare_host_new.
HostNew ==
    /\ hostsState = "ok" /\ 2 * hosts_alloc <= MaxHosts
    /\ \E domain \in Domains :
          IF HostsNull
          THEN hostsState' = "crashed" /\ UNCHANGED <<hosts, hosts_alloc, given>>
          ELSE \E i \in 0..hosts_alloc :
                  LET made == [name |-> domain, routes |-> NoRoutes] IN
                  /\ FirstFree(i)
                  /\ hosts' = [Grown(hosts_alloc) EXCEPT ![i] = made]
                  /\ hosts_alloc' = 2 * hosts_alloc
                  /\ given' = [given EXCEPT ![i + 1] = made]
                  /\ UNCHANGED hostsState

\* The host with the route; one of the same path is replaced.
Mapped(h, path, callback) == [h EXCEPT !.routes = [@ EXCEPT ![path] = callback]]

\* cflare_host_map.
HostMap ==
    /\ hostsState = "ok" /\ ~HostsNull
    /\ \E d \in Descriptors, path \in Paths, callback \in Callbacks :
          /\ HasDescriptor(d)
          /\ hosts' = [hosts EXCEPT ![d - 1] = Mapped(@, path, callback)]
          /\ given' = [given EXCEPT ![d] = Mapped(@, path, callback)]
    /\ UNCHANGED <<hosts_alloc, hostsState>>

\* cflare_host_delete.
HostDelete ==
    /\ hostsState = "ok" /\ ~HostsNull
    /\ \E d \in Descriptors :
          /\ HasDescriptor(d)
          /\ hosts' = [hosts EXCEPT ![d - 1] = FreeHost]
          /\ given' = [given EXCEPT ![d] = FreeHost]
    /\ UNCHANGED <<hosts_alloc, hostsState>>

\* cflare_hosts_unload: hosts_len is never counted up, so its loop deletes no
\* host; the descriptors that are left are void.
HostsUnload ==
    /\ hostsState = "ok"
    /\ hosts' = [i \in {} |-> FreeHost] /\ hosts_alloc' = StartHosts
    /\ given' = [d \in Descriptors |-> FreeHost]
    /\ UNCHANGED hostsState

HostsNext == HostsLoad \/ HostNew \/ HostMap \/ HostDelete \/ HostsUnload

HostsSpec == HostsInit /\ [][HostsNext]_hostsVars

-----------------------------------------------------------------------------
\* Every variable has its type.
HostsTypeOK ==
    /\ hosts_alloc \in 1..MaxHosts /\ hostsState \in {"ok", "crashed"}
    /\ given \in [Descriptors -> [name : Domains \cup {NoDomain}, routes : [Paths -> Callbacks \cup {NoCallback}]]]

\* A host keeps its descriptor, its name and its routes while the array moves
\* and doubles, slots are freed and taken again, and the hosts around it go; and
\* a slot nobody has a descriptor for is free.
HostsKept ==
    /\ HostsNull \/ DOMAIN hosts = 0..(hosts_alloc - 1)
    /\ \A d \in Descriptors :
          IF d - 1 \in DOMAIN hosts THEN hosts[d - 1] = given[d] ELSE given[d] = FreeHost

\* hosts.c on the growth of the array: "wasn't a free one, let's grow the array".
GrowsWhenFull ==
    [][hosts_alloc' > hosts_alloc => \A i \in DOMAIN hosts : hosts[i].name # NoDomain]_hostsVars

\* hosts.c, cflare_hosts_unload: "these should be unloaded, throw a warning and
\* delete() them": no host is left when the array goes.
UnloadDeletes == [][HostsNull' => \A d \in Descriptors : ~HasDescriptor(d)]_hostsVars
=============================================================================

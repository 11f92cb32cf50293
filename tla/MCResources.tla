---------------------------- MODULE MCResources ----------------------------
(***************************************************************************)
(* What callers are given and must give back: mutexes, the place of each   *)
(* in the table of the Windows port, headers, hosts and sockets.  They     *)
(* share no state, so a behaviour uses one of them and leaves the others   *)
(* as they are.                                                            *)
(***************************************************************************)
EXTENDS RWMutexWin, LockTable, Headers, Hosts, Sockets, TLC

CONSTANTS host, Host, date, etag

\* Two spellings of one name, and two more names.
Normals == host :> host @@ Host :> host @@ date :> date @@ etag :> etag

VARIABLE part    \* "lock", "locks", "headers", "hosts" or "sockets"

allVars == <<lockVars, tableVars, vars, hostsVars, socketsVars>>

MCInit ==
    /\ part \in {"lock", "locks", "headers", "hosts", "sockets"}
    /\ LockInit /\ TableInit /\ Init /\ HostsInit /\ SocketsInit

\* A process that has crashed or ended does nothing more, and headers, hosts and
\* sockets may stop anywhere; other threads that cannot go on are a deadlock.
Ended == (raised \/ fatal \/ part \in {"headers", "hosts", "sockets"}) /\ UNCHANGED allVars

MCNext ==
    /\ \/ Ended
       \/ part = "lock" /\ LockNext
          /\ UNCHANGED <<tableVars, vars, hostsVars, socketsVars>>
       \/ part = "locks" /\ TableNext
          /\ UNCHANGED <<lockVars, vars, hostsVars, socketsVars>>
       \/ part = "headers" /\ Next
          /\ UNCHANGED <<lockVars, tableVars, hostsVars, socketsVars>>
       \/ part = "hosts" /\ HostsNext
          /\ UNCHANGED <<lockVars, tableVars, vars, socketsVars>>
       \/ part = "sockets" /\ SocketsNext
          /\ UNCHANGED <<lockVars, tableVars, vars, hostsVars>>
    /\ UNCHANGED part

MCSpec == MCInit /\ [][MCNext]_<<allVars, part>>

=============================================================================

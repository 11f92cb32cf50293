------------------------------ MODULE Sockets ------------------------------
(***************************************************************************)
(* The descriptors behind listeners and sockets (cflare-posix/socket.c):   *)
(* listen, accept and connect with everything that can fail half way, and  *)
(* close, delete and disconnect.  Coroutines make these calls; of them     *)
(* lthread_accept and lthread_connect let other coroutines run meanwhile.  *)
(* The system hands out the lowest number that is free, so a number that   *)
(* was closed is soon another socket's.                                    *)
(*                                                                         *)
(* Bounds: Fds, the descriptors the process may have; Objs, the listeners  *)
(* and sockets alive at once; MaxAddrs, the addresses a name resolves to.  *)
(***************************************************************************)
EXTENDS Integers, FiniteSets

CONSTANTS Coros, Objs, NoObj, Fds, MaxAddrs

ASSUME SocketsAssumption ==
    NoObj \notin Objs /\ Fds \subseteq Nat /\ IsFiniteSet(Fds) /\ MaxAddrs \in Nat

VARIABLES
    openFds,    \* descriptors the system has open for the process
    object,     \* each cflare_listener and cflare_socket
    call,       \* the call each coroutine is in
    lost        \* history: descriptors no object and no call knows of

socketsVars == <<openFds, object, call, lost>>

NoFd == -1
Gone == [kind |-> "none", fd |-> NoFd, connected |-> FALSE]
NoCallNow == [at |-> "none", fd |-> NoFd, addrs |-> 0, on |-> NoObj]

SocketsInit ==
    /\ openFds = {} /\ lost = {}
    /\ object = [o \in Objs |-> Gone]
    /\ call = [c \in Coros |-> NoCallNow]

\* socket() and accept() return the lowest free number, or fail.
LowestFree(fd) == fd \in Fds \ openFds /\ \A f \in Fds \ openFds : fd <= f

\* Objects are interchangeable: malloc returns any that is free, always the same.
Fresh(o) == object[o].kind = "none" /\ o = CHOOSE x \in Objs : object[x].kind = "none"

InCall(c, at) == call[c].at = at
Goto(c, at) == call' = [call EXCEPT ![c].at = at]
Returns(c) == call' = [call EXCEPT ![c] = NoCallNow]

\* Nobody is inside a call on the object.
Unused(o) == \A c \in Coros : call[c].on # o

\* Objects are made and used as long as there is room to make one more.
MayMake(c) == InCall(c, "none") /\ \E o \in Objs : object[o].kind = "none"

\* lthread_close in a failed call.
GivesUp(c) ==
    /\ openFds' = openFds \ {call[c].fd}
    /\ UNCHANGED lost

\* The descriptor of a call becomes a new object's.
Made(c, fd, kind) ==
    \E o \in Objs :
        /\ Fresh(o)
        /\ object' = [object EXCEPT ![o] = [kind |-> kind, fd |-> fd, connected |-> kind = "socket"]]

-----------------------------------------------------------------------------
(* cflare_socket_listen.                                                   *)

\* getaddrinfo: a failure returns at once.
ListenResolves(c) ==
    /\ MayMake(c)
    /\ \E n \in 1..MaxAddrs :
          call' = [call EXCEPT ![c] = [NoCallNow EXCEPT !.at = "try", !.addrs = n]]
    /\ UNCHANGED <<openFds, object, lost>>

\* The loop over the addresses: socket()...
ListenTries(c) ==
    /\ InCall(c, "try")
    /\ \/ call[c].addrs = 0 /\ Returns(c) /\ UNCHANGED openFds
       \/ /\ call[c].addrs > 0
          /\ call' = [call EXCEPT ![c].addrs = @ - 1]
          /\ UNCHANGED openFds
       \/ \E fd \in Fds :
             /\ call[c].addrs > 0 /\ LowestFree(fd)
             /\ openFds' = openFds \cup {fd}
             /\ call' = [call EXCEPT ![c].at = "bind", ![c].fd = fd]
    /\ UNCHANGED <<object, lost>>

\* ... and bind(); an address that cannot be bound is closed and left.
ListenBinds(c) ==
    /\ InCall(c, "bind")
    /\ \/ Goto(c, "name") /\ UNCHANGED <<openFds, lost>>
       \/ /\ GivesUp(c)
          /\ call' = [call EXCEPT ![c].at = "try", ![c].fd = NoFd, ![c].addrs = @ - 1]
    /\ UNCHANGED object

\* getnameinfo() of the address it is bound to.
ListenNames(c) ==
    /\ InCall(c, "name")
    /\ \/ Goto(c, "listen") /\ UNCHANGED <<openFds, lost>>
       \/ GivesUp(c) /\ Returns(c)
    /\ UNCHANGED object

\* listen(), and the cflare_listener.
ListenListens(c) ==
    /\ InCall(c, "listen") /\ Returns(c)
    /\ \/ Made(c, call[c].fd, "listener") /\ UNCHANGED <<openFds, lost>>
       \/ GivesUp(c) /\ UNCHANGED object

-----------------------------------------------------------------------------
(* cflare_listener_accept and cflare_socket_connect.                       *)

AcceptWaits(c) ==
    /\ MayMake(c)
    /\ \E l \in Objs :
          /\ object[l].kind = "listener" /\ object[l].fd # NoFd
          /\ call' = [call EXCEPT ![c] = [NoCallNow EXCEPT !.at = "accept", !.on = l]]
    /\ UNCHANGED <<openFds, object, lost>>

\* A connection, or an error (lthread_close of the listener is one).  When
\* getnameinfo fails the new descriptor is neither closed nor kept.
AcceptComes(c) ==
    /\ InCall(c, "accept") /\ Returns(c)
    /\ \/ UNCHANGED <<openFds, object, lost>>
       \/ \E fd \in Fds :
             /\ object[call[c].on].fd # NoFd /\ LowestFree(fd)
             /\ openFds' = openFds \cup {fd}
             /\ \/ Made(c, fd, "socket") /\ UNCHANGED lost
                \/ lost' = lost \cup {fd} /\ UNCHANGED object

\* getaddrinfo, getnameinfo and socket(): a failure of one of them returns at
\* once.  Then lthread_connect, of the first address only.
ConnectStarts(c) ==
    /\ MayMake(c)
    /\ \E fd \in Fds :
          /\ LowestFree(fd)
          /\ openFds' = openFds \cup {fd}
          /\ call' = [call EXCEPT ![c] = [NoCallNow EXCEPT !.at = "connect", !.fd = fd]]
    /\ UNCHANGED <<object, lost>>

\* Connected, refused, or out of time.
ConnectEnds(c) ==
    /\ InCall(c, "connect") /\ Returns(c)
    /\ \/ Made(c, call[c].fd, "socket") /\ UNCHANGED <<openFds, lost>>
       \/ GivesUp(c) /\ UNCHANGED object

-----------------------------------------------------------------------------
(* Closing.                                                                *)

\* cflare_listener_close and cflare_socket_close; again, they do nothing.
Closed(o) ==
    /\ openFds' = openFds \ {object[o].fd}
    /\ object' = [object EXCEPT ![o].fd = NoFd, ![o].connected = FALSE]

\* By its user, or by cflare_socket_write when a send fails.
CloseObj(c) ==
    /\ InCall(c, "none")
    /\ \E o \in Objs : object[o].kind # "none" /\ Closed(o)
    /\ UNCHANGED <<call, lost>>

\* cflare_socket_disconnect, and a read that meets the end of the stream.
Disconnect(c) ==
    /\ InCall(c, "none")
    /\ \E o \in Objs : object[o].connected /\ object' = [object EXCEPT ![o].connected = FALSE]
    /\ UNCHANGED <<openFds, call, lost>>

\* A slip: the memory is freed and the descriptor stays open.
DeleteOnlyFrees(c) ==
    /\ InCall(c, "none")
    /\ \E o \in Objs : object[o].kind # "none" /\ Unused(o) /\ object' = [object EXCEPT ![o] = Gone]
    /\ UNCHANGED <<openFds, call, lost>>

\* cflare_listener_delete and cflare_socket_delete: close, then free.
DeleteObj(c) ==
    /\ InCall(c, "none")
    /\ \E o \in Objs :
          /\ object[o].kind # "none" /\ Unused(o)
          /\ openFds' = openFds \ {object[o].fd}
          /\ object' = [object EXCEPT ![o] = Gone]
    /\ UNCHANGED <<call, lost>>

SocketsNext ==
    \E c \in Coros :
        \/ ListenResolves(c) \/ ListenTries(c) \/ ListenBinds(c) \/ ListenNames(c) \/ ListenListens(c)
        \/ AcceptWaits(c) \/ AcceptComes(c) \/ ConnectStarts(c) \/ ConnectEnds(c)
        \/ CloseObj(c) \/ Disconnect(c) \/ DeleteObj(c)

SocketsSpec == SocketsInit /\ [][SocketsNext]_socketsVars

-----------------------------------------------------------------------------
\* Every variable has its type.
SocketsTypeOK ==
    /\ openFds \subseteq Fds /\ lost \subseteq Fds
    /\ object \in [Objs -> [kind : {"none", "listener", "socket"}, fd : Fds \cup {NoFd}, connected : BOOLEAN]]
    /\ call \in [Coros -> [at : {"none", "try", "bind", "name", "listen", "accept", "connect"},
                           fd : Fds \cup {NoFd}, addrs : 0..MaxAddrs, on : Objs \cup {NoObj}]]

Held == {object[o].fd : o \in Objs} \ {NoFd}
InHand == {call[c].fd : c \in Coros} \ {NoFd}

\* Whatever fails half way and however numbers are reused: every descriptor is
\* that of one object or of one call still at work on it, so no close hits
\* another's; and none is open that nobody will close, but for the connections
\* whose address accept could not read.
DescriptorsOwned ==
    /\ openFds = Held \cup InHand \cup lost
    /\ \A o, p \in Objs : object[o].fd = object[p].fd /\ object[o].fd # NoFd => o = p
    /\ \A b, c \in Coros : call[b].fd = call[c].fd /\ call[b].fd # NoFd => b = c
    /\ Held \cap InHand = {} /\ Held \cap lost = {} /\ InHand \cap lost = {}
    /\ \A o \in Objs : object[o].connected => object[o].fd # NoFd
=============================================================================

-------------------------- MODULE ResourcesProofs --------------------------
(***************************************************************************)
(* Proofs about what callers are given and must give back: descriptors of  *)
(* sockets, hosts and headers.  MCResources checks the same properties on  *)
(* a small instance.                                                       *)
(***************************************************************************)
EXTENDS Headers, Hosts, Sockets, TLAPS

-----------------------------------------------------------------------------
(* Sockets: for any set of coroutines, objects and descriptors.            *)

\* What DescriptorsOwned needs to be inductive: a call has a descriptor in hand
\* exactly while it is between socket() and its last step, and the memory of an
\* object that is free refers to no descriptor.
CallsHold ==
    \A c \in Coros :
        /\ call[c].fd # NoFd <=> call[c].at \in {"bind", "name", "listen", "connect"}
        /\ call[c].at = "bind" => call[c].addrs > 0

FreeObjectsHoldNothing == \A o \in Objs : object[o].kind = "none" => object[o].fd = NoFd

SocketsInv == SocketsTypeOK /\ DescriptorsOwned /\ CallsHold /\ FreeObjectsHoldNothing

ObjFields == [kind : {"none", "listener", "socket"}, fd : Fds \cup {NoFd}, connected : BOOLEAN]
CallFields == [at : {"none", "try", "bind", "name", "listen", "accept", "connect"},
               fd : Fds \cup {NoFd}, addrs : 0..MaxAddrs, on : Objs \cup {NoObj}]

\* -1 is no descriptor.
LEMMA NoFdIsNone == NoFd \notin Fds
  BY SocketsAssumption DEF NoFd

\* DescriptorsOwned, said of one descriptor, one object and one call at a time.
EachIsOwned ==
    /\ \A f : f \in openFds <=>
          \/ f \in lost
          \/ f # NoFd /\ \E o \in Objs : object[o].fd = f
          \/ f # NoFd /\ \E c \in Coros : call[c].fd = f
    /\ \A o, p \in Objs : object[o].fd = object[p].fd /\ object[o].fd # NoFd => o = p
    /\ \A b, c \in Coros : call[b].fd = call[c].fd /\ call[b].fd # NoFd => b = c
    /\ \A o \in Objs, c \in Coros : object[o].fd = call[c].fd => object[o].fd = NoFd
    /\ \A o \in Objs : object[o].fd # NoFd => object[o].fd \notin lost
    /\ \A c \in Coros : call[c].fd # NoFd => call[c].fd \notin lost
    /\ \A o \in Objs : object[o].connected => object[o].fd # NoFd

\* The two say the same.
LEMMA OwnedEach == DescriptorsOwned <=> EachIsOwned
  <1>1. openFds = Held \cup InHand \cup lost <=>
            \A f : f \in openFds <=>
              \/ f \in lost
              \/ f # NoFd /\ \E o \in Objs : object[o].fd = f
              \/ f # NoFd /\ \E c \in Coros : call[c].fd = f
    BY DEF Held, InHand
  <1>2. Held \cap InHand = {} <=>
            \A o \in Objs, c \in Coros : object[o].fd = call[c].fd => object[o].fd = NoFd
    BY DEF Held, InHand
  <1>3. Held \cap lost = {} <=> \A o \in Objs : object[o].fd # NoFd => object[o].fd \notin lost
    BY DEF Held
  <1>4. InHand \cap lost = {} <=> \A c \in Coros : call[c].fd # NoFd => call[c].fd \notin lost
    BY DEF InHand
  <1>5. QED
    BY <1>1, <1>2, <1>3, <1>4 DEF DescriptorsOwned, EachIsOwned

\* So they do after a step.
LEMMA OwnedEachNext == DescriptorsOwned' <=> EachIsOwned'
  BY OwnedEach, PTL

\* A process starts with none of its own descriptors open.
LEMMA SocketsInitInv == SocketsInit => SocketsInv
  <1>1. SUFFICES ASSUME SocketsInit PROVE SocketsInv
    OBVIOUS
  <1>2. Gone \in ObjFields /\ NoCallNow \in CallFields
    BY SocketsAssumption DEF Gone, NoCallNow, ObjFields, CallFields
  <1>3. SocketsTypeOK
    BY <1>1, <1>2 DEF SocketsInit, SocketsTypeOK, ObjFields, CallFields
  <1>4. /\ \A o \in Objs : object[o].fd = NoFd /\ object[o].connected = FALSE
        /\ \A c \in Coros : call[c].fd = NoFd /\ call[c].at = "none"
    BY <1>1 DEF SocketsInit, Gone, NoCallNow
  <1>5. openFds = {} /\ lost = {}
    BY <1>1 DEF SocketsInit
  <1>6. DescriptorsOwned
    BY <1>4, <1>5, OwnedEach DEF EachIsOwned
  <1>7. CallsHold /\ FreeObjectsHoldNothing
    BY <1>4 DEF CallsHold, FreeObjectsHoldNothing
  <1>8. QED
    BY <1>3, <1>6, <1>7 DEF SocketsInv

\* A step that leaves every descriptor where it is.
LEMMA NothingMoves ==
    ASSUME EachIsOwned, openFds' = openFds, lost' = lost,
           \A o \in Objs : /\ object'[o].fd = object[o].fd
                           /\ object'[o].connected => object[o].connected,
           \A c \in Coros : call'[c].fd = call[c].fd
    PROVE  EachIsOwned'
  BY DEF EachIsOwned

\* socket(): a descriptor that was not open is in the hands of a call that had none.
LEMMA CallOpens ==
    ASSUME EachIsOwned, NEW c \in Coros, NEW fd, fd \notin openFds, fd # NoFd,
           call[c].fd = NoFd, openFds' = openFds \cup {fd}, lost' = lost, object' = object,
           call'[c].fd = fd, \A b \in Coros : b # c => call'[b].fd = call[b].fd
    PROVE  EachIsOwned'
  BY DEF EachIsOwned

\* lthread_close in a failed call: the call has nothing in hand any more.
LEMMA CallCloses ==
    ASSUME EachIsOwned, NEW c \in Coros, call[c].fd # NoFd,
           openFds' = openFds \ {call[c].fd}, lost' = lost, object' = object,
           call'[c].fd = NoFd, \A b \in Coros : b # c => call'[b].fd = call[b].fd
    PROVE  EachIsOwned'
  BY DEF EachIsOwned

\* The descriptor of a call becomes that of an object that had none.
LEMMA CallHandsOver ==
    ASSUME EachIsOwned, NEW c \in Coros, NEW o \in Objs, call[c].fd # NoFd, object[o].fd = NoFd,
           openFds' = openFds, lost' = lost,
           call'[c].fd = NoFd, \A b \in Coros : b # c => call'[b].fd = call[b].fd,
           object'[o].fd = call[c].fd, \A p \in Objs : p # o => object'[p] = object[p]
    PROVE  EachIsOwned'
  BY DEF EachIsOwned

\* accept(): a descriptor that was not open becomes that of an object that had none.
LEMMA ObjectOpens ==
    ASSUME EachIsOwned, NEW o \in Objs, NEW fd, fd \notin openFds, fd # NoFd, object[o].fd = NoFd,
           openFds' = openFds \cup {fd}, lost' = lost,
           \A b \in Coros : call'[b].fd = call[b].fd,
           object'[o].fd = fd, \A p \in Objs : p # o => object'[p] = object[p]
    PROVE  EachIsOwned'
  BY DEF EachIsOwned

\* accept() when the address cannot be read: the descriptor is nobody's.
LEMMA NobodyOpens ==
    ASSUME EachIsOwned, NEW fd, fd \notin openFds, fd # NoFd,
           openFds' = openFds \cup {fd}, lost' = lost \cup {fd},
           \A b \in Coros : call'[b].fd = call[b].fd, object' = object
    PROVE  EachIsOwned'
  BY DEF EachIsOwned

\* close and delete: once more, they close nothing.
LEMMA ObjectCloses ==
    ASSUME EachIsOwned, NEW o \in Objs, NoFd \notin openFds,
           openFds' = openFds \ {object[o].fd}, lost' = lost, call' = call,
           object'[o].fd = NoFd, ~object'[o].connected, \A p \in Objs : p # o => object'[p] = object[p]
    PROVE  EachIsOwned'
  BY DEF EachIsOwned

\* The states of a call, and of an object, one at a time.
LEMMA SocketsTyped ==
    ASSUME SocketsInv
    PROVE  /\ EachIsOwned /\ NoFd \notin openFds
           /\ object \in [Objs -> ObjFields] /\ call \in [Coros -> CallFields]
           /\ openFds \subseteq Fds /\ lost \subseteq Fds
           /\ CallsHold /\ FreeObjectsHoldNothing
  BY OwnedEach, NoFdIsNone DEF SocketsInv, SocketsTypeOK, ObjFields, CallFields

\* The parts of the invariant, put together after a step.
LEMMA SocketsTogether ==
    ASSUME EachIsOwned', object' \in [Objs -> ObjFields], call' \in [Coros -> CallFields],
           openFds' \subseteq Fds, lost' \subseteq Fds, CallsHold', FreeObjectsHoldNothing'
    PROVE  SocketsInv'
  BY OwnedEachNext DEF SocketsInv, SocketsTypeOK, ObjFields, CallFields

\* getaddrinfo, the wait of accept, and the steps of a call that keep what it has.
LEMMA CallMoves ==
    ASSUME SocketsInv, NEW c \in Coros,
           \/ ListenResolves(c) \/ AcceptWaits(c)
           \/ ListenBinds(c) /\ Goto(c, "name") /\ UNCHANGED <<openFds, lost>>
           \/ ListenNames(c) /\ Goto(c, "listen") /\ UNCHANGED <<openFds, lost>>
           \/ InCall(c, "try") /\ Returns(c) /\ UNCHANGED <<openFds, object, lost>>
           \/ InCall(c, "accept") /\ Returns(c) /\ UNCHANGED <<openFds, object, lost>>
           \/ InCall(c, "try") /\ call[c].addrs > 0
              /\ call' = [call EXCEPT ![c].addrs = @ - 1] /\ UNCHANGED <<openFds, object, lost>>
    PROVE  SocketsInv'
  <1>1. /\ EachIsOwned /\ NoFd \notin openFds
        /\ object \in [Objs -> ObjFields] /\ call \in [Coros -> CallFields]
        /\ openFds \subseteq Fds /\ lost \subseteq Fds
        /\ CallsHold /\ FreeObjectsHoldNothing
    BY SocketsTyped
  <1>2. openFds' = openFds /\ object' = object /\ lost' = lost
    BY DEF ListenResolves, AcceptWaits, ListenBinds, ListenNames
  <1>3. PICK r \in CallFields :
            /\ call' = [call EXCEPT ![c] = r]
            /\ r.fd = call[c].fd
            /\ r.fd # NoFd <=> r.at \in {"bind", "name", "listen", "connect"}
            /\ r.at # "bind"
    <2>1. call[c] \in CallFields
      BY <1>1
    <2>2. CASE ListenResolves(c)
      <3>1. call[c].at = "none" /\ call[c].fd = NoFd
        BY <1>1, <2>1, <2>2 DEF ListenResolves, MayMake, InCall, CallsHold
      <3>2. PICK n \in 1..MaxAddrs : call' = [call EXCEPT ![c] = [NoCallNow EXCEPT !.at = "try", !.addrs = n]]
        BY <2>2 DEF ListenResolves
      <3>3. NoCallNow \in CallFields /\ NoCallNow.fd = NoFd /\ n \in 0..MaxAddrs
        BY <3>2, SocketsAssumption DEF CallFields, NoCallNow
      <3>4. /\ [NoCallNow EXCEPT !.at = "try", !.addrs = n] \in CallFields
            /\ [NoCallNow EXCEPT !.at = "try", !.addrs = n].fd = NoFd
            /\ [NoCallNow EXCEPT !.at = "try", !.addrs = n].at = "try"
        BY <3>3 DEF CallFields
      <3>5. QED
        BY <3>1, <3>2, <3>4
    <2>3. CASE AcceptWaits(c)
      <3>1. call[c].at = "none" /\ call[c].fd = NoFd
        BY <1>1, <2>1, <2>3 DEF AcceptWaits, MayMake, InCall, CallsHold
      <3>2. PICK l \in Objs : call' = [call EXCEPT ![c] = [NoCallNow EXCEPT !.at = "accept", !.on = l]]
        BY <2>3 DEF AcceptWaits
      <3>3. NoCallNow \in CallFields /\ NoCallNow.fd = NoFd
        BY SocketsAssumption DEF CallFields, NoCallNow
      <3>4. /\ [NoCallNow EXCEPT !.at = "accept", !.on = l] \in CallFields
            /\ [NoCallNow EXCEPT !.at = "accept", !.on = l].fd = NoFd
            /\ [NoCallNow EXCEPT !.at = "accept", !.on = l].at = "accept"
        BY <3>2, <3>3, SocketsAssumption DEF CallFields
      <3>5. QED
        BY <3>1, <3>2, <3>4
    <2>4. CASE ListenBinds(c) /\ Goto(c, "name")
      <3>1. call[c].fd # NoFd /\ call' = [call EXCEPT ![c] = [call[c] EXCEPT !.at = "name"]]
        BY <1>1, <2>1, <2>4 DEF ListenBinds, InCall, Goto, CallsHold
      <3>2. [call[c] EXCEPT !.at = "name"] \in CallFields
        BY <2>1 DEF CallFields
      <3>3. QED
        BY <3>1, <3>2, <2>1 DEF CallFields
    <2>5. CASE ListenNames(c) /\ Goto(c, "listen")
      <3>1. call[c].fd # NoFd /\ call' = [call EXCEPT ![c] = [call[c] EXCEPT !.at = "listen"]]
        BY <1>1, <2>1, <2>5 DEF ListenNames, InCall, Goto, CallsHold
      <3>2. [call[c] EXCEPT !.at = "listen"] \in CallFields
        BY <2>1 DEF CallFields
      <3>3. QED
        BY <3>1, <3>2, <2>1 DEF CallFields
    <2>6. CASE (InCall(c, "try") \/ InCall(c, "accept")) /\ Returns(c)
      <3>1. call[c].fd = NoFd /\ call' = [call EXCEPT ![c] = NoCallNow]
        BY <1>1, <2>1, <2>6 DEF InCall, Returns, CallsHold
      <3>2. NoCallNow \in CallFields
        BY SocketsAssumption DEF CallFields, NoCallNow
      <3>3. QED
        BY <3>1, <3>2 DEF NoCallNow
    <2>7. CASE InCall(c, "try") /\ call[c].addrs > 0 /\ call' = [call EXCEPT ![c].addrs = @ - 1]
      <3>1. call[c].fd = NoFd /\ call' = [call EXCEPT ![c] = [call[c] EXCEPT !.addrs = @ - 1]]
        BY <1>1, <2>1, <2>7 DEF InCall, CallsHold
      <3>2. [call[c] EXCEPT !.addrs = @ - 1] \in CallFields
        BY <2>1, <2>7, SocketsAssumption DEF CallFields
      <3>3. QED
        BY <3>1, <3>2, <2>1, <2>7 DEF CallFields, InCall
    <2>8. QED
      BY <2>2, <2>3, <2>4, <2>5, <2>6, <2>7
  <1>4. call' \in [Coros -> CallFields]
    BY <1>1, <1>3
  <1>5. call'[c] = r /\ \A b \in Coros : b # c => call'[b] = call[b]
    BY <1>1, <1>3
  <1>6. EachIsOwned'
    BY <1>1, <1>2, <1>3, <1>5, NothingMoves
  <1>7. CallsHold'
    BY <1>1, <1>3, <1>5 DEF CallsHold
  <1>8. QED
    BY <1>1, <1>2, <1>4, <1>6, <1>7, SocketsTogether DEF FreeObjectsHoldNothing

\* socket() in listen and in connect.
LEMMA CallOpensInv ==
    ASSUME SocketsInv, NEW c \in Coros, NEW fd \in Fds, NEW r \in CallFields,
           LowestFree(fd), call[c].fd = NoFd, openFds' = openFds \cup {fd},
           call' = [call EXCEPT ![c] = r], r.fd = fd,
           r.at \in {"bind", "connect"}, r.at = "bind" => r.addrs > 0,
           UNCHANGED <<object, lost>>
    PROVE  SocketsInv'
  <1>1. /\ EachIsOwned /\ NoFd \notin openFds
        /\ object \in [Objs -> ObjFields] /\ call \in [Coros -> CallFields]
        /\ openFds \subseteq Fds /\ lost \subseteq Fds
        /\ CallsHold /\ FreeObjectsHoldNothing
    BY SocketsTyped
  <1>2. fd \notin openFds /\ fd # NoFd
    BY NoFdIsNone DEF LowestFree
  <1>3. call' \in [Coros -> CallFields] /\ call'[c] = r /\ \A b \in Coros : b # c => call'[b] = call[b]
    BY <1>1
  <1>4. EachIsOwned'
    BY <1>1, <1>2, <1>3, CallOpens
  <1>5. CallsHold'
    BY <1>1, <1>2, <1>3 DEF CallsHold
  <1>6. QED
    BY <1>1, <1>3, <1>4, <1>5, SocketsTogether DEF FreeObjectsHoldNothing

\* lthread_close in a call that failed: back to the next address, or out.
LEMMA GivesUpInv ==
    ASSUME SocketsInv, NEW c \in Coros, NEW r \in CallFields, GivesUp(c),
           call[c].fd # NoFd, call' = [call EXCEPT ![c] = r], r.fd = NoFd,
           r.at \in {"none", "try"}, UNCHANGED object
    PROVE  SocketsInv'
  <1>1. /\ EachIsOwned /\ NoFd \notin openFds
        /\ object \in [Objs -> ObjFields] /\ call \in [Coros -> CallFields]
        /\ openFds \subseteq Fds /\ lost \subseteq Fds
        /\ CallsHold /\ FreeObjectsHoldNothing
    BY SocketsTyped
  <1>2. openFds' = openFds \ {call[c].fd} /\ lost' = lost
    BY DEF GivesUp
  <1>3. call' \in [Coros -> CallFields] /\ call'[c] = r /\ \A b \in Coros : b # c => call'[b] = call[b]
    BY <1>1
  <1>4. EachIsOwned'
    BY <1>1, <1>2, <1>3, CallCloses
  <1>5. CallsHold'
    BY <1>1, <1>3 DEF CallsHold
  <1>6. QED
    BY <1>1, <1>2, <1>3, <1>4, <1>5, SocketsTogether DEF FreeObjectsHoldNothing

\* What a new object looks like.
LEMMA MadeObject ==
    ASSUME SocketsInv, NEW c \in Coros, NEW fd \in Fds, NEW kind \in {"listener", "socket"},
           Made(c, fd, kind)
    PROVE  /\ object' \in [Objs -> ObjFields] /\ FreeObjectsHoldNothing'
           /\ \E o \in Objs : /\ object[o].fd = NoFd /\ object'[o].fd = fd
                              /\ \A p \in Objs : p # o => object'[p] = object[p]
  <1>1. /\ EachIsOwned /\ NoFd \notin openFds
        /\ object \in [Objs -> ObjFields] /\ call \in [Coros -> CallFields]
        /\ openFds \subseteq Fds /\ lost \subseteq Fds
        /\ CallsHold /\ FreeObjectsHoldNothing
    BY SocketsTyped
  <1> DEFINE new == [kind |-> kind, fd |-> fd, connected |-> kind = "socket"]
  <1>2. PICK o \in Objs : Fresh(o) /\ object' = [object EXCEPT ![o] = new]
    BY DEF Made
  <1>3. new \in ObjFields /\ new.fd = fd /\ new.kind # "none"
    BY DEF ObjFields
  <1>4. /\ object' \in [Objs -> ObjFields] /\ object'[o] = new
        /\ \A p \in Objs : p # o => object'[p] = object[p]
    BY <1>1, <1>2, <1>3
  <1>5. object[o].fd = NoFd
    BY <1>1, <1>2 DEF Fresh, FreeObjectsHoldNothing
  <1>6. FreeObjectsHoldNothing'
    BY <1>1, <1>3, <1>4 DEF FreeObjectsHoldNothing
  <1>7. QED
    BY <1>3, <1>4, <1>5, <1>6

\* The end of listen and of connect: an object, or a descriptor closed.
LEMMA CallEnds ==
    ASSUME SocketsInv, NEW c \in Coros, ListenListens(c) \/ ConnectEnds(c)
    PROVE  SocketsInv'
  <1>1. /\ EachIsOwned /\ NoFd \notin openFds
        /\ object \in [Objs -> ObjFields] /\ call \in [Coros -> CallFields]
        /\ openFds \subseteq Fds /\ lost \subseteq Fds
        /\ CallsHold /\ FreeObjectsHoldNothing
    BY SocketsTyped
  <1>2. call[c].fd # NoFd /\ call[c].fd \in Fds /\ call' = [call EXCEPT ![c] = NoCallNow]
    BY <1>1 DEF ListenListens, ConnectEnds, InCall, Returns, CallsHold, CallFields
  <1>3. NoCallNow \in CallFields /\ NoCallNow.fd = NoFd /\ NoCallNow.at = "none"
    BY SocketsAssumption DEF CallFields, NoCallNow
  <1>4. /\ call' \in [Coros -> CallFields] /\ call'[c] = NoCallNow
        /\ \A b \in Coros : b # c => call'[b] = call[b]
    BY <1>1, <1>2, <1>3
  <1>5. CASE GivesUp(c) /\ UNCHANGED object
    BY <1>2, <1>3, <1>5, GivesUpInv
  <1>6. CASE /\ \E kind \in {"listener", "socket"} : Made(c, call[c].fd, kind)
             /\ UNCHANGED <<openFds, lost>>
    <2>1. /\ object' \in [Objs -> ObjFields] /\ FreeObjectsHoldNothing'
          /\ \E o \in Objs : /\ object[o].fd = NoFd /\ object'[o].fd = call[c].fd
                             /\ \A p \in Objs : p # o => object'[p] = object[p]
      BY <1>2, <1>6, MadeObject
    <2>2. EachIsOwned'
      BY <1>1, <1>2, <1>3, <1>4, <1>6, <2>1, CallHandsOver
    <2>3. CallsHold'
      BY <1>1, <1>3, <1>4 DEF CallsHold
    <2>4. QED
      BY <1>1, <1>4, <1>6, <2>1, <2>2, <2>3, SocketsTogether
  <1>7. QED
    BY <1>5, <1>6 DEF ListenListens, ConnectEnds

\* accept: a socket, an error, or a descriptor that is lost.
LEMMA AcceptComesInv ==
    ASSUME SocketsInv, NEW c \in Coros, AcceptComes(c)
    PROVE  SocketsInv'
  <1>1. /\ EachIsOwned /\ NoFd \notin openFds
        /\ object \in [Objs -> ObjFields] /\ call \in [Coros -> CallFields]
        /\ openFds \subseteq Fds /\ lost \subseteq Fds
        /\ CallsHold /\ FreeObjectsHoldNothing
    BY SocketsTyped
  <1>2. call[c].fd = NoFd /\ call' = [call EXCEPT ![c] = NoCallNow]
    BY <1>1 DEF AcceptComes, InCall, Returns, CallsHold
  <1>3. NoCallNow \in CallFields /\ NoCallNow.fd = NoFd /\ NoCallNow.at = "none"
    BY SocketsAssumption DEF CallFields, NoCallNow
  <1>4. /\ call' \in [Coros -> CallFields] /\ call'[c] = NoCallNow
        /\ \A b \in Coros : b # c => call'[b] = call[b]
    BY <1>1, <1>2, <1>3
  <1>5. /\ \A b \in Coros : call'[b].fd = call[b].fd
        /\ CallsHold'
    BY <1>1, <1>2, <1>3, <1>4 DEF CallsHold
  <1>6. CASE UNCHANGED <<openFds, object, lost>>
    BY <1>6, CallMoves DEF AcceptComes
  <1>7. ASSUME NEW fd \in Fds, LowestFree(fd), openFds' = openFds \cup {fd},
               Made(c, fd, "socket"), UNCHANGED lost
        PROVE  SocketsInv'
    <2>1. fd \notin openFds /\ fd # NoFd
      BY <1>7, NoFdIsNone DEF LowestFree
    <2>2. /\ object' \in [Objs -> ObjFields] /\ FreeObjectsHoldNothing'
          /\ \E o \in Objs : /\ object[o].fd = NoFd /\ object'[o].fd = fd
                             /\ \A p \in Objs : p # o => object'[p] = object[p]
      BY <1>7, MadeObject
    <2>3. EachIsOwned'
      BY <1>1, <1>5, <1>7, <2>1, <2>2, ObjectOpens
    <2>4. QED
      BY <1>1, <1>4, <1>5, <1>7, <2>2, <2>3, SocketsTogether
  <1>8. ASSUME NEW fd \in Fds, LowestFree(fd), openFds' = openFds \cup {fd},
               lost' = lost \cup {fd}, UNCHANGED object
        PROVE  SocketsInv'
    <2>1. fd \notin openFds /\ fd # NoFd
      BY <1>8, NoFdIsNone DEF LowestFree
    <2>2. EachIsOwned'
      BY <1>1, <1>5, <1>8, <2>1, NobodyOpens
    <2>3. QED
      BY <1>1, <1>4, <1>5, <1>8, <2>2, SocketsTogether DEF FreeObjectsHoldNothing
  <1>9. QED
    BY <1>6, <1>7, <1>8 DEF AcceptComes

\* close, disconnect and delete.
LEMMA ObjectCloseInv ==
    ASSUME SocketsInv, NEW c \in Coros, CloseObj(c) \/ Disconnect(c) \/ DeleteObj(c)
    PROVE  SocketsInv'
  <1>1. /\ EachIsOwned /\ NoFd \notin openFds
        /\ object \in [Objs -> ObjFields] /\ call \in [Coros -> CallFields]
        /\ openFds \subseteq Fds /\ lost \subseteq Fds
        /\ CallsHold /\ FreeObjectsHoldNothing
    BY SocketsTyped
  <1>2. call' = call /\ lost' = lost
    BY DEF CloseObj, Disconnect, DeleteObj
  <1>3. CallsHold'
    BY <1>1, <1>2 DEF CallsHold
  <1>4. CASE Disconnect(c)
    <2>1. PICK o \in Objs : object[o].connected /\ object' = [object EXCEPT ![o].connected = FALSE]
      BY <1>4 DEF Disconnect
    <2>2. openFds' = openFds
      BY <1>4 DEF Disconnect
    <2>3. object[o] \in ObjFields /\ [object[o] EXCEPT !.connected = FALSE] \in ObjFields
      BY <1>1 DEF ObjFields
    <2>4. object' \in [Objs -> ObjFields]
      BY <1>1, <2>1, <2>3
    <2>5. \A p \in Objs : /\ object'[p].fd = object[p].fd /\ object'[p].kind = object[p].kind
                          /\ object'[p].connected => object[p].connected
      BY <1>1, <2>1, <2>3 DEF ObjFields
    <2>6. EachIsOwned'
      BY <1>1, <1>2, <2>2, <2>5, NothingMoves
    <2>7. FreeObjectsHoldNothing'
      BY <1>1, <2>5 DEF FreeObjectsHoldNothing
    <2>8. QED
      BY <1>1, <1>2, <1>3, <2>2, <2>4, <2>6, <2>7, SocketsTogether
  <1>5. CASE CloseObj(c) \/ DeleteObj(c)
    <2>1. PICK o \in Objs, r \in ObjFields :
              /\ openFds' = openFds \ {object[o].fd} /\ object' = [object EXCEPT ![o] = r]
              /\ r.fd = NoFd /\ r.connected = FALSE
      <3>1. CASE CloseObj(c)
        <4>1. PICK o \in Objs : Closed(o)
          BY <3>1 DEF CloseObj
        <4>2. object' = [object EXCEPT ![o] = [object[o] EXCEPT !.fd = NoFd, !.connected = FALSE]]
          BY <1>1, <4>1 DEF Closed
        <4>3. object[o] \in ObjFields
          BY <1>1
        <4>4. /\ [object[o] EXCEPT !.fd = NoFd, !.connected = FALSE] \in ObjFields
              /\ [object[o] EXCEPT !.fd = NoFd, !.connected = FALSE].fd = NoFd
              /\ [object[o] EXCEPT !.fd = NoFd, !.connected = FALSE].connected = FALSE
          BY <4>3 DEF ObjFields
        <4>5. openFds' = openFds \ {object[o].fd}
          BY <4>1 DEF Closed
        <4>6. QED
          BY <4>2, <4>4, <4>5
      <3>2. CASE DeleteObj(c)
        <4>1. Gone \in ObjFields /\ Gone.fd = NoFd /\ Gone.connected = FALSE
          BY DEF Gone, ObjFields
        <4>2. QED
          BY <3>2, <4>1 DEF DeleteObj
      <3>3. QED
        BY <1>5, <3>1, <3>2
    <2>2. /\ object' \in [Objs -> ObjFields] /\ object'[o] = r
          /\ \A p \in Objs : p # o => object'[p] = object[p]
      BY <1>1, <2>1
    <2>3. EachIsOwned'
      BY <1>1, <1>2, <2>1, <2>2, ObjectCloses
    <2>4. FreeObjectsHoldNothing'
      BY <1>1, <2>1, <2>2 DEF FreeObjectsHoldNothing
    <2>5. QED
      BY <1>1, <1>2, <1>3, <2>1, <2>2, <2>3, <2>4, SocketsTogether
  <1>6. QED
    BY <1>4, <1>5

\* The loop of listen over the addresses.
LEMMA ListenLoopInv ==
    ASSUME SocketsInv, NEW c \in Coros, ListenTries(c) \/ ListenBinds(c) \/ ListenNames(c) \/ ConnectStarts(c)
    PROVE  SocketsInv'
  <1>1. /\ EachIsOwned /\ NoFd \notin openFds
        /\ object \in [Objs -> ObjFields] /\ call \in [Coros -> CallFields]
        /\ openFds \subseteq Fds /\ lost \subseteq Fds
        /\ CallsHold /\ FreeObjectsHoldNothing
    BY SocketsTyped
  <1>2. call[c] \in CallFields /\ NoCallNow \in CallFields
    BY <1>1, SocketsAssumption DEF CallFields, NoCallNow
  <1>3. CASE ListenTries(c)
    <2>1. call[c].fd = NoFd /\ UNCHANGED <<object, lost>> /\ InCall(c, "try")
      BY <1>1, <1>3 DEF ListenTries, InCall, CallsHold
    <2>2. CASE Returns(c) /\ UNCHANGED openFds
      BY <2>1, <2>2, CallMoves
    <2>3. CASE call[c].addrs > 0 /\ call' = [call EXCEPT ![c].addrs = @ - 1] /\ UNCHANGED openFds
      BY <2>1, <2>3, CallMoves
    <2>4. ASSUME NEW fd \in Fds, call[c].addrs > 0, LowestFree(fd), openFds' = openFds \cup {fd},
                 call' = [call EXCEPT ![c].at = "bind", ![c].fd = fd]
          PROVE  SocketsInv'
      <3> DEFINE r == [call[c] EXCEPT !.at = "bind", !.fd = fd]
      <3>1. r \in CallFields /\ r.fd = fd /\ r.at = "bind" /\ r.addrs = call[c].addrs
        BY <1>2 DEF CallFields
      <3>2. call' = [call EXCEPT ![c] = r]
        BY <1>1, <2>4
      <3>3. r.at \in {"bind", "connect"} /\ (r.at = "bind" => r.addrs > 0)
        BY <3>1, <2>4
      <3> HIDE DEF r
      <3>4. QED
        BY <2>1, <2>4, <3>1, <3>2, <3>3, CallOpensInv
    <2>5. QED
      BY <1>3, <2>2, <2>3, <2>4 DEF ListenTries
  <1>4. CASE ListenBinds(c)
    <2>1. call[c].fd # NoFd /\ call[c].addrs > 0 /\ UNCHANGED object
      BY <1>1, <1>4 DEF ListenBinds, InCall, CallsHold
    <2>2. CASE Goto(c, "name") /\ UNCHANGED <<openFds, lost>>
      BY <1>4, <2>2, CallMoves
    <2>3. CASE GivesUp(c) /\ call' = [call EXCEPT ![c].at = "try", ![c].fd = NoFd, ![c].addrs = @ - 1]
      <3> DEFINE r == [call[c] EXCEPT !.at = "try", !.fd = NoFd, !.addrs = @ - 1]
      <3>1. call[c].addrs - 1 \in 0..MaxAddrs
        BY <1>2, <2>1, SocketsAssumption DEF CallFields
      <3>2. r \in CallFields /\ r.fd = NoFd /\ r.at = "try"
        BY <1>2, <3>1 DEF CallFields
      <3>3. call' = [call EXCEPT ![c] = r]
        BY <1>1, <2>3
      <3> HIDE DEF r
      <3>4. QED
        BY <2>1, <2>3, <3>2, <3>3, GivesUpInv
    <2>4. QED
      BY <1>4, <2>2, <2>3 DEF ListenBinds
  <1>5. CASE ListenNames(c)
    <2>1. call[c].fd # NoFd /\ UNCHANGED object
      BY <1>1, <1>5 DEF ListenNames, InCall, CallsHold
    <2>2. NoCallNow.fd = NoFd /\ NoCallNow.at = "none"
      BY DEF NoCallNow
    <2>3. CASE GivesUp(c) /\ Returns(c)
      BY <1>2, <2>1, <2>2, <2>3, GivesUpInv DEF Returns
    <2>4. CASE Goto(c, "listen") /\ UNCHANGED <<openFds, lost>>
      BY <1>5, <2>4, CallMoves
    <2>5. QED
      BY <1>5, <2>3, <2>4 DEF ListenNames
  <1>6. CASE ConnectStarts(c)
    <2>1. call[c].fd = NoFd /\ UNCHANGED <<object, lost>>
      BY <1>1, <1>6 DEF ConnectStarts, MayMake, InCall, CallsHold
    <2>2. PICK fd \in Fds : /\ LowestFree(fd) /\ openFds' = openFds \cup {fd}
                            /\ call' = [call EXCEPT ![c] = [NoCallNow EXCEPT !.at = "connect", !.fd = fd]]
      BY <1>6 DEF ConnectStarts
    <2> DEFINE r == [NoCallNow EXCEPT !.at = "connect", !.fd = fd]
    <2>3. r \in CallFields /\ r.fd = fd /\ r.at = "connect"
      BY <1>2 DEF CallFields
    <2>4. call' = [call EXCEPT ![c] = r]
      BY <2>2
    <2> HIDE DEF r
    <2>5. QED
      BY <2>1, <2>2, <2>3, <2>4, CallOpensInv
  <1>7. QED
    BY <1>3, <1>4, <1>5, <1>6

\* Every step of every coroutine keeps the invariant.
LEMMA SocketsStep == SocketsInv /\ [SocketsNext]_socketsVars => SocketsInv'
  <1>1. SUFFICES ASSUME SocketsInv, [SocketsNext]_socketsVars PROVE SocketsInv'
    OBVIOUS
  <1>2. CASE UNCHANGED socketsVars
    <2>1. openFds' = openFds /\ object' = object /\ call' = call /\ lost' = lost
      BY <1>2 DEF socketsVars
    <2>2. EachIsOwned'
      BY <1>1, <2>1, SocketsTyped, NothingMoves
    <2>3. QED
      BY <1>1, <2>1, <2>2, SocketsTyped, SocketsTogether DEF CallsHold, FreeObjectsHoldNothing
  <1>3. ASSUME NEW c \in Coros,
               \/ ListenResolves(c) \/ ListenTries(c) \/ ListenBinds(c) \/ ListenNames(c) \/ ListenListens(c)
               \/ AcceptWaits(c) \/ AcceptComes(c) \/ ConnectStarts(c) \/ ConnectEnds(c)
               \/ CloseObj(c) \/ Disconnect(c) \/ DeleteObj(c)
        PROVE  SocketsInv'
    BY <1>1, <1>3, CallMoves, ListenLoopInv, CallEnds, AcceptComesInv, ObjectCloseInv
  <1>4. QED
    BY <1>1, <1>2, <1>3 DEF SocketsNext

\* For every set of coroutines, objects and descriptors, however calls fail half
\* way: the variables of cflare-posix/socket.c's model keep their types.
THEOREM SocketsTypeCorrect == SocketsSpec => []SocketsTypeOK
  <1>1. SocketsInv => SocketsTypeOK
    BY DEF SocketsInv
  <1>2. QED
    BY <1>1, SocketsInitInv, SocketsStep, PTL DEF SocketsSpec

\* Every open descriptor is that of one object, of one call at work, or one that
\* accept lost: no close hits another's and no other descriptor leaks.
THEOREM DescriptorsStayOwned == SocketsSpec => []DescriptorsOwned
  <1>1. SocketsInv => DescriptorsOwned
    BY DEF SocketsInv
  <1>2. QED
    BY <1>1, SocketsInitInv, SocketsStep, PTL DEF SocketsSpec

-----------------------------------------------------------------------------
(* Hosts: for any set of domains, paths and callbacks, any initial size    *)
(* and any size the array may grow to.                                     *)

HostFields == [name : Domains \cup {NoDomain}, routes : [Paths -> Callbacks \cup {NoCallback}]]

\* What is given away under a descriptor is free or has a name: DESCRIPTOR_TO_PTR
\* finds a host by its name, so a slot with routes and no name would be taken again.
GivenIsNamed == \A d \in Descriptors : given[d].name = NoDomain => given[d] = FreeHost

HostsInv == HostsTypeOK /\ HostsKept /\ GivenIsNamed

\* What the invariant says of the array, with the sizes as numbers.
LEMMA HostsFacts ==
    ASSUME HostsInv
    PROVE  /\ hosts_alloc \in Nat /\ hosts_alloc >= 1 /\ hosts_alloc <= MaxHosts
           /\ MaxHosts \in Nat /\ Descriptors = 1..MaxHosts
           /\ given \in [Descriptors -> HostFields] /\ FreeHost \in HostFields
           /\ FreeHost.name = NoDomain
           /\ DOMAIN hosts = {} \/ DOMAIN hosts = 0..(hosts_alloc - 1)
           /\ \A d \in Descriptors : d - 1 \in DOMAIN hosts => hosts[d - 1] = given[d]
           /\ \A d \in Descriptors : d - 1 \notin DOMAIN hosts => given[d] = FreeHost
           /\ \A d \in Descriptors : given[d].name = NoDomain => given[d] = FreeHost
  <1>1. NoRoutes \in [Paths -> Callbacks \cup {NoCallback}]
    BY DEF NoRoutes
  <1>2. FreeHost \in HostFields /\ FreeHost.name = NoDomain
    BY <1>1 DEF FreeHost, HostFields
  <1>3. QED
    BY <1>2, HostsAssumption
       DEF HostsInv, HostsTypeOK, HostsKept, HostsNull, GivenIsNamed, Descriptors, HostFields

\* The array is not there yet and nobody has a descriptor.
LEMMA HostsInitInv == HostsInit => HostsInv
  <1>1. SUFFICES ASSUME HostsInit PROVE HostsInv
    OBVIOUS
  <1>2. NoRoutes \in [Paths -> Callbacks \cup {NoCallback}]
    BY DEF NoRoutes
  <1>3. FreeHost \in HostFields
    BY <1>2 DEF FreeHost, HostFields
  <1>4. HostsTypeOK
    BY <1>1, <1>3, HostsAssumption DEF HostsInit, HostsTypeOK, HostFields
  <1>5. HostsKept /\ GivenIsNamed
    BY <1>1 DEF HostsInit, HostsKept, HostsNull, GivenIsNamed
  <1>6. QED
    BY <1>4, <1>5 DEF HostsInv

\* cflare_hosts_load: as many free slots as there is room for.
LEMMA HostsLoadInv ==
    ASSUME HostsInv, HostsLoad
    PROVE  HostsInv'
  <1>1. hosts_alloc' = hosts_alloc /\ given' = given
    BY DEF HostsLoad
  <1>2. HostsTypeOK' /\ GivenIsNamed'
    BY <1>1 DEF HostsLoad, HostsInv, HostsTypeOK, GivenIsNamed
  <1>3. CASE HostsNull
    <2>1. hosts' = [i \in 0..(hosts_alloc - 1) |-> FreeHost]
      BY <1>3 DEF HostsLoad
    <2>2. \A d \in Descriptors : given[d] = FreeHost
      BY <1>3, HostsFacts DEF HostsNull
    <2>3. HostsKept'
      BY <1>1, <2>1, <2>2 DEF HostsKept, HostsNull
    <2>4. QED
      BY <1>2, <2>3 DEF HostsInv
  <1>4. CASE ~HostsNull
    BY <1>1, <1>2, <1>4 DEF HostsLoad, HostsInv, HostsKept, HostsNull
  <1>5. QED
    BY <1>3, <1>4

\* cflare_host_new: the array doubles, what was in it stays, and the first free
\* slot, be it in the new half, is the caller's.
LEMMA HostNewInv ==
    ASSUME HostsInv, HostNew
    PROVE  HostsInv'
  <1>1. CASE HostsNull
    BY <1>1, HostsAssumption
       DEF HostNew, HostsInv, HostsTypeOK, HostsKept, HostsNull, GivenIsNamed, Descriptors
  <1>2. CASE ~HostsNull
    <2>1. PICK domain \in Domains, i \in 0..hosts_alloc :
              /\ hosts' = [Grown(hosts_alloc) EXCEPT ![i] = [name |-> domain, routes |-> NoRoutes]]
              /\ hosts_alloc' = 2 * hosts_alloc
              /\ given' = [given EXCEPT ![i + 1] = [name |-> domain, routes |-> NoRoutes]]
              /\ hostsState' = hostsState
      BY <1>2 DEF HostNew
    <2> DEFINE made == [name |-> domain, routes |-> NoRoutes]
    <2>2. /\ hosts_alloc \in Nat /\ hosts_alloc >= 1 /\ 2 * hosts_alloc <= MaxHosts
          /\ i \in Nat /\ i <= hosts_alloc /\ MaxHosts \in Nat /\ i + 1 \in Descriptors
      BY HostsFacts DEF HostNew
    <2>3. made \in HostFields /\ made.name # NoDomain
      <3>1. NoRoutes \in [Paths -> Callbacks \cup {NoCallback}]
        BY DEF NoRoutes
      <3>2. QED
        BY <3>1, HostsAssumption DEF HostFields
    <2> HIDE DEF made
    <2>4. given' = [given EXCEPT ![i + 1] = made] /\ hosts' = [Grown(hosts_alloc) EXCEPT ![i] = made]
      BY <2>1 DEF made
    <2>5. HostsTypeOK'
      <3>1. given' \in [Descriptors -> HostFields]
        BY <2>3, <2>4, HostsFacts
      <3>2. QED
        BY <2>1, <2>2, <3>1 DEF HostsInv, HostsTypeOK, HostFields
    <2>6. GivenIsNamed'
      BY <2>2, <2>3, <2>4, HostsFacts DEF GivenIsNamed
    <2>7. HostsKept'
      <3>1. DOMAIN hosts' = 0..(hosts_alloc' - 1)
        BY <2>1, <2>4 DEF Grown
      <3>2. DOMAIN hosts = 0..(hosts_alloc - 1)
        BY <1>2, HostsFacts DEF HostsNull
      <3>3. ASSUME NEW d \in Descriptors, d - 1 \in DOMAIN hosts' PROVE hosts'[d - 1] = given'[d]
        <4>1. d \in Nat /\ d >= 1 /\ d <= 2 * hosts_alloc
          BY <2>1, <2>2, <3>1, <3>3 DEF Descriptors
        <4>2. CASE d = i + 1
          BY <2>2, <2>4, <3>1, <3>3, <4>1, <4>2, HostsFacts DEF Grown
        <4>3. CASE d # i + 1 /\ d <= hosts_alloc
          <5>1. hosts[d - 1] = given[d]
            BY <2>2, <3>2, <3>3, <4>1, <4>3, HostsFacts
          <5>2. hosts'[d - 1] = hosts[d - 1]
            BY <2>2, <2>4, <4>1, <4>3 DEF Grown
          <5>3. given'[d] = given[d]
            BY <2>4, <3>3, <4>3, HostsFacts
          <5>4. QED
            BY <5>1, <5>2, <5>3
        <4>4. CASE d # i + 1 /\ d > hosts_alloc
          <5>1. given[d] = FreeHost
            BY <2>2, <3>2, <3>3, <4>1, <4>4, HostsFacts
          <5>2. hosts'[d - 1] = FreeHost
            BY <2>2, <2>4, <4>1, <4>4 DEF Grown
          <5>3. given'[d] = given[d]
            BY <2>4, <3>3, <4>4, HostsFacts
          <5>4. QED
            BY <5>1, <5>2, <5>3
        <4>5. QED
          BY <2>2, <4>1, <4>2, <4>3, <4>4
      <3>4. ASSUME NEW d \in Descriptors, d - 1 \notin DOMAIN hosts' PROVE given'[d] = FreeHost
        <4>1. d \in Nat /\ d >= 1 /\ d > 2 * hosts_alloc
          BY <2>1, <2>2, <3>1, <3>4 DEF Descriptors
        <4>2. given[d] = FreeHost
          BY <2>2, <3>2, <3>4, <4>1, HostsFacts
        <4>3. d # i + 1
          BY <2>2, <4>1
        <4>4. QED
          BY <2>4, <3>4, <4>2, <4>3, HostsFacts
      <3>5. QED
        BY <3>1, <3>3, <3>4 DEF HostsKept
    <2>8. QED
      BY <2>5, <2>6, <2>7 DEF HostsInv
  <1>3. QED
    BY <1>1, <1>2

\* cflare_host_map and cflare_host_delete change the slot of their descriptor,
\* which is the caller's, and no other.
LEMMA HostChangeInv ==
    ASSUME HostsInv, HostMap \/ HostDelete
    PROVE  HostsInv'
  <1>1. PICK d \in Descriptors, r \in HostFields :
            /\ given[d] # FreeHost /\ (r.name = NoDomain => r = FreeHost)
            /\ given' = [given EXCEPT ![d] = r] /\ hosts' = [hosts EXCEPT ![d - 1] = r]
    <2>1. CASE HostMap
      <3>1. PICK d \in Descriptors, path \in Paths, callback \in Callbacks :
                /\ given[d] # FreeHost
                /\ hosts' = [hosts EXCEPT ![d - 1] = Mapped(@, path, callback)]
                /\ given' = [given EXCEPT ![d] = Mapped(@, path, callback)]
        BY <2>1 DEF HostMap, HasDescriptor
      <3> DEFINE r == Mapped(given[d], path, callback)
      <3>2. d - 1 \in DOMAIN hosts /\ hosts[d - 1] = given[d] /\ given[d] \in HostFields
        BY <3>1, HostsFacts
      <3>3. r \in HostFields /\ r.name = given[d].name
        BY <3>2 DEF HostFields, Mapped
      <3>4. given' = [given EXCEPT ![d] = r] /\ hosts' = [hosts EXCEPT ![d - 1] = r]
        BY <3>1, <3>2
      <3>5. given[d].name # NoDomain
        BY <3>1, HostsFacts
      <3> HIDE DEF r
      <3>6. QED
        BY <3>1, <3>3, <3>4, <3>5
    <2>2. CASE HostDelete
      BY <2>2, HostsFacts DEF HostDelete, HasDescriptor
    <2>3. QED
      BY <2>1, <2>2
  <1>2. d \in Nat /\ d - 1 \in DOMAIN hosts
    BY <1>1, HostsFacts
  <1>3. given' \in [Descriptors -> HostFields] /\ GivenIsNamed'
    BY <1>1, HostsFacts DEF GivenIsNamed
  <1>4. hosts_alloc' = hosts_alloc /\ hostsState' = hostsState
    BY DEF HostMap, HostDelete
  <1>5. HostsTypeOK'
    BY <1>3, <1>4 DEF HostsInv, HostsTypeOK, HostFields
  <1>6. DOMAIN hosts' = DOMAIN hosts
    BY <1>1
  <1>7. \A e \in Descriptors :
            IF e - 1 \in DOMAIN hosts' THEN hosts'[e - 1] = given'[e] ELSE given'[e] = FreeHost
    <2>1. SUFFICES ASSUME NEW e \in Descriptors
                   PROVE  IF e - 1 \in DOMAIN hosts' THEN hosts'[e - 1] = given'[e] ELSE given'[e] = FreeHost
      OBVIOUS
    <2>2. e \in Nat
      BY HostsFacts
    <2>3. CASE e = d
      BY <1>1, <1>2, <1>6, <2>3, HostsFacts
    <2>4. CASE e # d
      <3>1. e - 1 # d - 1
        BY <1>2, <2>2, <2>4
      <3>2. QED
        BY <1>1, <1>6, <2>4, <3>1, HostsFacts
    <2>5. QED
      BY <2>3, <2>4
  <1>8. HostsKept'
    BY <1>4, <1>6, <1>7 DEF HostsInv, HostsKept, HostsNull
  <1>9. QED
    BY <1>3, <1>5, <1>8 DEF HostsInv

\* Every operation on the hosts keeps the invariant.
LEMMA HostsStep == HostsInv /\ [HostsNext]_hostsVars => HostsInv'
  <1>1. SUFFICES ASSUME HostsInv, [HostsNext]_hostsVars PROVE HostsInv'
    OBVIOUS
  <1>2. CASE UNCHANGED hostsVars
    BY <1>1, <1>2 DEF hostsVars, HostsInv, HostsTypeOK, HostsKept, HostsNull, GivenIsNamed
  <1>3. CASE HostsUnload
    <2>1. /\ hosts' = [i \in {} |-> FreeHost] /\ hosts_alloc' = StartHosts
          /\ given' = [d \in Descriptors |-> FreeHost] /\ hostsState' = hostsState
      BY <1>3 DEF HostsUnload
    <2>2. HostsTypeOK'
      BY <1>1, <2>1, HostsFacts, HostsAssumption DEF HostsInv, HostsTypeOK, HostFields
    <2>3. QED
      BY <2>1, <2>2 DEF HostsInv, HostsKept, HostsNull, GivenIsNamed
  <1>4. QED
    BY <1>1, <1>2, <1>3, HostsLoadInv, HostNewInv, HostChangeInv DEF HostsNext

\* A host keeps its descriptor, name and routes whatever happens to the array and
\* to the other hosts (cflare/hosts.c), for any sizes.
THEOREM HostsStayKept == HostsSpec => [](HostsTypeOK /\ HostsKept)
  <1>1. HostsInv => HostsTypeOK /\ HostsKept
    BY DEF HostsInv
  <1>2. QED
    BY <1>1, HostsInitInv, HostsStep, PTL DEF HostsSpec

\* No step puts one host in the place of another: the search of cflare_host_new
\* never gives away a slot whose descriptor somebody has.
NoHostReplaced ==
    \A d \in Descriptors :
        given[d].name # NoDomain /\ given'[d].name # NoDomain => given'[d].name = given[d].name

\* Descriptors are not given away twice.
THEOREM HostsAreNotReplaced == HostsSpec => [][NoHostReplaced]_hostsVars
  <1>1. ASSUME HostsInv, HostsNext PROVE NoHostReplaced
    <2>1. CASE HostNew /\ ~HostsNull
      <3>1. PICK domain \in Domains, i \in 0..hosts_alloc :
                /\ FirstFree(i)
                /\ given' = [given EXCEPT ![i + 1] = [name |-> domain, routes |-> NoRoutes]]
        BY <2>1 DEF HostNew
      <3>2. /\ DOMAIN hosts = 0..(hosts_alloc - 1) /\ 2 * hosts_alloc <= MaxHosts
            /\ hosts_alloc \in Nat /\ hosts_alloc >= 1 /\ MaxHosts \in Nat /\ i \in Nat
            /\ i + 1 \in Descriptors
        BY <1>1, <2>1, HostsFacts DEF HostsNull, HostNew
      <3>3. CASE i < hosts_alloc
        <4>1. hosts[i].name = NoDomain /\ (i + 1) - 1 = i /\ i \in DOMAIN hosts
          BY <3>1, <3>2, <3>3 DEF FirstFree
        <4>2. given[i + 1].name = NoDomain
          BY <1>1, <3>2, <4>1, HostsFacts
        <4>3. QED
          BY <1>1, <3>1, <4>2, HostsFacts DEF NoHostReplaced
      <3>4. CASE ~(i < hosts_alloc)
        <4>1. (i + 1) - 1 \notin DOMAIN hosts
          BY <3>2, <3>4
        <4>2. given[i + 1].name = NoDomain
          BY <1>1, <3>2, <4>1, HostsFacts
        <4>3. QED
          BY <1>1, <3>1, <4>2, HostsFacts DEF NoHostReplaced
      <3>5. QED
        BY <3>3, <3>4
    <2>2. CASE HostNew /\ HostsNull
      BY <2>2 DEF HostNew, NoHostReplaced
    <2>3. CASE HostsLoad
      BY <2>3 DEF HostsLoad, NoHostReplaced
    <2>4. CASE HostsUnload
      BY <1>1, <2>4, HostsFacts DEF HostsUnload, NoHostReplaced
    <2>5. CASE HostDelete
      BY <1>1, <2>5, HostsFacts DEF HostDelete, NoHostReplaced
    <2>6. CASE HostMap
      <3>1. PICK d \in Descriptors, path \in Paths, callback \in Callbacks :
                given' = [given EXCEPT ![d] = Mapped(@, path, callback)]
        BY <2>6 DEF HostMap
      <3>2. given[d] \in HostFields
        BY <1>1, HostsFacts
      <3>3. QED
        BY <1>1, <3>1, <3>2, HostsFacts DEF NoHostReplaced, HostFields, Mapped
    <2>7. QED
      BY <1>1, <2>1, <2>2, <2>3, <2>4, <2>5, <2>6 DEF HostsNext
  <1>2. QED
    BY <1>1, HostsInitInv, HostsStep, PTL DEF HostsSpec

-----------------------------------------------------------------------------
(* Headers: for any names and normal forms; ids for any number of threads, *)
(* the uniqueness of headers for one.                                      *)

\* i is or was the id of a header of key k that somebody can still come by: in the
\* table, returned to a caller, or in the hands of a call.
Named(k, i) ==
    \/ header[k] = i
    \/ <<k, i>> \in held
    \/ \E t \in Threads : pc[t] \in {"set", "found"} /\ Normal[name[t]] = k /\ mine[t] = i

\* Ids come from the counter, and none is that of two keys.
IdsDistinct ==
    \A k \in Keys : \A i \in Nat \ {0} :
        Named(k, i) => i < gid /\ \A l \in Keys : Named(l, i) => k = l

\* A call runs while the registry is loaded, about a name, and has found or made
\* a header when it says so.
CallsAreAbout ==
    /\ gid > 0 /\ (~loaded => held = {})
    /\ \A t \in Threads :
          /\ pc[t] # "idle" => loaded /\ name[t] \in Names
          /\ pc[t] \in {"set", "found"} => mine[t] # 0
          /\ pc[t] = "got" => header[Normal[name[t]]] # 0

HeadersInv == TypeOK /\ CallsAreAbout /\ IdsDistinct

\* No id is used before the counter has reached it, and the registry starts empty.
LEMMA HeadersInitInv == Init => HeadersInv
  <1>1. SUFFICES ASSUME Init PROVE HeadersInv
    OBVIOUS
  <1>2. TypeOK
    <2>1. loaded \in BOOLEAN /\ fault \in BOOLEAN
      BY <1>1 DEF Init
    <2>2. lines \in 0..MaxLines /\ gid \in Nat
      BY <1>1, HeadersAssumption DEF Init
    <2>3. header \in [Keys -> Nat] /\ mine \in [Threads -> Nat] /\ name \in [Threads -> Names \cup {NoName}]
      BY <1>1 DEF Init
    <2>4. pc \in [Threads -> {"idle", "got", "id", "set", "found"}]
      BY <1>1 DEF Init
    <2>5. live \subseteq Nat \ {0} /\ held \subseteq Keys \X (Nat \ {0})
      BY <1>1 DEF Init
    <2>6. QED
      BY <2>1, <2>2, <2>3, <2>4, <2>5 DEF TypeOK
  <1>3. CallsAreAbout
    BY <1>1 DEF Init, CallsAreAbout
  <1>4. IdsDistinct
    BY <1>1 DEF Init, IdsDistinct, Named
  <1>5. QED
    BY <1>2, <1>3, <1>4 DEF HeadersInv

\* A step after which no id has a key that it did not have, or only the id that
\* the counter has just given out.
LEMMA IdsStayDistinct ==
    ASSUME IdsDistinct, gid \in Nat, gid' \in Nat, NEW key,
           \/ gid' = gid /\ \A k \in Keys : \A i \in Nat \ {0} : Named(k, i)' => Named(k, i)
           \/ /\ gid' = gid + 1
              /\ \A k \in Keys : \A i \in Nat \ {0} : Named(k, i)' => Named(k, i) \/ (k = key /\ i = gid)
    PROVE  IdsDistinct'
  <1>1. SUFFICES ASSUME NEW k \in Keys, NEW i \in Nat \ {0}, Named(k, i)'
                 PROVE  i < gid' /\ \A l \in Keys : Named(l, i)' => k = l
    BY DEF IdsDistinct
  <1>2. CASE Named(k, i)
    <2>1. i < gid /\ \A l \in Keys : Named(l, i) => k = l
      BY <1>2 DEF IdsDistinct
    <2>2. QED
      BY <2>1
  <1>3. CASE ~Named(k, i)
    <2>1. gid' = gid + 1 /\ k = key /\ i = gid
      BY <1>1, <1>3
    <2>2. \A l \in Keys : ~Named(l, i)
      BY <2>1 DEF IdsDistinct
    <2>3. QED
      BY <1>1, <2>1, <2>2
  <1>4. QED
    BY <1>2, <1>3

\* A line of a header file.
LEMMA ParseLineInv ==
    ASSUME HeadersInv, ParseLine
    PROVE  HeadersInv'
  <1>1. PICK n \in Names : Stored(n, gid)
    BY DEF ParseLine
  <1>2. /\ gid' = gid + 1 /\ lines' = lines + 1 /\ ~loaded /\ lines < MaxLines
        /\ UNCHANGED <<loaded, pc, name, mine, held, fault>>
    BY DEF ParseLine
  <1>3. Normal[n] \in Keys /\ gid \in Nat \ {0}
    BY DEF HeadersInv, CallsAreAbout, TypeOK, Keys
  <1>4. /\ header' = [header EXCEPT ![Normal[n]] = gid]
        /\ live' = (live \cup {gid}) \ {header[Normal[n]]}
    BY <1>1 DEF Stored
  <1>5. TypeOK'
    <2>1. loaded' \in BOOLEAN /\ fault' \in BOOLEAN
      BY <1>2 DEF HeadersInv, TypeOK
    <2>2. lines' \in 0..MaxLines /\ gid' \in Nat
      BY <1>2, HeadersAssumption DEF HeadersInv, TypeOK
    <2>3. header' \in [Keys -> Nat] /\ live' \subseteq Nat \ {0}
      BY <1>3, <1>4 DEF HeadersInv, TypeOK
    <2>4. QED
      BY <1>2, <2>1, <2>2, <2>3 DEF HeadersInv, TypeOK
  <1>6. CallsAreAbout'
    BY <1>2, <1>3 DEF HeadersInv, CallsAreAbout
  <1>7. \A k \in Keys : \A i \in Nat \ {0} : Named(k, i)' => Named(k, i) \/ (k = Normal[n] /\ i = gid)
    BY <1>2, <1>3, <1>4 DEF HeadersInv, TypeOK, Named
  <1>8. IdsDistinct'
    <2>1. gid \in Nat /\ gid' \in Nat /\ gid' = gid + 1 /\ IdsDistinct
      BY <1>2, <1>3 DEF HeadersInv
    <2>2. QED
      BY <1>7, <2>1, IdsStayDistinct
  <1>9. QED
    BY <1>5, <1>6, <1>8 DEF HeadersInv

\* The end of load, and unload.
LEMMA LoadUnloadInv ==
    ASSUME HeadersInv, Loaded \/ Unload
    PROVE  HeadersInv'
  <1>1. TypeOK'
    <2>1. loaded' \in BOOLEAN /\ fault' \in BOOLEAN
      BY DEF HeadersInv, TypeOK, Loaded, Unload
    <2>2. header' \in [Keys -> Nat] /\ live' \subseteq Nat \ {0} /\ held' \subseteq Keys \X (Nat \ {0})
      <3>1. CASE Loaded
        BY <3>1 DEF HeadersInv, TypeOK, Loaded
      <3>2. CASE Unload
        BY <3>2 DEF HeadersInv, TypeOK, Unload
      <3>3. QED
        BY <3>1, <3>2
    <2>3. UNCHANGED <<lines, gid, pc, name, mine>>
      BY DEF Loaded, Unload
    <2>4. QED
      BY <2>1, <2>2, <2>3 DEF HeadersInv, TypeOK
  <1>2. CallsAreAbout'
    BY DEF HeadersInv, CallsAreAbout, Loaded, Unload
  <1>3. \A k \in Keys : \A i \in Nat \ {0} : Named(k, i)' => Named(k, i)
    <2>1. CASE Loaded
      BY <2>1 DEF Loaded, Named
    <2>2. CASE Unload
      BY <2>2 DEF Unload, Named
    <2>3. QED
      BY <2>1, <2>2
  <1>4. gid' = gid /\ gid \in Nat
    BY DEF HeadersInv, TypeOK, Loaded, Unload
  <1>5. IdsDistinct'
    BY <1>3, <1>4, IdsStayDistinct DEF HeadersInv
  <1>6. QED
    BY <1>1, <1>2, <1>5 DEF HeadersInv

\* The two searches, and the return.
LEMMA LooksInv ==
    ASSUME HeadersInv, NEW t \in Threads, EnsureLooks(t) \/ EnsureLooksAgain(t) \/ EnsureReturns(t)
    PROVE  HeadersInv'
  <1>1. TypeOK /\ CallsAreAbout /\ IdsDistinct
    BY DEF HeadersInv
  <1>2. \A n \in Names : Normal[n] \in Keys /\ header[Normal[n]] \in Nat
    BY <1>1 DEF TypeOK, Keys
  <1>3. CASE EnsureLooks(t)
    <2>1. PICK n \in Names :
              /\ name' = [name EXCEPT ![t] = n]
              /\ mine' = [mine EXCEPT ![t] = header[Normal[n]]]
              /\ pc' = [pc EXCEPT ![t] = IF header[Normal[n]] # 0 THEN "found" ELSE "id"]
      BY <1>3 DEF EnsureLooks
    <2>2. loaded /\ UNCHANGED <<loaded, lines, gid, header, live, held, fault>>
      BY <1>3 DEF EnsureLooks
    <2>3. TypeOK'
      BY <1>1, <1>2, <2>1, <2>2 DEF TypeOK
    <2>4. CallsAreAbout'
      BY <1>1, <2>1, <2>2 DEF CallsAreAbout, TypeOK
    <2>5. \A k \in Keys : \A i \in Nat \ {0} : Named(k, i)' => Named(k, i)
      BY <1>1, <2>1, <2>2 DEF Named, TypeOK
    <2>6. IdsDistinct'
      BY <1>1, <2>2, <2>5, IdsStayDistinct DEF TypeOK
    <2>7. QED
      BY <2>3, <2>4, <2>6 DEF HeadersInv
  <1>4. CASE EnsureLooksAgain(t)
    <2>1. /\ pc[t] = "got" /\ mine' = [mine EXCEPT ![t] = header[Normal[name[t]]]]
          /\ pc' = [pc EXCEPT ![t] = "found"]
          /\ UNCHANGED <<loaded, lines, gid, header, live, name, held, fault>>
      BY <1>4 DEF EnsureLooksAgain
    <2>2. name[t] \in Names /\ header[Normal[name[t]]] # 0
      BY <1>1, <2>1 DEF CallsAreAbout
    <2>3. TypeOK'
      BY <1>1, <1>2, <2>1, <2>2 DEF TypeOK
    <2>4. CallsAreAbout'
      BY <1>1, <2>1, <2>2 DEF CallsAreAbout, TypeOK
    <2>5. \A k \in Keys : \A i \in Nat \ {0} : Named(k, i)' => Named(k, i)
      BY <1>1, <2>1 DEF Named, TypeOK
    <2>6. IdsDistinct'
      BY <1>1, <2>1, <2>5, IdsStayDistinct DEF TypeOK
    <2>7. QED
      BY <2>3, <2>4, <2>6 DEF HeadersInv
  <1>5. CASE EnsureReturns(t)
    <2>1. /\ pc[t] = "found" /\ held' = held \cup {<<Normal[name[t]], mine[t]>>}
          /\ pc' = [pc EXCEPT ![t] = "idle"]
          /\ name' = [name EXCEPT ![t] = NoName] /\ mine' = [mine EXCEPT ![t] = 0]
          /\ UNCHANGED <<loaded, lines, gid, header, live>>
      BY <1>5 DEF EnsureReturns
    <2>2. fault' \in BOOLEAN
      BY <1>1, <1>5 DEF EnsureReturns, TypeOK
    <2>3. name[t] \in Names /\ mine[t] \in Nat \ {0} /\ loaded
      BY <1>1, <2>1 DEF CallsAreAbout, TypeOK
    <2>4. TypeOK'
      BY <1>1, <1>2, <2>1, <2>2, <2>3 DEF TypeOK
    <2>5. CallsAreAbout'
      BY <1>1, <2>1, <2>3 DEF CallsAreAbout, TypeOK
    <2>6. \A k \in Keys : \A i \in Nat \ {0} : Named(k, i)' => Named(k, i)
      BY <1>1, <2>1 DEF Named, TypeOK
    <2>7. IdsDistinct'
      BY <1>1, <2>1, <2>6, IdsStayDistinct DEF TypeOK
    <2>8. QED
      BY <2>4, <2>5, <2>7 DEF HeadersInv
  <1>6. QED
    BY <1>3, <1>4, <1>5

\* create_header: the id, then the set.
LEMMA CreateInv ==
    ASSUME HeadersInv, NEW t \in Threads, CreateTakesId(t) \/ CreateStores(t)
    PROVE  HeadersInv'
  <1>1. TypeOK /\ CallsAreAbout /\ IdsDistinct
    BY DEF HeadersInv
  <1>2. CASE CreateTakesId(t)
    <2>1. /\ pc[t] = "id" /\ mine' = [mine EXCEPT ![t] = gid] /\ gid' = gid + 1
          /\ pc' = [pc EXCEPT ![t] = "set"]
          /\ UNCHANGED <<loaded, lines, header, live, name, held, fault>>
      BY <1>2 DEF CreateTakesId
    <2>2. gid \in Nat \ {0}
      BY <1>1 DEF TypeOK, CallsAreAbout
    <2>3. TypeOK'
      BY <1>1, <2>1 DEF TypeOK
    <2>4. CallsAreAbout'
      BY <1>1, <2>1, <2>2 DEF CallsAreAbout, TypeOK
    <2>5. \A k \in Keys : \A i \in Nat \ {0} :
              Named(k, i)' => Named(k, i) \/ (k = Normal[name[t]] /\ i = gid)
      BY <1>1, <2>1 DEF Named, TypeOK
    <2>6. IdsDistinct'
      BY <1>1, <2>1, <2>3, <2>5, IdsStayDistinct DEF TypeOK
    <2>7. QED
      BY <2>3, <2>4, <2>6 DEF HeadersInv
  <1>3. CASE CreateStores(t)
    <2>1. /\ pc[t] = "set" /\ pc' = [pc EXCEPT ![t] = "got"]
          /\ header' = [header EXCEPT ![Normal[name[t]]] = mine[t]]
          /\ live' = (live \cup {mine[t]}) \ {header[Normal[name[t]]]}
          /\ UNCHANGED <<loaded, lines, gid, name, mine, held, fault>>
      BY <1>3 DEF CreateStores, Stored
    <2>2. name[t] \in Names /\ mine[t] \in Nat \ {0} /\ Normal[name[t]] \in Keys
      BY <1>1, <2>1 DEF CallsAreAbout, TypeOK, Keys
    <2>3. TypeOK'
      BY <1>1, <2>1, <2>2 DEF TypeOK
    <2>4. CallsAreAbout'
      BY <1>1, <2>1, <2>2 DEF CallsAreAbout, TypeOK
    <2>5. \A k \in Keys : \A i \in Nat \ {0} : Named(k, i)' => Named(k, i)
      BY <1>1, <2>1, <2>2 DEF Named, TypeOK
    <2>6. IdsDistinct'
      BY <1>1, <2>1, <2>5, IdsStayDistinct DEF TypeOK
    <2>7. QED
      BY <2>3, <2>4, <2>6 DEF HeadersInv
  <1>4. QED
    BY <1>2, <1>3

\* Every step of every thread keeps the invariant.
LEMMA HeadersStep == HeadersInv /\ [Next]_vars => HeadersInv'
  <1>1. SUFFICES ASSUME HeadersInv, [Next]_vars PROVE HeadersInv'
    OBVIOUS
  <1>2. CASE UNCHANGED vars
    BY <1>1, <1>2 DEF vars, HeadersInv, TypeOK, CallsAreAbout, IdsDistinct, Named
  <1>3. QED
    BY <1>1, <1>2, ParseLineInv, LoadUnloadInv, LooksInv, CreateInv DEF Next

\* However many threads ensure headers at once: an id that was returned for a name
\* was never returned for another, so headers that compare equal
\* (cflare_headers_equals) have the same name.
IdsMeanNames == \A p, q \in held : p[2] = q[2] => p[1] = q[1]

\* The variables of the registry keep their types, and equal ids mean equal names.
THEOREM HeaderIdsMeanNames == Spec => [](TypeOK /\ IdsMeanNames)
  <1>1. HeadersInv => TypeOK /\ IdsMeanNames
    <2>1. SUFFICES ASSUME HeadersInv, NEW p \in held, NEW q \in held, p[2] = q[2] PROVE p[1] = q[1]
      BY DEF HeadersInv, IdsMeanNames
    <2>2. p \in Keys \X (Nat \ {0}) /\ q \in Keys \X (Nat \ {0})
      BY <2>1 DEF HeadersInv, TypeOK
    <2>3. Named(p[1], p[2]) /\ Named(q[1], p[2])
      BY <2>1, <2>2 DEF Named
    <2>4. QED
      BY <2>1, <2>2, <2>3 DEF HeadersInv, IdsDistinct
  <1>2. QED
    BY <1>1, HeadersInitInv, HeadersStep, PTL DEF Spec

\* What holds as long as one thread at a time ensures headers: the callers' headers
\* are those of the table, which are allocated, and a header is made only for a
\* name that has none.
OneAtATime == \A s, t \in Threads : s = t

HeldIsCurrent ==
    /\ ~fault
    /\ \A p \in held : header[p[1]] = p[2]
    /\ \A k \in Keys : header[k] # 0 => header[k] \in live
    /\ \A t \in Threads :
          /\ pc[t] \in {"id", "set"} => header[Normal[name[t]]] = 0
          /\ pc[t] = "found" => header[Normal[name[t]]] = mine[t]

\* A new header for a name whose old one nobody has leaves the others allocated.
LEMMA StoredKeepsOthers ==
    ASSUME HeadersInv, HeldIsCurrent, NEW n \in Names, NEW i \in Nat \ {0}, Stored(n, i),
           i # header[Normal[n]]
    PROVE  /\ \A k \in Keys : header'[k] # 0 => header'[k] \in live'
           /\ \A k \in Keys : k # Normal[n] => header'[k] = header[k]
           /\ header'[Normal[n]] = i
  <1>1. Normal[n] \in Keys /\ header \in [Keys -> Nat]
    BY DEF Keys, HeadersInv, TypeOK
  <1>2. /\ header' = [header EXCEPT ![Normal[n]] = i]
        /\ live' = (live \cup {i}) \ {header[Normal[n]]}
    BY DEF Stored
  <1>3. ASSUME NEW k \in Keys, k # Normal[n], header[k] # 0 PROVE header[k] # header[Normal[n]]
    <2>1. Named(k, header[k]) /\ header[k] \in Nat \ {0}
      BY <1>1, <1>3 DEF Named
    <2>2. header[Normal[n]] = header[k] => Named(Normal[n], header[k])
      BY DEF Named
    <2>3. QED
      BY <1>1, <1>3, <2>1, <2>2 DEF HeadersInv, IdsDistinct
  <1>4. QED
    BY <1>1, <1>2, <1>3 DEF HeldIsCurrent

\* One thread's steps keep the callers' headers current.
LEMMA HeldStep ==
    ASSUME OneAtATime, HeadersInv, HeldIsCurrent, [Next]_vars
    PROVE  HeldIsCurrent'
  <1>1. TypeOK /\ CallsAreAbout
    BY DEF HeadersInv
  <1>2. \A n \in Names : Normal[n] \in Keys
    BY DEF Keys
  <1>3. CASE UNCHANGED vars
    BY <1>3 DEF vars, HeldIsCurrent
  <1>4. CASE ParseLine
    <2>1. PICK n \in Names : Stored(n, gid)
      BY <1>4 DEF ParseLine
    <2>2. ~loaded /\ UNCHANGED <<loaded, pc, name, mine, held, fault>>
      BY <1>4 DEF ParseLine
    <2>3. held = {} /\ gid \in Nat \ {0} /\ \A t \in Threads : pc[t] = "idle"
      BY <1>1, <2>2 DEF CallsAreAbout, TypeOK
    <2>4. gid # header[Normal[n]]
      <3>1. Named(Normal[n], header[Normal[n]]) /\ header[Normal[n]] \in Nat
        BY <1>1, <1>2 DEF Named, TypeOK
      <3>2. QED
        BY <1>2, <2>3, <3>1 DEF HeadersInv, IdsDistinct
    <2>5. \A k \in Keys : header'[k] # 0 => header'[k] \in live'
      BY <2>1, <2>3, <2>4, StoredKeepsOthers
    <2>6. QED
      BY <2>2, <2>3, <2>5 DEF HeldIsCurrent
  <1>5. CASE Loaded
    <2>1. /\ held' = {p \in Keys \X live : header[p[1]] = p[2]}
          /\ UNCHANGED <<header, live, pc, name, mine, fault>>
      BY <1>5 DEF Loaded
    <2>2. QED
      BY <2>1 DEF HeldIsCurrent
  <1>6. CASE Unload
    <2>1. /\ held' = {} /\ header' = [k \in Keys |-> 0] /\ \A t \in Threads : pc[t] = "idle"
          /\ UNCHANGED <<pc, name, mine, fault>>
      BY <1>6 DEF Unload
    <2>2. QED
      BY <2>1 DEF HeldIsCurrent
  <1>7. ASSUME NEW t \in Threads, EnsureLooks(t) PROVE HeldIsCurrent'
    <2>1. PICK n \in Names :
              /\ name' = [name EXCEPT ![t] = n]
              /\ mine' = [mine EXCEPT ![t] = header[Normal[n]]]
              /\ pc' = [pc EXCEPT ![t] = IF header[Normal[n]] # 0 THEN "found" ELSE "id"]
      BY <1>7 DEF EnsureLooks
    <2>2. UNCHANGED <<header, live, held, fault>>
      BY <1>7 DEF EnsureLooks
    <2>3. QED
      BY <1>1, <2>1, <2>2 DEF HeldIsCurrent, TypeOK
  <1>8. ASSUME NEW t \in Threads, EnsureReturns(t) PROVE HeldIsCurrent'
    <2>1. /\ pc[t] = "found" /\ held' = held \cup {<<Normal[name[t]], mine[t]>>}
          /\ pc' = [pc EXCEPT ![t] = "idle"] /\ fault' = (fault \/ mine[t] \notin live)
          /\ UNCHANGED <<header, live>>
      BY <1>8 DEF EnsureReturns
    <2>2. /\ header[Normal[name[t]]] = mine[t] /\ mine[t] # 0 /\ name[t] \in Names
          /\ mine[t] \in live /\ ~fault
      BY <1>1, <1>2, <2>1 DEF HeldIsCurrent, CallsAreAbout
    <2>3. \A u \in Threads : pc'[u] = "idle"
      BY <1>1, <2>1 DEF OneAtATime, TypeOK
    <2>4. ~fault'
      BY <2>1, <2>2
    <2>5. QED
      BY <2>1, <2>2, <2>3, <2>4 DEF HeldIsCurrent
  <1>9. ASSUME NEW t \in Threads, CreateTakesId(t) PROVE HeldIsCurrent'
    <2>1. /\ pc[t] = "id" /\ pc' = [pc EXCEPT ![t] = "set"] /\ mine' = [mine EXCEPT ![t] = gid]
          /\ UNCHANGED <<header, live, name, held, fault>>
      BY <1>9 DEF CreateTakesId
    <2>2. QED
      BY <1>1, <2>1 DEF HeldIsCurrent, TypeOK
  <1>10. ASSUME NEW t \in Threads, CreateStores(t) PROVE HeldIsCurrent'
    <2>1. /\ pc[t] = "set" /\ pc' = [pc EXCEPT ![t] = "got"] /\ Stored(name[t], mine[t])
          /\ UNCHANGED <<name, mine, held, fault>>
      BY <1>10 DEF CreateStores
    <2>2. name[t] \in Names /\ mine[t] \in Nat \ {0} /\ header[Normal[name[t]]] = 0
      BY <1>1, <2>1 DEF CallsAreAbout, TypeOK, HeldIsCurrent
    <2>3. /\ \A k \in Keys : header'[k] # 0 => header'[k] \in live'
          /\ \A k \in Keys : k # Normal[name[t]] => header'[k] = header[k]
      BY <2>1, <2>2, StoredKeepsOthers
    <2>4. ASSUME NEW p \in held PROVE header'[p[1]] = p[2]
      <3>1. p[1] \in Keys /\ p[2] # 0 /\ header[p[1]] = p[2]
        BY <1>1, <2>4 DEF TypeOK, HeldIsCurrent
      <3>2. QED
        BY <2>2, <2>3, <3>1
    <2>5. \A u \in Threads : pc'[u] = "got"
      BY <1>1, <2>1 DEF OneAtATime, TypeOK
    <2>6. QED
      BY <2>1, <2>3, <2>4, <2>5 DEF HeldIsCurrent
  <1>11. ASSUME NEW t \in Threads, EnsureLooksAgain(t) PROVE HeldIsCurrent'
    <2>1. /\ pc' = [pc EXCEPT ![t] = "found"] /\ mine' = [mine EXCEPT ![t] = header[Normal[name[t]]]]
          /\ UNCHANGED <<header, live, name, held, fault>>
      BY <1>11 DEF EnsureLooksAgain
    <2>2. QED
      BY <1>1, <2>1 DEF HeldIsCurrent, TypeOK
  <1>12. QED
    BY <1>3, <1>4, <1>5, <1>6, <1>7, <1>8, <1>9, <1>10, <1>11 DEF Next

\* Callers' headers that are current are unique and allocated.
LEMMA CurrentIsUnique ==
    ASSUME HeadersInv, HeldIsCurrent
    PROVE  OneHeaderPerName /\ HeldStaysValid
  <1>1. ASSUME NEW p \in held
        PROVE  p[1] \in Keys /\ p[2] \in Nat \ {0} /\ header[p[1]] = p[2] /\ Named(p[1], p[2])
    BY DEF HeadersInv, TypeOK, HeldIsCurrent, Named
  <1>2. OneHeaderPerName
    BY <1>1 DEF OneHeaderPerName, HeadersInv, IdsDistinct
  <1>3. HeldStaysValid
    BY <1>1 DEF HeldStaysValid, HeldIsCurrent
  <1>4. QED
    BY <1>2, <1>3

\* As long as headers are ensured by one thread, as the server does: all calls for a
\* name, however spelled, return one header, and no other name's
\* (cflare_headers_ensure).
THEOREM HeadersStayUnique ==
    ASSUME OneAtATime
    PROVE  Spec => []OneHeaderPerName
  <1>1. Init => HeldIsCurrent
    BY DEF Init, HeldIsCurrent
  <1>2. HeadersInv /\ HeldIsCurrent /\ [Next]_vars => HeldIsCurrent'
    BY HeldStep
  <1>3. HeadersInv /\ HeldIsCurrent => OneHeaderPerName
    BY CurrentIsUnique
  <1>4. QED
    BY <1>1, <1>2, <1>3, HeadersInitInv, HeadersStep, PTL DEF Spec

\* Under the same condition a header that was returned is never freed, and none is
\* read after it was.
THEOREM HeldHeadersStayValid ==
    ASSUME OneAtATime
    PROVE  Spec => []HeldStaysValid
  <1>1. Init => HeldIsCurrent
    BY DEF Init, HeldIsCurrent
  <1>2. HeadersInv /\ HeldIsCurrent /\ [Next]_vars => HeldIsCurrent'
    BY HeldStep
  <1>3. HeadersInv /\ HeldIsCurrent => HeldStaysValid
    BY CurrentIsUnique
  <1>4. QED
    BY <1>1, <1>2, <1>3, HeadersInitInv, HeadersStep, PTL DEF Spec
=============================================================================

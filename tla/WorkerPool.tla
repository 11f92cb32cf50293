----------------------------- MODULE WorkerPool -----------------------------
(***************************************************************************)
(* The accept loop and the worker coroutines of the server (main.c), the   *)
(* condition variables they talk through (coroutine.c), and the            *)
(* cooperative scheduler of lthread, the external library underneath.      *)
(*                                                                         *)
(* One OS thread runs everything.  A coroutine runs until it blocks, so    *)
(* the code between two blocking calls is one step.  One round of the      *)
(* scheduler resumes the sleepers whose deadline has passed, then the      *)
(* coroutines that were ready when that pass began, in FIFO order, then    *)
(* the ones whose descriptor has an event.                                 *)
(*                                                                         *)
(* Bounds: Socket is the set of connections that arrive, Worker the set of *)
(* worker coroutines that may be created (one per connection is enough,    *)
(* the accept loop creates at most one for each).                          *)
(***************************************************************************)
EXTENDS Integers, Sequences, SequencesExt, FiniteSets

CONSTANTS Socket,     \* the connections that will arrive
          Worker,     \* names for worker coroutines
          Listener,   \* the coroutine running main_listen_thread
          NoSocket,   \* the null cflare_socket*
          Nobody      \* no coroutine is running

ASSUME PoolAssumption ==
    /\ Listener \notin Worker
    /\ NoSocket \notin Socket
    /\ Nobody \notin Worker \cup {Listener}
    /\ IsFiniteSet(Socket) /\ IsFiniteSet(Worker)
    /\ Cardinality(Worker) >= Cardinality(Socket)

Coro == Worker \cup {Listener}

VARIABLES
    phase,     \* part of the scheduler's round: "expire", "ready" or "poll"
    left,      \* coroutines still to resume in this ready pass
    fresh,     \* coroutines that blocked since this expiry or poll pass began
    ready,     \* FIFO of ready coroutines
    running,   \* the coroutine that has the thread
    pc,        \* where each coroutine is
    wait,      \* what a coroutine is blocked on
    why,       \* the value its last wait returned: 0 or -2 (timeout)
    readq,     \* coroutines blocked on read_cond, FIFO
    young,     \* workers whose wait on read_cond began after the listener's current wait
    msgSocket, \* msg.socket
    sock,      \* the local "sock" of each worker
    workers,   \* the counter "workers"
    conn,      \* what became of each connection
    freed,     \* the conditions and msg are gone
    signal     \* SIGINT: "none", "handler" (on_signal is running) or "exited"

sched == <<phase, left, fresh>>
vars  == <<sched, ready, running, pc, wait, why, readq, young, msgSocket,
           sock, workers, conn, freed, signal>>

Init ==
    /\ phase = "ready" /\ left = 0 /\ fresh = {} /\ ready = <<>>
    /\ running = Listener
    /\ pc = [c \in Coro |-> IF c = Listener THEN "accept" ELSE "none"]
    /\ wait = [c \in Coro |-> "none"]
    /\ why = [c \in Coro |-> 0]
    /\ readq = <<>> /\ young = {}
    /\ msgSocket = NoSocket
    /\ sock = [w \in Worker |-> NoSocket]
    /\ workers = 0
    /\ conn = [s \in Socket |-> "backlog"]
    /\ freed = FALSE
    /\ signal = "none"

-----------------------------------------------------------------------------
(* Conditions: lthread_cond_signal moves the first waiter to the tail of   *)
(* the ready queue and disarms its timer.                                  *)

ListenerOnWriteCond == wait[Listener] = "write_cond"

\* The running coroutine c blocks on "what"; a deadline armed during the
\* expiry pass, or an event registered during the poll pass, is not looked at
\* before the next one.
Block(c, what, waits) ==
    /\ running' = Nobody
    /\ wait' = [waits EXCEPT ![c] = what]
    /\ fresh' = IF phase = "ready" THEN fresh ELSE fresh \cup {c}
    /\ UNCHANGED <<phase, left>>

\* wait and ready after cflare_coroutinecondition_signal(msg->read_cond)
SignalledWaits == IF readq = <<>> THEN wait
                  ELSE [wait EXCEPT ![Head(readq)] = "none"]
SignalledReady == IF readq = <<>> THEN ready ELSE Append(ready, Head(readq))
SignalledQueue == IF readq = <<>> THEN readq ELSE Tail(readq)
SignalledWhy   == IF readq = <<>> THEN why
                  ELSE [why EXCEPT ![Head(readq)] = 0]

-----------------------------------------------------------------------------
(* The accept loop, main_listen_thread.                                    *)

\* Connections, and workers not yet created, are interchangeable: the next one
\* is any, always the same.
Arrives(s) == conn[s] = "backlog" /\ s = CHOOSE x \in Socket : conn[x] = "backlog"
Created(w) == pc[w] = "none" /\ w = CHOOSE x \in Worker : pc[x] = "none"

\* A slip: all idle workers are woken for one socket.
AcceptBroadcasts(s) ==
    /\ running = Listener /\ pc[Listener] = "accept"
    /\ Arrives(s)
    /\ conn' = [conn EXCEPT ![s] = "accepted"]
    /\ msgSocket' = s
    /\ ready' = ready \o readq /\ readq' = <<>>
    /\ why' = [c \in Coro |-> IF wait[c] = "read_cond" THEN 0 ELSE why[c]]
    /\ pc' = [pc EXCEPT ![Listener] = "offer"]
    /\ Block(Listener, "write_cond",
             [c \in Coro |-> IF wait[c] = "read_cond" THEN "none" ELSE wait[c]])
    /\ young' = {}
    /\ UNCHANGED <<sock, workers, freed>>

\* msg.socket = accept(); signal(read_cond); wait(write_cond, 1 ms)
AcceptReturns(s) ==
    /\ running = Listener /\ pc[Listener] = "accept"
    /\ Arrives(s)
    /\ conn' = [conn EXCEPT ![s] = "accepted"]
    /\ msgSocket' = s
    /\ ready' = SignalledReady /\ readq' = SignalledQueue /\ why' = SignalledWhy
    /\ pc' = [pc EXCEPT ![Listener] = "offer"]
    /\ Block(Listener, "write_cond", SignalledWaits)
    /\ young' = {}
    /\ UNCHANGED <<sock, workers, freed>>

\* Nothing to accept: the coroutine sleeps until the descriptor is readable.
AcceptBlocks ==
    /\ running = Listener /\ pc[Listener] = "accept"
    /\ Block(Listener, "io", wait)
    /\ UNCHANGED <<ready, pc, why, readq, young, msgSocket, sock, workers, conn, freed>>

\* lthread makes a coroutine that keeps getting results give way now and then.
AcceptYields ==
    /\ running = Listener /\ pc[Listener] = "accept"
    /\ running' = Nobody /\ ready' = Append(ready, Listener)
    /\ UNCHANGED <<sched, pc, wait, why, readq, young, msgSocket, sock, workers, conn, freed>>

\* accept() or getnameinfo() failed: the loop ends, every idle worker is woken
\* with a null socket, and the coroutine goes on to wait for the workers.
AcceptFails ==
    /\ running = Listener /\ pc[Listener] = "accept"
    /\ msgSocket' = NoSocket
    /\ ready' = ready \o readq /\ readq' = <<>>
    /\ wait' = [c \in Coro |-> IF wait[c] = "read_cond" THEN "none" ELSE wait[c]]
    /\ why' = [c \in Coro |-> IF wait[c] = "read_cond" THEN 0 ELSE why[c]]
    /\ pc' = [pc EXCEPT ![Listener] = "drain"]
    /\ UNCHANGED <<sched, running, young, sock, workers, conn, freed>>

\* A slip: back to accept without creating a worker.
OfferGivesUp ==
    /\ running = Listener /\ pc[Listener] = "offer"
    /\ msgSocket' = NoSocket
    /\ pc' = [pc EXCEPT ![Listener] = "accept"]
    /\ UNCHANGED <<sched, ready, running, wait, why, readq, young, sock, workers, conn, freed>>

\* The first wait for write_cond came back: 0, a worker has the socket;
\* -2, nobody took it, so create a worker and wait again.
ListenerOffered ==
    /\ running = Listener /\ pc[Listener] = "offer"
    /\ \/ /\ why[Listener] # -2
          /\ msgSocket' = NoSocket
          /\ pc' = [pc EXCEPT ![Listener] = "accept"]
          /\ UNCHANGED <<sched, ready, running, wait, young>>
       \/ /\ why[Listener] = -2
          /\ \E b \in Worker :
                /\ Created(b)
                /\ pc' = [pc EXCEPT ![Listener] = "spawn", ![b] = "new"]
                /\ ready' = Append(ready, b)
          /\ Block(Listener, "write_cond", wait)
          /\ young' = {}
          /\ UNCHANGED msgSocket
    /\ UNCHANGED <<why, readq, sock, workers, conn, freed>>

\* A slip: the loop waits without signalling the workers.
SpawnedOnlyWaits ==
    /\ running = Listener /\ pc[Listener] = "spawn"
    /\ \/ why[Listener] # -2 /\ pc' = [pc EXCEPT ![Listener] = "accept"]
          /\ UNCHANGED <<sched, running, wait, young>>
       \/ why[Listener] = -2 /\ Block(Listener, "write_cond", wait) /\ young' = {}
          /\ UNCHANGED pc
    /\ UNCHANGED <<ready, why, readq, msgSocket, sock, workers, conn, freed>>

\* while(wait(write_cond, 0) == -2) signal(read_cond);
ListenerSpawned ==
    /\ running = Listener /\ pc[Listener] = "spawn"
    /\ \/ /\ why[Listener] # -2
          /\ pc' = [pc EXCEPT ![Listener] = "accept"]
          /\ UNCHANGED <<sched, ready, running, wait, why, readq, young>>
       \/ /\ why[Listener] = -2
          /\ ready' = SignalledReady /\ readq' = SignalledQueue /\ why' = SignalledWhy
          /\ Block(Listener, "write_cond", SignalledWaits)
          /\ young' = {}
          /\ UNCHANGED pc
    /\ UNCHANGED <<msgSocket, sock, workers, conn, freed>>

\* A slip: the conditions are freed without waiting for the workers.
FreesAtOnce ==
    /\ running = Listener /\ pc[Listener] = "drain"
    /\ freed' = TRUE
    /\ pc' = [pc EXCEPT ![Listener] = "done"]
    /\ running' = Nobody
    /\ UNCHANGED <<sched, ready, wait, why, readq, young, msgSocket, sock, workers, conn>>

\* while(workers > 0) sleep(10 ms); then the conditions are freed.
ListenerDrains ==
    /\ running = Listener /\ pc[Listener] = "drain"
    /\ \/ /\ workers > 0
          /\ Block(Listener, "sleep", wait)
          /\ UNCHANGED <<pc, freed>>
       \/ /\ workers <= 0
          /\ freed' = TRUE
          /\ pc' = [pc EXCEPT ![Listener] = "done"]
          /\ running' = Nobody
          /\ UNCHANGED <<sched, wait>>
    /\ UNCHANGED <<ready, why, readq, young, msgSocket, sock, workers, conn>>

-----------------------------------------------------------------------------
(* A worker coroutine, worker_thread.                                      *)

\* Wait for read_cond, 10 s at most.
AwaitSocket(w) ==
    /\ readq' = Append(readq, w)
    /\ young' = young \cup {w}
    /\ pc' = [pc EXCEPT ![w] = "loop"]
    /\ Block(w, "read_cond", wait)

WorkerStarts(w) ==
    /\ running = w /\ pc[w] = "new"
    /\ workers' = workers + 1
    /\ AwaitSocket(w)
    /\ UNCHANGED <<ready, why, msgSocket, sock, conn, freed>>

\* A slip: a worker that leaves stays in the count.
LeavesCounted(w) ==
    /\ pc' = [pc EXCEPT ![w] = "gone"]
    /\ running' = Nobody
    /\ UNCHANGED workers

\* break: out of the loop, workers--, the coroutine is over.
WorkerLeaves(w) ==
    /\ workers' = workers - 1
    /\ pc' = [pc EXCEPT ![w] = "gone"]
    /\ running' = Nobody

\* Ten seconds without a connection.
WorkerIdles(w) ==
    /\ running = w /\ pc[w] = "loop" /\ why[w] # 0
    /\ WorkerLeaves(w)
    /\ UNCHANGED <<sched, ready, wait, why, readq, young, msgSocket, sock, conn, freed>>

\* sock = msg->socket; signal(write_cond); a null socket ends the worker,
\* any other is probed with wait_write(sock, 0).
WorkerTakes(w) ==
    /\ running = w /\ pc[w] = "loop" /\ why[w] = 0
    /\ LET woken == IF ListenerOnWriteCond THEN [wait EXCEPT ![Listener] = "none"] ELSE wait
       IN  /\ ready' = IF ListenerOnWriteCond THEN Append(ready, Listener) ELSE ready
           /\ why' = IF ListenerOnWriteCond THEN [why EXCEPT ![Listener] = 0] ELSE why
           /\ sock' = [sock EXCEPT ![w] = msgSocket]
           /\ \/ /\ msgSocket = NoSocket
                 /\ WorkerLeaves(w)
                 /\ wait' = woken
                 /\ UNCHANGED sched
              \/ /\ msgSocket # NoSocket
                 /\ pc' = [pc EXCEPT ![w] = "probe"]
                 /\ Block(w, "io", woken)
                 /\ UNCHANGED workers
    /\ UNCHANGED <<readq, young, msgSocket, conn, freed>>

\* wait_write answered.  -1 (the peer is gone): break without closing the socket.
WorkerProbes(w) ==
    /\ running = w /\ pc[w] = "probe"
    /\ \/ /\ pc' = [pc EXCEPT ![w] = "serve"]
          /\ UNCHANGED <<running, sock, workers, conn>>
       \/ /\ why[w] = 0
          /\ conn' = [conn EXCEPT ![sock[w]] = "leaked"]
          /\ sock' = [sock EXCEPT ![w] = NoSocket]
          /\ WorkerLeaves(w)
    /\ UNCHANGED <<sched, ready, wait, why, readq, young, msgSocket, freed>>

\* Inside cflare_request_process_socket: the socket is not ready yet.
WorkerServes(w) ==
    /\ running = w /\ pc[w] = "serve"
    /\ Block(w, "io", wait)
    /\ UNCHANGED <<ready, pc, why, readq, young, msgSocket, sock, workers, conn, freed>>

\* process_socket returned false: close, delete, wait for another connection.
WorkerFinishes(w) ==
    /\ running = w /\ pc[w] = "serve"
    /\ conn' = [conn EXCEPT ![sock[w]] = "closed"]
    /\ sock' = [sock EXCEPT ![w] = NoSocket]
    /\ AwaitSocket(w)
    /\ UNCHANGED <<ready, why, msgSocket, workers, freed>>

-----------------------------------------------------------------------------
(* The scheduler (lthread_run) and SIGINT.                                 *)

\* lthread_run goes on as long as a coroutine is left.
Idle == /\ running = Nobody /\ signal = "none"
        /\ \E c \in Coro : pc[c] \notin {"none", "gone", "done"}

Resume(c, result) ==
    /\ running' = c
    /\ why' = [why EXCEPT ![c] = result]
    /\ wait' = [wait EXCEPT ![c] = "none"]

\* A deadline has passed.  Deadlines are taken in order: a worker that began
\* its 10 s wait after the listener began its 1 ms wait does not expire first.
Expire(c) ==
    /\ Idle /\ phase = "expire" /\ c \notin fresh
    /\ wait[c] # "none"
    /\ ~(c = Listener /\ wait[c] = "io")       \* accept has no timeout
    /\ ~(wait[c] = "read_cond" /\ c \in young /\ ListenerOnWriteCond)
    /\ Resume(c, -2)
    /\ readq' = RemoveFirst(readq, c)
    /\ UNCHANGED <<sched, ready, pc, young, msgSocket, sock, workers, conn, freed>>

RunReady ==
    /\ Idle /\ phase = "ready" /\ left > 0
    /\ running' = Head(ready) /\ ready' = Tail(ready) /\ left' = left - 1
    /\ UNCHANGED <<phase, fresh, pc, wait, why, readq, young, msgSocket, sock, workers, conn, freed>>

Poll(c) ==
    /\ Idle /\ phase = "poll" /\ c \notin fresh /\ wait[c] = "io"
    /\ Resume(c, 0)
    /\ UNCHANGED <<sched, ready, pc, readq, young, msgSocket, sock, workers, conn, freed>>

NextPhase ==
    /\ Idle
    /\ \/ phase = "expire" /\ phase' = "ready" /\ left' = Len(ready) /\ UNCHANGED fresh
       \/ phase = "ready" /\ left = 0 /\ phase' = "poll" /\ fresh' = {} /\ UNCHANGED left
       \/ phase = "poll" /\ phase' = "expire" /\ fresh' = {} /\ UNCHANGED left
    /\ UNCHANGED <<ready, running, pc, wait, why, readq, young, msgSocket, sock, workers, conn, freed>>

\* on_signal runs on the thread the coroutines share, closes the listener...
SigInt ==
    /\ signal = "none" /\ pc[Listener] # "done"
    /\ signal' = "handler"
    /\ UNCHANGED <<sched, ready, running, pc, wait, why, readq, young, msgSocket,
                   sock, workers, conn, freed>>

\* ... sleeps for a second, on that thread, and exits: the transactions the
\* comment in the code gives a chance to complete get no step any more.
HandlerExits ==
    /\ signal = "handler" /\ signal' = "exited"
    /\ UNCHANGED <<sched, ready, running, pc, wait, why, readq, young, msgSocket,
                   sock, workers, conn, freed>>

-----------------------------------------------------------------------------
\* on_signal keeps the thread: nothing else runs once it has started.
ListenerStep ==
    /\ signal = "none"
    /\ \/ \E s \in Socket : AcceptReturns(s)
       \/ AcceptBlocks \/ AcceptYields \/ AcceptFails
       \/ ListenerOffered \/ ListenerSpawned \/ ListenerDrains
    /\ UNCHANGED signal

WorkerStep(w) ==
    /\ signal = "none"
    /\ \/ WorkerStarts(w) \/ WorkerIdles(w) \/ WorkerTakes(w)
       \/ WorkerProbes(w) \/ WorkerServes(w) \/ WorkerFinishes(w)
    /\ UNCHANGED signal

SchedStep ==
    /\ RunReady \/ NextPhase \/ \E c \in Coro : Expire(c) \/ Poll(c)
    /\ UNCHANGED signal

Next == ListenerStep \/ (\E w \in Worker : WorkerStep(w)) \/ SchedStep
        \/ SigInt \/ HandlerExits

Spec == Init /\ [][Next]_vars

(***************************************************************************)
(* Fairness.  The thread keeps running and the scheduler keeps going round *)
(* (WF); a deadline that has passed is noticed in some later round (SF);   *)
(* the peer or the socket timeout ends a transaction at some point (SF).   *)
(***************************************************************************)
Fairness ==
    /\ WF_vars(ListenerStep) /\ WF_vars(NextPhase /\ UNCHANGED signal)
    /\ WF_vars(RunReady /\ UNCHANGED signal)
    /\ \A c \in Coro : SF_vars(Expire(c) /\ UNCHANGED signal)
    /\ \A w \in Worker : /\ WF_vars(WorkerStep(w))
                         /\ SF_vars(WorkerFinishes(w) /\ WorkerStep(w))

FairSpec == Spec /\ Fairness

-----------------------------------------------------------------------------
\* Every variable has its type.
TypeOK ==
    /\ phase \in {"expire", "ready", "poll"} /\ left \in 0..Cardinality(Coro)
    /\ fresh \subseteq Coro /\ young \subseteq Worker
    /\ ready \in Seq(Coro) /\ readq \in Seq(Worker)
    /\ running \in Coro \cup {Nobody}
    /\ pc \in [Coro -> {"accept", "offer", "spawn", "drain", "done",
                        "none", "new", "loop", "probe", "serve", "gone"}]
    /\ wait \in [Coro -> {"none", "io", "read_cond", "write_cond", "sleep"}]
    /\ why \in [Coro -> {0, -2}]
    /\ msgSocket \in Socket \cup {NoSocket} /\ sock \in [Worker -> Socket \cup {NoSocket}]
    /\ workers \in 0..Cardinality(Worker)
    /\ conn \in [Socket -> {"backlog", "accepted", "closed", "leaked"}]
    /\ freed \in BOOLEAN /\ signal \in {"none", "handler", "exited"}

\* A connection has one owner and it is open: although msg.socket keeps its
\* value when a worker had to be created, no second worker takes the socket of
\* a first one, while it is served or after it was closed and freed.
OneOwner ==
    \A w \in Worker : sock[w] # NoSocket =>
        /\ conn[sock[w]] = "accepted"
        /\ \A v \in Worker \ {w} : sock[v] # sock[w]

\* No accepted connection is dropped between accept() and a worker: one that
\* nobody serves yet is still offered by the accept loop.
NoneDropped ==
    \A s \in Socket : conn[s] = "accepted" /\ (\A w \in Worker : sock[w] # s) =>
        msgSocket = s /\ pc[Listener] \in {"offer", "spawn"}

\* The conditions and msg, on the stack of main_listen_thread, outlive every
\* worker: a worker that was created but has not run yet is not in "workers".
ConditionsOutliveWorkers == freed => \A w \in Worker : pc[w] \in {"none", "gone"}

\* Every accepted connection is let go in the end (or SIGINT ends the process):
\* no hand-over to an idle, a leaving or a new worker gets stuck.
EveryConnectionEnds ==
    \A s \in Socket : conn[s] = "accepted" ~> (conn[s] \in {"closed", "leaked"} \/ signal # "none")

\* When accept fails the accept loop does get to free the conditions: the busy
\* workers the broadcast misses leave on their own.
ShutdownCompletes == pc[Listener] = "drain" ~> (freed \/ signal # "none")
=============================================================================

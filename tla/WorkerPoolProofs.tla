-------------------------- MODULE WorkerPoolProofs --------------------------
(***************************************************************************)
(* Proofs about the accept loop and its workers: for any number of         *)
(* connections and workers, the safety properties that MCWorkerPool checks *)
(* hold.                                                                   *)
(***************************************************************************)
EXTENDS WorkerPool, SequenceTheorems, FiniteSetTheorems, TLAPS

-----------------------------------------------------------------------------
(* The inductive invariant.                                                *)

InReady(c) == \E i \in 1..Len(ready) : ready[i] = c

\* The types, without the bounds on left and workers: those follow at the end.
Typed ==
    /\ phase \in {"expire", "ready", "poll"} /\ left \in Nat
    /\ fresh \subseteq Coro /\ young \subseteq Worker
    /\ ready \in Seq(Coro) /\ readq \in Seq(Worker)
    /\ running \in Coro \cup {Nobody}
    /\ pc \in [Coro -> {"accept", "offer", "spawn", "drain", "done",
                        "none", "new", "loop", "probe", "serve", "gone"}]
    /\ wait \in [Coro -> {"none", "io", "read_cond", "write_cond", "sleep"}]
    /\ why \in [Coro -> {0, -2}]
    /\ msgSocket \in Socket \cup {NoSocket} /\ sock \in [Worker -> Socket \cup {NoSocket}]
    /\ conn \in [Socket -> {"backlog", "accepted", "closed", "leaked"}]
    /\ freed \in BOOLEAN /\ signal \in {"none", "handler", "exited"}

\* A coroutine is in one place at a time: it runs, it is once in the ready queue,
\* or it is blocked; those in read_cond's queue are blocked on it, once.
Placed ==
    /\ \A i \in 1..Len(ready) : /\ wait[ready[i]] = "none" /\ ready[i] # running
                                /\ \A j \in 1..Len(ready) : ready[i] = ready[j] => i = j
    /\ \A i \in 1..Len(readq) : /\ wait[readq[i]] = "read_cond"
                                /\ \A j \in 1..Len(readq) : readq[i] = readq[j] => i = j
    /\ running # Nobody => wait[running] = "none"
    /\ left <= Len(ready)

\* Where the accept loop is, and what it is blocked on or was woken by.
ListenerAt ==
    /\ pc[Listener] \in {"accept", "offer", "spawn", "drain", "done"}
    /\ wait[Listener] # "read_cond"
    /\ wait[Listener] = "write_cond" => pc[Listener] \in {"offer", "spawn"}
    /\ wait[Listener] = "io" => pc[Listener] = "accept"
    /\ wait[Listener] = "sleep" => pc[Listener] = "drain"
    /\ InReady(Listener) =>
          pc[Listener] = "accept" \/ (pc[Listener] \in {"offer", "spawn"} /\ why[Listener] = 0)
    /\ running = Listener =>
          /\ pc[Listener] # "done"
          /\ pc[Listener] \in {"offer", "spawn"} /\ why[Listener] = -2 => phase = "expire"
    /\ pc[Listener] \in {"drain", "done"} => msgSocket = NoSocket
    /\ freed => pc[Listener] = "done"

\* Where a worker is.  One that is new, or was signalled, runs from the ready queue.
WorkerAt ==
    \A w \in Worker :
        /\ pc[w] \in {"none", "new", "loop", "probe", "serve", "gone"}
        /\ wait[w] \in {"none", "io", "read_cond"}
        /\ wait[w] = "read_cond" => pc[w] = "loop"
        /\ wait[w] = "io" => pc[w] \in {"probe", "serve"}
        /\ InReady(w) => pc[w] = "new" \/ (pc[w] = "loop" /\ why[w] = 0)
        /\ running = w =>
              /\ pc[w] \in {"new", "loop", "probe", "serve"}
              /\ pc[w] = "new" \/ (pc[w] = "loop" /\ why[w] = 0) => phase = "ready"
        /\ sock[w] # NoSocket <=> pc[w] \in {"probe", "serve"}

\* The socket in msg is on offer: the accept loop waits for somebody to take it,
\* or has just seen that nobody did in time.
Offered ==
    /\ pc[Listener] \in {"offer", "spawn"}
    /\ wait[Listener] = "write_cond" \/ (running = Listener /\ why[Listener] = -2)

\* A worker was signalled and has not looked at msg yet.
Signalled(w) == pc[w] = "loop" /\ wait[w] = "none" /\ why[w] = 0

\* The hand-over: a connection nobody has is the one on offer, at most one worker
\* was signalled for it, and a worker is signalled only while it is (or at the end).
HandOver ==
    /\ Offered => /\ msgSocket \in Socket /\ conn[msgSocket] = "accepted"
                  /\ \A w \in Worker : sock[w] # msgSocket
    /\ \A s \in Socket : conn[s] = "accepted" /\ (\A w \in Worker : sock[w] # s) =>
          Offered /\ msgSocket = s
    /\ \A w \in Worker : Signalled(w) =>
          \/ Offered /\ (InReady(w) \/ running = w)
          \/ pc[Listener] \in {"drain", "done"}
    /\ Offered => \A v, w \in Worker : Signalled(v) /\ Signalled(w) => v = w

\* The worker runs before the accept loop does: it is in the ready queue before it,
\* in the part the present or the coming pass goes through, while the accept loop
\* cannot be woken by its deadline.
RunsFirst(w) ==
    \/ running = w /\ phase = "ready"
    \/ \E i \in 1..Len(ready) :
          /\ ready[i] = w /\ running # Listener
          /\ \/ phase = "expire" /\ Listener \in fresh /\ wait[Listener] = "write_cond"
             \/ /\ phase = "ready" /\ i <= left
                /\ \A j \in 1..Len(ready) : ready[j] = Listener => i < j

\* Once a worker was created, it and the one signalled before run before the accept
\* loop goes on: it never signals a second worker for a socket, and it has left
\* no worker uncounted when it ends.
Spawning ==
    \A w \in Worker :
        /\ pc[w] = "new" => pc[Listener] = "spawn" /\ RunsFirst(w)
        /\ Signalled(w) /\ pc[Listener] = "spawn" => RunsFirst(w)

Counted == {w \in Worker : pc[w] \in {"loop", "probe", "serve"}}

\* "workers" counts the workers that have started and not left.
CountIsExact == workers = Cardinality(Counted)

\* The accept loop is over only when they all are.
EndsLast == pc[Listener] = "done" => \A w \in Worker : pc[w] \in {"none", "gone"}

Inv == Typed /\ Placed /\ ListenerAt /\ WorkerAt /\ OneOwner /\ HandOver /\ Spawning
       /\ CountIsExact /\ EndsLast

-----------------------------------------------------------------------------
(* Queues.                                                                 *)

\* The coroutines are those of the model, each with a name of its own.
LEMMA Names ==
    /\ Listener \in Coro /\ Worker \subseteq Coro /\ Listener \notin Worker /\ Nobody \notin Coro
    /\ \A c \in Coro : c = Listener \/ c \in Worker
    /\ NoSocket \notin Socket
  BY PoolAssumption DEF Coro

\* A queue with one more at its end.
LEMMA Appended ==
    ASSUME NEW S, NEW q \in Seq(S), NEW x \in S
    PROVE  /\ Append(q, x) \in Seq(S) /\ Len(Append(q, x)) = Len(q) + 1 /\ Len(q) \in Nat
           /\ \A i \in 1..(Len(q) + 1) : Append(q, x)[i] = IF i <= Len(q) THEN q[i] ELSE x
  <1>1. Len(q) \in Nat
    BY LenProperties
  <1>2. /\ Append(q, x) \in Seq(S) /\ Len(Append(q, x)) = Len(q) + 1
        /\ \A i \in 1..Len(q) : Append(q, x)[i] = q[i]
        /\ Append(q, x)[Len(q) + 1] = x
    BY AppendProperties
  <1>3. QED
    BY <1>1, <1>2

\* A queue without its first.
LEMMA Popped ==
    ASSUME NEW S, NEW q \in Seq(S), q # <<>>
    PROVE  /\ Tail(q) \in Seq(S) /\ Len(q) \in Nat \ {0} /\ Len(Tail(q)) = Len(q) - 1
           /\ Head(q) = q[1] /\ q[1] \in S
           /\ \A i \in 1..(Len(q) - 1) : Tail(q)[i] = q[i + 1]
  <1>1. Len(q) \in Nat \ {0}
    BY EmptySeq
  <1>2. Head(q) = q[1]
    OBVIOUS
  <1>3. q[1] \in S
    BY <1>1, ElementOfSeq
  <1>4. QED
    BY <1>1, <1>2, <1>3, HeadTailProperties

\* A queue without c, which is in it once at most.
LEMMA Removed ==
    ASSUME NEW S, NEW q \in Seq(S), NEW c,
           \A i, j \in 1..Len(q) : q[i] = q[j] => i = j
    PROVE  /\ RemoveFirst(q, c) \in Seq(S)
           /\ \A i, j \in 1..Len(RemoveFirst(q, c)) : RemoveFirst(q, c)[i] = RemoveFirst(q, c)[j] => i = j
           /\ \A i \in 1..Len(RemoveFirst(q, c)) :
                 RemoveFirst(q, c)[i] # c /\ \E j \in 1..Len(q) : q[j] = RemoveFirst(q, c)[i]
  <1>1. CASE ~\E i \in 1..Len(q) : q[i] = c
    BY <1>1 DEF RemoveFirst
  <1>2. CASE \E i \in 1..Len(q) : q[i] = c
    <2>1. PICK k \in 1..Len(q) : q[k] = c
      BY <1>2
    <2>2. {i \in 1..Len(q) : q[i] = c} = {k}
      BY <2>1
    <2>3. Min({i \in 1..Len(q) : q[i] = c}) = k
      BY <2>1, <2>2 DEF Min
    <2>4. RemoveFirst(q, c) = RemoveAt(q, k)
      BY <1>2, <2>1, <2>2, <2>3 DEF RemoveFirst, SelectInSeq
    <2>5. RemoveAt(q, k) = SubSeq(q, 1, k - 1) \o SubSeq(q, k + 1, Len(q))
      BY DEF RemoveAt
    <2>6. Len(q) \in Nat /\ k \in Nat /\ \A i \in 1..Len(q) : q[i] \in S
      BY <2>1, LenProperties, ElementOfSeq
    <2>7. /\ SubSeq(q, 1, k - 1) \in Seq(S) /\ Len(SubSeq(q, 1, k - 1)) = k - 1
          /\ \A i \in 1..(k - 1) : SubSeq(q, 1, k - 1)[i] = q[i]
      BY <2>1, <2>6, SubSeqProperties
    <2>8. /\ SubSeq(q, k + 1, Len(q)) \in Seq(S) /\ Len(SubSeq(q, k + 1, Len(q))) = Len(q) - k
          /\ \A i \in 1..(Len(q) - k) : SubSeq(q, k + 1, Len(q))[i] = q[k + i]
      BY <2>1, <2>6, SubSeqProperties
    <2> DEFINE a == SubSeq(q, 1, k - 1)
               b == SubSeq(q, k + 1, Len(q))
               r == RemoveFirst(q, c)
    <2> HIDE DEF a, b, r
    <2>9. r = a \o b
      BY <2>4, <2>5 DEF a, b, r
    <2>10. a \in Seq(S) /\ Len(a) = k - 1 /\ \A i \in 1..(k - 1) : a[i] = q[i]
      BY <2>7 DEF a
    <2>11. b \in Seq(S) /\ Len(b) = Len(q) - k /\ \A i \in 1..(Len(q) - k) : b[i] = q[k + i]
      BY <2>8 DEF b
    <2>12. r \in Seq(S) /\ Len(r) = Len(q) - 1
      BY <2>6, <2>9, <2>10, <2>11, ConcatProperties
    <2>13. \A i \in 1..(Len(q) - 1) : r[i] = IF i < k THEN q[i] ELSE q[i + 1]
      <3>1. SUFFICES ASSUME NEW i \in 1..(Len(q) - 1) PROVE r[i] = IF i < k THEN q[i] ELSE q[i + 1]
        OBVIOUS
      <3>2. r[i] = IF i <= k - 1 THEN a[i] ELSE b[i - (k - 1)]
        BY <2>6, <2>9, <2>10, <2>11, ConcatProperties
      <3>3. CASE i < k
        BY <2>6, <2>10, <3>2, <3>3
      <3>4. CASE ~(i < k)
        <4>1. i - (k - 1) \in 1..(Len(q) - k) /\ k + (i - (k - 1)) = i + 1
          BY <2>6, <3>4
        <4>2. QED
          BY <2>6, <2>11, <3>2, <3>4, <4>1
      <3>5. QED
        BY <3>3, <3>4
    <2>14. \A i \in 1..Len(r) : r[i] # c /\ \E j \in 1..Len(q) : q[j] = r[i]
      BY <2>1, <2>6, <2>12, <2>13
    <2>15. \A i, j \in 1..Len(r) : r[i] = r[j] => i = j
      <3>1. SUFFICES ASSUME NEW i \in 1..Len(r), NEW j \in 1..Len(r), r[i] = r[j] PROVE i = j
        OBVIOUS
      <3>2. i \in 1..(Len(q) - 1) /\ j \in 1..(Len(q) - 1)
        BY <2>12
      <3> DEFINE at(n) == IF n < k THEN n ELSE n + 1
      <3>3. r[i] = q[at(i)] /\ r[j] = q[at(j)] /\ at(i) \in 1..Len(q) /\ at(j) \in 1..Len(q)
        BY <2>6, <2>13, <3>2
      <3>4. at(i) = at(j)
        BY <3>1, <3>3
      <3>5. QED
        BY <2>6, <3>2, <3>4
    <2>16. QED
      BY <2>12, <2>14, <2>15 DEF r
  <1>3. QED
    BY <1>1, <1>2

-----------------------------------------------------------------------------
(* The steps.                                                              *)

\* The accept loop runs alone at the start.
LEMMA InitInv == Init => Inv
  <1>1. SUFFICES ASSUME Init PROVE Inv
    OBVIOUS
  <1>2. /\ phase = "ready" /\ left = 0 /\ fresh = {} /\ ready = <<>> /\ running = Listener
        /\ pc = [c \in Coro |-> IF c = Listener THEN "accept" ELSE "none"]
        /\ wait = [c \in Coro |-> "none"] /\ why = [c \in Coro |-> 0]
        /\ readq = <<>> /\ young = {} /\ msgSocket = NoSocket /\ sock = [w \in Worker |-> NoSocket]
        /\ workers = 0 /\ conn = [s \in Socket |-> "backlog"] /\ freed = FALSE /\ signal = "none"
    BY <1>1 DEF Init
  <1>3. Len(<<>>) = 0 /\ <<>> \in Seq(Coro) /\ <<>> \in Seq(Worker)
    BY EmptySeq
  <1>4. Typed
    BY <1>2, <1>3, Names DEF Typed
  <1>5. Placed /\ ListenerAt /\ WorkerAt
    BY <1>2, <1>3, Names DEF Placed, ListenerAt, WorkerAt, InReady
  <1>6. OneOwner /\ HandOver /\ Spawning /\ EndsLast
    BY <1>2, Names DEF OneOwner, HandOver, Spawning, EndsLast, Offered, Signalled
  <1>7. CountIsExact
    <2>1. Counted = {}
      BY <1>2, Names DEF Counted
    <2>2. QED
      BY <1>2, <2>1, FS_EmptySet DEF CountIsExact
  <1>8. QED
    BY <1>4, <1>5, <1>6, <1>7 DEF Inv

\* A worker that starts is counted.
LEMMA CountUp ==
    ASSUME CountIsExact, NEW w \in Worker, w \notin Counted, Counted' = Counted \cup {w},
           workers' = workers + 1
    PROVE  CountIsExact'
  <1>1. IsFiniteSet(Counted)
    BY PoolAssumption, FS_Subset DEF Counted
  <1>2. Cardinality(Counted \cup {w}) = Cardinality(Counted) + 1
    BY <1>1, FS_AddElement
  <1>3. QED
    BY <1>2 DEF CountIsExact

\* The same for one that leaves.
LEMMA CountDown ==
    ASSUME CountIsExact, NEW w \in Worker, w \in Counted, Counted' = Counted \ {w},
           workers' = workers - 1
    PROVE  CountIsExact'
  <1>1. IsFiniteSet(Counted)
    BY PoolAssumption, FS_Subset DEF Counted
  <1>2. Cardinality(Counted \ {w}) = Cardinality(Counted) - 1
    BY <1>1, FS_RemoveElement
  <1>3. QED
    BY <1>2 DEF CountIsExact

\* A step that leaves the queue, the scheduler and the accept loop as they are does
\* not bring the accept loop forward.
LEMMA StillFirst ==
    ASSUME NEW w \in Worker, RunsFirst(w), running # w, running' # Listener,
           ready' = ready, left' = left, phase' = phase, fresh \subseteq fresh',
           wait'[Listener] = wait[Listener]
    PROVE  RunsFirst(w)'
  BY DEF RunsFirst

\* A step that neither offers nor takes a socket, nor signals anybody.
LEMMA StillHandedOver ==
    ASSUME HandOver, Offered' <=> Offered, msgSocket' = msgSocket, conn' = conn, sock' = sock,
           \A w \in Worker : Signalled(w)' => Signalled(w),
           \A w \in Worker : Signalled(w)' /\ (InReady(w) \/ running = w) => (InReady(w) \/ running = w)',
           pc[Listener] \in {"drain", "done"} => pc'[Listener] \in {"drain", "done"}
    PROVE  HandOver'
  BY DEF HandOver

\* Nothing to accept: the accept loop is blocked on its descriptor.
LEMMA AcceptBlocksInv ==
    ASSUME Inv, AcceptBlocks, UNCHANGED signal
    PROVE  Inv'
  <1>1. /\ Typed /\ Placed /\ ListenerAt /\ WorkerAt /\ OneOwner
        /\ HandOver /\ Spawning /\ CountIsExact /\ EndsLast
    BY DEF Inv
  <1>2. /\ running = Listener /\ pc[Listener] = "accept" /\ running' = Nobody
        /\ wait' = [wait EXCEPT ![Listener] = "io"]
        /\ fresh' = IF phase = "ready" THEN fresh ELSE fresh \cup {Listener}
        /\ UNCHANGED <<phase, left, ready, pc, why, readq, young, msgSocket, sock, workers, conn, freed, signal>>
    BY Names DEF AcceptBlocks, Block, sched
  <1>3. Typed'
    BY <1>1, <1>2, Names DEF Typed
  <1>4. Placed'
    BY <1>1, <1>2, Names DEF Typed, Placed
  <1>5. ListenerAt'
    BY <1>1, <1>2, Names DEF Typed, Placed, ListenerAt, InReady
  <1>6. WorkerAt'
    BY <1>1, <1>2, Names DEF Typed, Placed, ListenerAt, WorkerAt, InReady
  <1>7. OneOwner'
    BY <1>1, <1>2, Names DEF Typed, WorkerAt, OneOwner, HandOver
  <1>8. HandOver'
    BY <1>1, <1>2, Names DEF Typed, Placed, ListenerAt, WorkerAt, OneOwner, HandOver, Offered, Signalled, InReady
  <1>9. Spawning'
    BY <1>1, <1>2, Names DEF Typed, Placed, ListenerAt, WorkerAt, Spawning, Signalled, RunsFirst
  <1>10. EndsLast'
    BY <1>1, <1>2, Names DEF Typed, ListenerAt, WorkerAt, EndsLast
  <1>11. CountIsExact'
    <2>1. Counted' = Counted
      BY <1>1, <1>2, Names DEF Typed, ListenerAt, WorkerAt, Counted
    <2>2. QED
      BY <1>1, <1>2, <2>1 DEF CountIsExact
  <1>12. QED
    BY <1>3, <1>4, <1>5, <1>6, <1>7, <1>8, <1>9, <1>10, <1>11 DEF Inv

\* A worker is blocked on its socket.
LEMMA ServesInv ==
    ASSUME Inv, NEW w \in Worker, WorkerServes(w), UNCHANGED signal
    PROVE  Inv'
  <1>1. /\ Typed /\ Placed /\ ListenerAt /\ WorkerAt /\ OneOwner
        /\ HandOver /\ Spawning /\ CountIsExact /\ EndsLast
    BY DEF Inv
  <1>2. /\ running = w /\ pc[w] = "serve" /\ running' = Nobody
        /\ wait' = [wait EXCEPT ![w] = "io"]
        /\ fresh' = IF phase = "ready" THEN fresh ELSE fresh \cup {w}
        /\ UNCHANGED <<phase, left, ready, pc, why, readq, young, msgSocket, sock, workers, conn, freed, signal>>
    BY Names DEF WorkerServes, Block, sched
  <1>3. Typed'
    BY <1>1, <1>2, Names DEF Typed
  <1>4. Placed'
    BY <1>1, <1>2, Names DEF Typed, Placed
  <1>5. ListenerAt'
    BY <1>1, <1>2, Names DEF Typed, Placed, ListenerAt, InReady
  <1>6. WorkerAt'
    BY <1>1, <1>2, Names DEF Typed, Placed, ListenerAt, WorkerAt, InReady
  <1>7. OneOwner'
    BY <1>1, <1>2, Names DEF Typed, WorkerAt, OneOwner, HandOver
  <1>8. HandOver'
    BY <1>1, <1>2, Names DEF Typed, Placed, ListenerAt, WorkerAt, OneOwner, HandOver, Offered, Signalled, InReady
  <1>9. Spawning'
    BY <1>1, <1>2, Names DEF Typed, Placed, ListenerAt, WorkerAt, Spawning, Signalled, RunsFirst
  <1>10. EndsLast'
    BY <1>1, <1>2, Names DEF Typed, ListenerAt, WorkerAt, EndsLast
  <1>11. CountIsExact'
    <2>1. Counted' = Counted
      BY <1>1, <1>2, Names DEF Typed, ListenerAt, WorkerAt, Counted
    <2>2. QED
      BY <1>1, <1>2, <2>1 DEF CountIsExact
  <1>12. QED
    BY <1>3, <1>4, <1>5, <1>6, <1>7, <1>8, <1>9, <1>10, <1>11 DEF Inv

\* A worker leaves after ten seconds without a connection.
LEMMA IdlesInv ==
    ASSUME Inv, NEW w \in Worker, WorkerIdles(w), UNCHANGED signal
    PROVE  Inv'
  <1>1. /\ Typed /\ Placed /\ ListenerAt /\ WorkerAt /\ OneOwner
        /\ HandOver /\ Spawning /\ CountIsExact /\ EndsLast
    BY DEF Inv
  <1>2. /\ running = w /\ pc[w] = "loop" /\ why[w] # 0 /\ running' = Nobody
        /\ pc' = [pc EXCEPT ![w] = "gone"] /\ workers' = workers - 1
        /\ UNCHANGED <<phase, left, fresh, ready, wait, why, readq, young, msgSocket, sock, conn, freed, signal>>
    BY Names DEF WorkerIdles, WorkerLeaves, sched
  <1>3. Typed'
    BY <1>1, <1>2, Names DEF Typed
  <1>4. Placed'
    BY <1>1, <1>2, Names DEF Typed, Placed
  <1>5. ListenerAt'
    BY <1>1, <1>2, Names DEF Typed, Placed, ListenerAt, InReady
  <1>6. WorkerAt'
    BY <1>1, <1>2, Names DEF Typed, Placed, ListenerAt, WorkerAt, InReady
  <1>7. OneOwner'
    BY <1>1, <1>2, Names DEF Typed, WorkerAt, OneOwner, HandOver
  <1>8. HandOver'
    BY <1>1, <1>2, Names DEF Typed, Placed, ListenerAt, WorkerAt, OneOwner, HandOver, Offered, Signalled, InReady
  <1>9. Spawning'
    <2>1. SUFFICES ASSUME NEW v \in Worker, pc'[v] = "new" \/ (Signalled(v)' /\ pc'[Listener] = "spawn")
                   PROVE  pc[Listener] = "spawn" /\ pc'[Listener] = "spawn" /\ RunsFirst(v)'
      BY DEF Spawning
    <2>2. v # w /\ pc'[v] = pc[v] /\ (Signalled(v)' => Signalled(v)) /\ pc'[Listener] = pc[Listener]
      BY <1>1, <1>2, <2>1, Names DEF Typed, Signalled
    <2>3. RunsFirst(v) /\ pc[Listener] = "spawn"
      BY <1>1, <1>2, <2>1, <2>2 DEF Spawning
    <2>4. wait'[Listener] = wait[Listener]
      BY <1>1, <1>2, Names DEF Typed
    <2>5. QED
      BY <1>1, <1>2, <2>2, <2>3, <2>4, StillFirst, Names
  <1>10. EndsLast'
    BY <1>1, <1>2, Names DEF Typed, ListenerAt, WorkerAt, EndsLast
  <1>11. CountIsExact'
    <2>1. w \in Counted /\ Counted' = Counted \ {w}
      BY <1>1, <1>2, Names DEF Typed, WorkerAt, Counted
    <2>2. QED
      BY <1>1, <1>2, <2>1, CountDown
  <1>12. QED
    BY <1>3, <1>4, <1>5, <1>6, <1>7, <1>8, <1>9, <1>10, <1>11 DEF Inv

\* The descriptor of a coroutine has an event.
LEMMA PollInv ==
    ASSUME Inv, NEW c \in Coro, Poll(c), UNCHANGED signal
    PROVE  Inv'
  <1>1. /\ Typed /\ Placed /\ ListenerAt /\ WorkerAt /\ OneOwner
        /\ HandOver /\ Spawning /\ CountIsExact /\ EndsLast
    BY DEF Inv
  <1>2. /\ running = Nobody /\ phase = "poll" /\ wait[c] = "io" /\ running' = c
        /\ why' = [why EXCEPT ![c] = 0] /\ wait' = [wait EXCEPT ![c] = "none"]
        /\ UNCHANGED <<phase, left, fresh, ready, pc, readq, young, msgSocket, sock, workers, conn, freed, signal>>
    BY Names DEF Poll, Idle, Resume, sched
  <1>3. Typed'
    BY <1>1, <1>2, Names DEF Typed
  <1>4. Placed'
    BY <1>1, <1>2, Names DEF Typed, Placed
  <1>5. ListenerAt'
    BY <1>1, <1>2, Names DEF Typed, Placed, ListenerAt, InReady
  <1>6. WorkerAt'
    BY <1>1, <1>2, Names DEF Typed, Placed, ListenerAt, WorkerAt, InReady
  <1>7. OneOwner'
    BY <1>1, <1>2, Names DEF Typed, WorkerAt, OneOwner, HandOver
  <1>8. HandOver'
    <2>1. Offered' <=> Offered
      BY <1>1, <1>2, Names DEF Typed, Placed, ListenerAt, WorkerAt, Offered
    <2>2. \A v \in Worker : Signalled(v)' => Signalled(v)
      BY <1>1, <1>2, Names DEF Typed, WorkerAt, Signalled
    <2>3. \A v \in Worker : Signalled(v)' /\ (InReady(v) \/ running = v) => (InReady(v) \/ running = v)'
      BY <1>1, <1>2, Names DEF Typed, WorkerAt, Signalled, InReady
    <2>4. pc[Listener] \in {"drain", "done"} => pc'[Listener] \in {"drain", "done"}
      BY <1>1, <1>2, Names DEF Typed
    <2>5. QED
      BY <1>1, <1>2, <2>1, <2>2, <2>3, <2>4, StillHandedOver
  <1>9. Spawning'
    BY <1>1, <1>2, Names DEF Typed, Placed, ListenerAt, WorkerAt, Spawning, Signalled, RunsFirst
  <1>10. EndsLast'
    BY <1>1, <1>2, Names DEF Typed, ListenerAt, WorkerAt, EndsLast
  <1>11. CountIsExact'
    <2>1. Counted' = Counted
      BY <1>1, <1>2, Names DEF Typed, ListenerAt, WorkerAt, Counted
    <2>2. QED
      BY <1>1, <1>2, <2>1 DEF CountIsExact
  <1>12. QED
    BY <1>3, <1>4, <1>5, <1>6, <1>7, <1>8, <1>9, <1>10, <1>11 DEF Inv
\* A new worker is counted and waits for a socket.
LEMMA StartsInv ==
    ASSUME Inv, NEW w \in Worker, WorkerStarts(w), UNCHANGED signal
    PROVE  Inv'
  <1>1. /\ Typed /\ Placed /\ ListenerAt /\ WorkerAt /\ OneOwner
        /\ HandOver /\ Spawning /\ CountIsExact /\ EndsLast
    BY DEF Inv
  <1>2. /\ running = w /\ pc[w] = "new" /\ running' = Nobody /\ workers' = workers + 1
        /\ readq' = Append(readq, w) /\ young' = young \cup {w}
        /\ pc' = [pc EXCEPT ![w] = "loop"] /\ wait' = [wait EXCEPT ![w] = "read_cond"]
        /\ fresh' = IF phase = "ready" THEN fresh ELSE fresh \cup {w}
        /\ UNCHANGED <<phase, left, ready, why, msgSocket, sock, conn, freed, signal>>
    BY Names DEF WorkerStarts, AwaitSocket, Block, sched
  <1>3. /\ readq' \in Seq(Worker) /\ Len(readq') = Len(readq) + 1 /\ Len(readq) \in Nat
        /\ \A i \in 1..(Len(readq) + 1) : readq'[i] = IF i <= Len(readq) THEN readq[i] ELSE w
    BY <1>1, <1>2, Appended DEF Typed
  <1>4. Typed'
    BY <1>1, <1>2, <1>3, Names DEF Typed
  <1>5. Placed'
    BY <1>1, <1>2, <1>3, Names DEF Typed, Placed
  <1>6. ListenerAt'
    BY <1>1, <1>2, <1>3, Names DEF Typed, Placed, ListenerAt, InReady
  <1>7. WorkerAt'
    BY <1>1, <1>2, <1>3, Names DEF Typed, Placed, ListenerAt, WorkerAt, InReady
  <1>8. OneOwner'
    BY <1>1, <1>2, <1>3, Names DEF Typed, WorkerAt, OneOwner, HandOver
  <1>9. HandOver'
    <2>1. Offered' <=> Offered
      BY <1>1, <1>2, <1>3, Names DEF Typed, Placed, ListenerAt, WorkerAt, Offered
    <2>2. \A v \in Worker : Signalled(v)' => Signalled(v)
      BY <1>1, <1>2, <1>3, Names DEF Typed, WorkerAt, Signalled
    <2>3. \A v \in Worker : Signalled(v)' /\ (InReady(v) \/ running = v) => (InReady(v) \/ running = v)'
      BY <1>1, <1>2, <1>3, Names DEF Typed, WorkerAt, Signalled, InReady
    <2>4. pc[Listener] \in {"drain", "done"} => pc'[Listener] \in {"drain", "done"}
      BY <1>1, <1>2, <1>3, Names DEF Typed
    <2>5. QED
      BY <1>1, <1>2, <1>3, <2>1, <2>2, <2>3, <2>4, StillHandedOver
  <1>10. Spawning'
    <2>1. SUFFICES ASSUME NEW v \in Worker, pc'[v] = "new" \/ (Signalled(v)' /\ pc'[Listener] = "spawn")
                   PROVE  pc[Listener] = "spawn" /\ pc'[Listener] = "spawn" /\ RunsFirst(v)'
      BY DEF Spawning
    <2>2. v # w /\ pc'[v] = pc[v] /\ (Signalled(v)' => Signalled(v)) /\ pc'[Listener] = pc[Listener]
      BY <1>1, <1>2, <1>3, <2>1, Names DEF Typed, Signalled
    <2>3. RunsFirst(v) /\ pc[Listener] = "spawn"
      BY <1>1, <1>2, <1>3, <2>1, <2>2 DEF Spawning
    <2>4. wait'[Listener] = wait[Listener]
      BY <1>1, <1>2, <1>3, Names DEF Typed
    <2>5. QED
      BY <1>1, <1>2, <1>3, <2>2, <2>3, <2>4, StillFirst, Names
  <1>11. EndsLast'
    BY <1>1, <1>2, <1>3, Names DEF Typed, ListenerAt, WorkerAt, EndsLast
  <1>12. CountIsExact'
    <2>1. w \notin Counted /\ Counted' = Counted \cup {w}
      BY <1>1, <1>2, <1>3, Names DEF Typed, WorkerAt, Counted
    <2>2. QED
      BY <1>1, <1>2, <1>3, <2>1, CountUp
  <1>13. QED
    BY <1>4, <1>5, <1>6, <1>7, <1>8, <1>9, <1>10, <1>11, <1>12 DEF Inv

\* The connection is closed; its worker waits for another.
LEMMA FinishesInv ==
    ASSUME Inv, NEW w \in Worker, WorkerFinishes(w), UNCHANGED signal
    PROVE  Inv'
  <1>1. /\ Typed /\ Placed /\ ListenerAt /\ WorkerAt /\ OneOwner
        /\ HandOver /\ Spawning /\ CountIsExact /\ EndsLast
    BY DEF Inv
  <1>2. /\ running = w /\ pc[w] = "serve" /\ running' = Nobody
        /\ conn' = [conn EXCEPT ![sock[w]] = "closed"] /\ sock' = [sock EXCEPT ![w] = NoSocket]
        /\ readq' = Append(readq, w) /\ young' = young \cup {w}
        /\ pc' = [pc EXCEPT ![w] = "loop"] /\ wait' = [wait EXCEPT ![w] = "read_cond"]
        /\ fresh' = IF phase = "ready" THEN fresh ELSE fresh \cup {w}
        /\ UNCHANGED <<phase, left, ready, why, msgSocket, workers, freed, signal>>
    BY Names DEF WorkerFinishes, AwaitSocket, Block, sched
  <1>3. /\ readq' \in Seq(Worker) /\ Len(readq') = Len(readq) + 1 /\ Len(readq) \in Nat
        /\ \A i \in 1..(Len(readq) + 1) : readq'[i] = IF i <= Len(readq) THEN readq[i] ELSE w
    BY <1>1, <1>2, Appended DEF Typed
  <1>4. /\ sock[w] \in Socket /\ conn[sock[w]] = "accepted"
        /\ \A v \in Worker \ {w} : sock[v] # sock[w]
    BY <1>1, <1>2, <1>3, Names DEF Typed, WorkerAt, OneOwner
  <1>5. Typed'
    BY <1>1, <1>2, <1>3, <1>4, Names DEF Typed
  <1>6. Placed'
    BY <1>1, <1>2, <1>3, <1>4, Names DEF Typed, Placed
  <1>7. ListenerAt'
    BY <1>1, <1>2, <1>3, <1>4, Names DEF Typed, Placed, ListenerAt, InReady
  <1>8. WorkerAt'
    BY <1>1, <1>2, <1>3, <1>4, Names DEF Typed, Placed, ListenerAt, WorkerAt, InReady
  <1>9. OneOwner'
    BY <1>1, <1>2, <1>3, <1>4, Names DEF Typed, WorkerAt, OneOwner, HandOver
  <1>10. HandOver'
    BY <1>1, <1>2, <1>3, <1>4, Names DEF Typed, Placed, ListenerAt, WorkerAt, OneOwner, HandOver, Offered, Signalled, InReady
  <1>11. Spawning'
    <2>1. SUFFICES ASSUME NEW v \in Worker, pc'[v] = "new" \/ (Signalled(v)' /\ pc'[Listener] = "spawn")
                   PROVE  pc[Listener] = "spawn" /\ pc'[Listener] = "spawn" /\ RunsFirst(v)'
      BY DEF Spawning
    <2>2. v # w /\ pc'[v] = pc[v] /\ (Signalled(v)' => Signalled(v)) /\ pc'[Listener] = pc[Listener]
      BY <1>1, <1>2, <1>3, <1>4, <2>1, Names DEF Typed, Signalled
    <2>3. RunsFirst(v) /\ pc[Listener] = "spawn"
      BY <1>1, <1>2, <1>3, <1>4, <2>1, <2>2 DEF Spawning
    <2>4. wait'[Listener] = wait[Listener]
      BY <1>1, <1>2, <1>3, <1>4, Names DEF Typed
    <2>5. QED
      BY <1>1, <1>2, <1>3, <1>4, <2>2, <2>3, <2>4, StillFirst, Names
  <1>12. EndsLast'
    BY <1>1, <1>2, <1>3, <1>4, Names DEF Typed, ListenerAt, WorkerAt, EndsLast
  <1>13. CountIsExact'
    <2>1. Counted' = Counted
      BY <1>1, <1>2, <1>3, <1>4, Names DEF Typed, ListenerAt, WorkerAt, Counted
    <2>2. QED
      BY <1>1, <1>2, <1>3, <1>4, <2>1 DEF CountIsExact
  <1>14. QED
    BY <1>5, <1>6, <1>7, <1>8, <1>9, <1>10, <1>11, <1>12, <1>13 DEF Inv
\* The socket a worker took can be written to: it serves it.
LEMMA ProbesServesInv ==
    ASSUME Inv, NEW w \in Worker, running = w, pc[w] = "probe", pc' = [pc EXCEPT ![w] = "serve"],
           UNCHANGED <<sched, ready, wait, why, readq, young, msgSocket, freed, running, sock, workers, conn, signal>>
    PROVE  Inv'
  <1>1. /\ Typed /\ Placed /\ ListenerAt /\ WorkerAt /\ OneOwner
        /\ HandOver /\ Spawning /\ CountIsExact /\ EndsLast
    BY DEF Inv
  <1>2. /\ running = w /\ pc[w] = "probe" /\ pc' = [pc EXCEPT ![w] = "serve"]
        /\ UNCHANGED <<phase, left, fresh, ready, running, wait, why, readq, young, msgSocket, sock, workers, conn, freed, signal>>
    BY Names DEF sched
  <1>3. Typed'
    BY <1>1, <1>2, Names DEF Typed
  <1>4. Placed'
    BY <1>1, <1>2, Names DEF Typed, Placed
  <1>5. ListenerAt'
    BY <1>1, <1>2, Names DEF Typed, Placed, ListenerAt, InReady
  <1>6. WorkerAt'
    BY <1>1, <1>2, Names DEF Typed, Placed, ListenerAt, WorkerAt, InReady
  <1>7. OneOwner'
    BY <1>1, <1>2, Names DEF Typed, WorkerAt, OneOwner, HandOver
  <1>8. HandOver'
    <2>1. Offered' <=> Offered
      BY <1>1, <1>2, Names DEF Typed, Placed, ListenerAt, WorkerAt, Offered
    <2>2. \A v \in Worker : Signalled(v)' => Signalled(v)
      BY <1>1, <1>2, Names DEF Typed, WorkerAt, Signalled
    <2>3. \A v \in Worker : Signalled(v)' /\ (InReady(v) \/ running = v) => (InReady(v) \/ running = v)'
      BY <1>1, <1>2, Names DEF Typed, WorkerAt, Signalled, InReady
    <2>4. pc[Listener] \in {"drain", "done"} => pc'[Listener] \in {"drain", "done"}
      BY <1>1, <1>2, Names DEF Typed
    <2>5. QED
      BY <1>1, <1>2, <2>1, <2>2, <2>3, <2>4, StillHandedOver
  <1>9. Spawning'
    <2>1. SUFFICES ASSUME NEW v \in Worker, pc'[v] = "new" \/ (Signalled(v)' /\ pc'[Listener] = "spawn")
                   PROVE  pc[Listener] = "spawn" /\ pc'[Listener] = "spawn" /\ RunsFirst(v)'
      BY DEF Spawning
    <2>2. v # w /\ pc'[v] = pc[v] /\ (Signalled(v)' => Signalled(v)) /\ pc'[Listener] = pc[Listener]
      BY <1>1, <1>2, <2>1, Names DEF Typed, Signalled
    <2>3. RunsFirst(v) /\ pc[Listener] = "spawn"
      BY <1>1, <1>2, <2>1, <2>2 DEF Spawning
    <2>4. wait'[Listener] = wait[Listener]
      BY <1>1, <1>2, Names DEF Typed
    <2>5. QED
      BY <1>1, <1>2, <2>2, <2>3, <2>4, StillFirst, Names
  <1>10. EndsLast'
    BY <1>1, <1>2, Names DEF Typed, ListenerAt, WorkerAt, EndsLast
  <1>11. CountIsExact'
    <2>1. Counted' = Counted
      BY <1>1, <1>2, Names DEF Typed, ListenerAt, WorkerAt, Counted
    <2>2. QED
      BY <1>1, <1>2, <2>1 DEF CountIsExact
  <1>12. QED
    BY <1>3, <1>4, <1>5, <1>6, <1>7, <1>8, <1>9, <1>10, <1>11 DEF Inv

\* The peer is gone: the worker leaves, and the socket is nobody's.
LEMMA ProbesLeaksInv ==
    ASSUME Inv, NEW w \in Worker, WorkerProbes(w), WorkerLeaves(w), conn' = [conn EXCEPT ![sock[w]] = "leaked"],
           sock' = [sock EXCEPT ![w] = NoSocket], UNCHANGED signal
    PROVE  Inv'
  <1>1. /\ Typed /\ Placed /\ ListenerAt /\ WorkerAt /\ OneOwner
        /\ HandOver /\ Spawning /\ CountIsExact /\ EndsLast
    BY DEF Inv
  <1>2. /\ running = w /\ pc[w] = "probe" /\ running' = Nobody
        /\ conn' = [conn EXCEPT ![sock[w]] = "leaked"] /\ sock' = [sock EXCEPT ![w] = NoSocket]
        /\ pc' = [pc EXCEPT ![w] = "gone"] /\ workers' = workers - 1
        /\ UNCHANGED <<phase, left, fresh, ready, wait, why, readq, young, msgSocket, freed, signal>>
    BY Names DEF WorkerProbes, WorkerLeaves, sched
  <1>3. /\ sock[w] \in Socket /\ conn[sock[w]] = "accepted"
        /\ \A v \in Worker \ {w} : sock[v] # sock[w]
    BY <1>1, <1>2, Names DEF Typed, WorkerAt, OneOwner
  <1>4. Typed'
    BY <1>1, <1>2, <1>3, Names DEF Typed
  <1>5. Placed'
    BY <1>1, <1>2, <1>3, Names DEF Typed, Placed
  <1>6. ListenerAt'
    BY <1>1, <1>2, <1>3, Names DEF Typed, Placed, ListenerAt, InReady
  <1>7. WorkerAt'
    BY <1>1, <1>2, <1>3, Names DEF Typed, Placed, ListenerAt, WorkerAt, InReady
  <1>8. OneOwner'
    BY <1>1, <1>2, <1>3, Names DEF Typed, WorkerAt, OneOwner, HandOver
  <1>9. HandOver'
    BY <1>1, <1>2, <1>3, Names DEF Typed, Placed, ListenerAt, WorkerAt, OneOwner, HandOver, Offered, Signalled, InReady
  <1>10. Spawning'
    <2>1. SUFFICES ASSUME NEW v \in Worker, pc'[v] = "new" \/ (Signalled(v)' /\ pc'[Listener] = "spawn")
                   PROVE  pc[Listener] = "spawn" /\ pc'[Listener] = "spawn" /\ RunsFirst(v)'
      BY DEF Spawning
    <2>2. v # w /\ pc'[v] = pc[v] /\ (Signalled(v)' => Signalled(v)) /\ pc'[Listener] = pc[Listener]
      BY <1>1, <1>2, <1>3, <2>1, Names DEF Typed, Signalled
    <2>3. RunsFirst(v) /\ pc[Listener] = "spawn"
      BY <1>1, <1>2, <1>3, <2>1, <2>2 DEF Spawning
    <2>4. wait'[Listener] = wait[Listener]
      BY <1>1, <1>2, <1>3, Names DEF Typed
    <2>5. QED
      BY <1>1, <1>2, <1>3, <2>2, <2>3, <2>4, StillFirst, Names
  <1>11. EndsLast'
    BY <1>1, <1>2, <1>3, Names DEF Typed, ListenerAt, WorkerAt, EndsLast
  <1>12. CountIsExact'
    <2>1. w \in Counted /\ Counted' = Counted \ {w}
      BY <1>1, <1>2, <1>3, Names DEF Typed, WorkerAt, Counted
    <2>2. QED
      BY <1>1, <1>2, <1>3, <2>1, CountDown
  <1>13. QED
    BY <1>4, <1>5, <1>6, <1>7, <1>8, <1>9, <1>10, <1>11, <1>12 DEF Inv

\* After the broadcast of the end: a worker that sees no socket leaves.
LEMMA TakesNothingInv ==
    ASSUME Inv, NEW w \in Worker, WorkerTakes(w), msgSocket = NoSocket, UNCHANGED signal
    PROVE  Inv'
  <1>1. /\ Typed /\ Placed /\ ListenerAt /\ WorkerAt /\ OneOwner
        /\ HandOver /\ Spawning /\ CountIsExact /\ EndsLast
    BY DEF Inv
  <1>2. running = w /\ pc[w] = "loop" /\ why[w] = 0
    BY Names DEF WorkerTakes
  <1>3. pc[Listener] \in {"drain", "done"} /\ ~ListenerOnWriteCond
    <2>1. wait[w] = "none"
      BY <1>1, <1>2, Names DEF Placed
    <2>2. ~Offered
      BY <1>1, <1>2, Names DEF HandOver
    <2>3. QED
      BY <1>1, <1>2, <2>1, <2>2 DEF HandOver, Signalled, ListenerAt, ListenerOnWriteCond
  <1>4. /\ running' = Nobody /\ pc' = [pc EXCEPT ![w] = "gone"] /\ workers' = workers - 1
        /\ sock' = [sock EXCEPT ![w] = NoSocket]
        /\ UNCHANGED <<phase, left, fresh, ready, wait, why, readq, young, msgSocket, conn, freed, signal>>
    BY <1>1, <1>2, <1>3 DEF WorkerTakes, WorkerLeaves, sched
  <1>5. sock' = sock
    BY <1>1, <1>2, <1>3, <1>4, Names DEF Typed, WorkerAt
  <1>6. Typed'
    BY <1>1, <1>2, <1>3, <1>4, <1>5, Names DEF Typed
  <1>7. Placed'
    BY <1>1, <1>2, <1>3, <1>4, <1>5, Names DEF Typed, Placed
  <1>8. ListenerAt'
    BY <1>1, <1>2, <1>3, <1>4, <1>5, Names DEF Typed, Placed, ListenerAt, InReady
  <1>9. WorkerAt'
    BY <1>1, <1>2, <1>3, <1>4, <1>5, Names DEF Typed, Placed, ListenerAt, WorkerAt, InReady
  <1>10. OneOwner'
    BY <1>1, <1>2, <1>3, <1>4, <1>5, Names DEF Typed, WorkerAt, OneOwner, HandOver
  <1>11. HandOver'
    <2>1. Offered' <=> Offered
      BY <1>1, <1>2, <1>3, <1>4, <1>5, Names DEF Typed, Placed, ListenerAt, WorkerAt, Offered
    <2>2. \A v \in Worker : Signalled(v)' => Signalled(v)
      BY <1>1, <1>2, <1>3, <1>4, <1>5, Names DEF Typed, WorkerAt, Signalled
    <2>3. \A v \in Worker : Signalled(v)' /\ (InReady(v) \/ running = v) => (InReady(v) \/ running = v)'
      BY <1>1, <1>2, <1>3, <1>4, <1>5, Names DEF Typed, WorkerAt, Signalled, InReady
    <2>4. pc[Listener] \in {"drain", "done"} => pc'[Listener] \in {"drain", "done"}
      BY <1>1, <1>2, <1>3, <1>4, <1>5, Names DEF Typed
    <2>5. QED
      BY <1>1, <1>2, <1>3, <1>4, <1>5, <2>1, <2>2, <2>3, <2>4, StillHandedOver
  <1>12. Spawning'
    <2>1. SUFFICES ASSUME NEW v \in Worker, pc'[v] = "new" \/ (Signalled(v)' /\ pc'[Listener] = "spawn")
                   PROVE  pc[Listener] = "spawn" /\ pc'[Listener] = "spawn" /\ RunsFirst(v)'
      BY DEF Spawning
    <2>2. v # w /\ pc'[v] = pc[v] /\ (Signalled(v)' => Signalled(v)) /\ pc'[Listener] = pc[Listener]
      BY <1>1, <1>2, <1>3, <1>4, <1>5, <2>1, Names DEF Typed, Signalled
    <2>3. RunsFirst(v) /\ pc[Listener] = "spawn"
      BY <1>1, <1>2, <1>3, <1>4, <1>5, <2>1, <2>2 DEF Spawning
    <2>4. wait'[Listener] = wait[Listener]
      BY <1>1, <1>2, <1>3, <1>4, <1>5, Names DEF Typed
    <2>5. QED
      BY <1>1, <1>2, <1>3, <1>4, <1>5, <2>2, <2>3, <2>4, StillFirst, Names
  <1>13. EndsLast'
    BY <1>1, <1>2, <1>3, <1>4, <1>5, Names DEF Typed, ListenerAt, WorkerAt, EndsLast
  <1>14. CountIsExact'
    <2>1. w \in Counted /\ Counted' = Counted \ {w}
      BY <1>1, <1>2, <1>3, <1>4, <1>5, Names DEF Typed, WorkerAt, Counted
    <2>2. QED
      BY <1>1, <1>2, <1>3, <1>4, <1>5, <2>1, CountDown
  <1>15. QED
    BY <1>6, <1>7, <1>8, <1>9, <1>10, <1>11, <1>12, <1>13, <1>14 DEF Inv

\* The worker that was signalled takes the socket and wakes the accept loop.
LEMMA TakesInv ==
    ASSUME Inv, NEW w \in Worker, WorkerTakes(w), msgSocket # NoSocket, UNCHANGED signal
    PROVE  Inv'
  <1>1. /\ Typed /\ Placed /\ ListenerAt /\ WorkerAt /\ OneOwner
        /\ HandOver /\ Spawning /\ CountIsExact /\ EndsLast
    BY DEF Inv
  <1>2. running = w /\ pc[w] = "loop" /\ why[w] = 0
    BY Names DEF WorkerTakes
  <1>3. Signalled(w) /\ Offered /\ ListenerOnWriteCond /\ wait[Listener] = "write_cond" /\ phase = "ready"
    <2>1. Signalled(w)
      BY <1>1, <1>2, Names DEF Placed, Signalled
    <2>2. pc[Listener] \notin {"drain", "done"}
      BY <1>1, <1>2 DEF ListenerAt
    <2>3. QED
      BY <1>1, <1>2, <2>1, <2>2, Names DEF HandOver, Offered, WorkerAt, ListenerOnWriteCond
  <1>4. /\ msgSocket \in Socket /\ conn[msgSocket] = "accepted" /\ \A v \in Worker : sock[v] # msgSocket
        /\ \A v \in Worker : Signalled(v) => v = w
    BY <1>1, <1>2, <1>3 DEF HandOver
  <1>5. /\ running' = Nobody /\ pc' = [pc EXCEPT ![w] = "probe"] /\ ready' = Append(ready, Listener)
        /\ why' = [why EXCEPT ![Listener] = 0] /\ sock' = [sock EXCEPT ![w] = msgSocket]
        /\ wait' = [[wait EXCEPT ![Listener] = "none"] EXCEPT ![w] = "io"]
        /\ UNCHANGED <<phase, left, fresh, readq, young, msgSocket, workers, conn, freed, signal>>
    BY <1>1, <1>2, <1>3, <1>4 DEF WorkerTakes, Block
  <1>6. /\ ready' \in Seq(Coro) /\ Len(ready') = Len(ready) + 1 /\ Len(ready) \in Nat
        /\ \A i \in 1..(Len(ready) + 1) : ready'[i] = IF i <= Len(ready) THEN ready[i] ELSE Listener
    BY <1>1, <1>2, <1>3, <1>4, <1>5, Appended, Names DEF Typed
  <1>7. Typed'
    BY <1>1, <1>2, <1>3, <1>4, <1>5, <1>6, Names DEF Typed
  <1>8. Placed'
    BY <1>1, <1>2, <1>3, <1>4, <1>5, <1>6, Names DEF Typed, Placed
  <1>9. ListenerAt'
    BY <1>1, <1>2, <1>3, <1>4, <1>5, <1>6, Names DEF Typed, Placed, ListenerAt, InReady
  <1>10. WorkerAt'
    BY <1>1, <1>2, <1>3, <1>4, <1>5, <1>6, Names DEF Typed, Placed, ListenerAt, WorkerAt, InReady
  <1>11. OneOwner'
    BY <1>1, <1>2, <1>3, <1>4, <1>5, <1>6, Names DEF Typed, WorkerAt, OneOwner, HandOver
  <1>12. HandOver'
    <2>1. ~Offered'
      BY <1>1, <1>2, <1>3, <1>4, <1>5, <1>6, Names DEF Typed, Offered
    <2>2. \A v \in Worker : ~Signalled(v)'
      BY <1>1, <1>2, <1>3, <1>4, <1>5, <1>6, Names DEF Typed, Signalled
    <2>3. ASSUME NEW s \in Socket, conn'[s] = "accepted", \A v \in Worker : sock'[v] # s PROVE FALSE
      <3>1. sock'[w] = msgSocket /\ sock[w] = NoSocket /\ \A v \in Worker \ {w} : sock'[v] = sock[v]
        BY <1>1, <1>2, <1>3, <1>4, <1>5, <1>6, Names DEF Typed, WorkerAt
      <3>2. s # msgSocket /\ \A v \in Worker : sock[v] # s
        BY <2>3, <3>1, Names
      <3>3. QED
        BY <1>1, <1>2, <1>3, <1>4, <1>5, <1>6, <2>3, <3>2 DEF HandOver
    <2>4. QED
      BY <2>1, <2>2, <2>3 DEF HandOver
  <1>13. Spawning'
    <2>1. \A v \in Worker : ~Signalled(v)'
      BY <1>1, <1>2, <1>3, <1>4, <1>5, <1>6, Names DEF Typed, Signalled
    <2>2. ASSUME NEW v \in Worker, pc'[v] = "new" PROVE pc'[Listener] = "spawn" /\ RunsFirst(v)'
      <3>1. v # w /\ pc[v] = "new" /\ pc[Listener] = "spawn" /\ RunsFirst(v) /\ pc'[Listener] = "spawn"
        BY <1>1, <1>2, <1>3, <1>4, <1>5, <1>6, <2>2, Names DEF Typed, Spawning
      <3>2. PICK i \in 1..Len(ready) :
                ready[i] = v /\ i <= left /\ \A j \in 1..Len(ready) : ready[j] = Listener => i < j
        BY <1>1, <1>2, <1>3, <1>4, <1>5, <1>6, <3>1 DEF RunsFirst
      <3>3. i \in 1..Len(ready') /\ ready'[i] = v /\ \A j \in 1..Len(ready') : ready'[j] = Listener => i < j
        BY <1>1, <1>2, <1>3, <1>4, <1>5, <1>6, <3>2
      <3>4. QED
        BY <1>1, <1>2, <1>3, <1>4, <1>5, <1>6, <3>1, <3>2, <3>3, Names DEF RunsFirst
    <2>3. QED
      BY <2>1, <2>2 DEF Spawning
  <1>14. EndsLast'
    BY <1>1, <1>2, <1>3, <1>4, <1>5, <1>6, Names DEF Typed, ListenerAt, WorkerAt, EndsLast
  <1>15. CountIsExact'
    <2>1. Counted' = Counted
      BY <1>1, <1>2, <1>3, <1>4, <1>5, <1>6, Names DEF Typed, ListenerAt, WorkerAt, Counted
    <2>2. QED
      BY <1>1, <1>2, <1>3, <1>4, <1>5, <1>6, <2>1 DEF CountIsExact
  <1>16. QED
    BY <1>7, <1>8, <1>9, <1>10, <1>11, <1>12, <1>13, <1>14, <1>15 DEF Inv
\* The accept loop gives way.
LEMMA AcceptYieldsInv ==
    ASSUME Inv, AcceptYields, UNCHANGED signal
    PROVE  Inv'
  <1>1. /\ Typed /\ Placed /\ ListenerAt /\ WorkerAt /\ OneOwner
        /\ HandOver /\ Spawning /\ CountIsExact /\ EndsLast
    BY DEF Inv
  <1>2. /\ running = Listener /\ pc[Listener] = "accept" /\ running' = Nobody
        /\ ready' = Append(ready, Listener)
        /\ UNCHANGED <<phase, left, fresh, pc, wait, why, readq, young, msgSocket, sock, workers, conn, freed, signal>>
    BY Names DEF AcceptYields, sched
  <1>3. /\ ready' \in Seq(Coro) /\ Len(ready') = Len(ready) + 1 /\ Len(ready) \in Nat
        /\ \A i \in 1..(Len(ready) + 1) : ready'[i] = IF i <= Len(ready) THEN ready[i] ELSE Listener
    BY <1>1, <1>2, Appended, Names DEF Typed
  <1>4. \A v \in Worker : ~Signalled(v) /\ pc[v] # "new"
    BY <1>1, <1>2, <1>3, Names DEF Placed, HandOver, Spawning, Offered
  <1>5. Typed'
    BY <1>1, <1>2, <1>3, <1>4, Names DEF Typed
  <1>6. Placed'
    BY <1>1, <1>2, <1>3, <1>4, Names DEF Typed, Placed
  <1>7. ListenerAt'
    BY <1>1, <1>2, <1>3, <1>4, Names DEF Typed, Placed, ListenerAt, InReady
  <1>8. WorkerAt'
    BY <1>1, <1>2, <1>3, <1>4, Names DEF Typed, Placed, ListenerAt, WorkerAt, InReady
  <1>9. OneOwner'
    BY <1>1, <1>2, <1>3, <1>4, Names DEF Typed, WorkerAt, OneOwner, HandOver
  <1>10. HandOver'
    BY <1>1, <1>2, <1>3, <1>4, Names DEF Typed, Placed, ListenerAt, WorkerAt, OneOwner, HandOver, Offered, Signalled, InReady
  <1>11. Spawning'
    BY <1>1, <1>2, <1>3, <1>4, Names DEF Typed, Placed, ListenerAt, WorkerAt, Spawning, Signalled, RunsFirst
  <1>12. EndsLast'
    BY <1>1, <1>2, <1>3, <1>4, Names DEF Typed, ListenerAt, WorkerAt, EndsLast
  <1>13. CountIsExact'
    <2>1. Counted' = Counted
      BY <1>1, <1>2, <1>3, <1>4, Names DEF Typed, ListenerAt, WorkerAt, Counted
    <2>2. QED
      BY <1>1, <1>2, <1>3, <1>4, <2>1 DEF CountIsExact
  <1>14. QED
    BY <1>5, <1>6, <1>7, <1>8, <1>9, <1>10, <1>11, <1>12, <1>13 DEF Inv

\* Somebody took the socket: back to accept.
LEMMA OfferedTakenInv ==
    ASSUME Inv, ListenerOffered, why[Listener] # -2, UNCHANGED signal
    PROVE  Inv'
  <1>1. /\ Typed /\ Placed /\ ListenerAt /\ WorkerAt /\ OneOwner
        /\ HandOver /\ Spawning /\ CountIsExact /\ EndsLast
    BY DEF Inv
  <1>2. /\ running = Listener /\ pc[Listener] = "offer" /\ why[Listener] # -2
        /\ msgSocket' = NoSocket /\ pc' = [pc EXCEPT ![Listener] = "accept"]
        /\ UNCHANGED <<phase, left, fresh, ready, running, wait, why, readq, young, sock, workers, conn, freed, signal>>
    BY Names DEF ListenerOffered, sched
  <1>3. \A v \in Worker : ~Signalled(v) /\ pc[v] # "new"
    BY <1>1, <1>2, Names DEF Placed, HandOver, Spawning, Offered
  <1>4. Typed'
    BY <1>1, <1>2, <1>3, Names DEF Typed
  <1>5. Placed'
    BY <1>1, <1>2 DEF Placed
  <1>6. ListenerAt'
    BY <1>1, <1>2, <1>3, Names DEF Typed, Placed, ListenerAt, InReady
  <1>7. WorkerAt'
    BY <1>1, <1>2, Names DEF Typed, WorkerAt, InReady
  <1>8. OneOwner'
    BY <1>1, <1>2, <1>3, Names DEF Typed, WorkerAt, OneOwner, HandOver
  <1>9. HandOver'
    BY <1>1, <1>2, <1>3, Names DEF Typed, Placed, ListenerAt, WorkerAt, OneOwner, HandOver, Offered, Signalled, InReady
  <1>10. Spawning'
    BY <1>1, <1>2, <1>3, Names DEF Typed, Placed, ListenerAt, WorkerAt, Spawning, Signalled, RunsFirst
  <1>11. EndsLast'
    BY <1>1, <1>2, <1>3, Names DEF Typed, ListenerAt, WorkerAt, EndsLast
  <1>12. CountIsExact'
    <2>1. Counted' = Counted
      BY <1>1, <1>2, <1>3, Names DEF Typed, ListenerAt, WorkerAt, Counted
    <2>2. QED
      BY <1>1, <1>2, <1>3, <2>1 DEF CountIsExact
  <1>13. QED
    BY <1>4, <1>5, <1>6, <1>7, <1>8, <1>9, <1>10, <1>11, <1>12 DEF Inv

\* Somebody took the socket after a worker was created: back to accept.
LEMMA SpawnedTakenInv ==
    ASSUME Inv, ListenerSpawned, why[Listener] # -2, UNCHANGED signal
    PROVE  Inv'
  <1>1. /\ Typed /\ Placed /\ ListenerAt /\ WorkerAt /\ OneOwner
        /\ HandOver /\ Spawning /\ CountIsExact /\ EndsLast
    BY DEF Inv
  <1>2. /\ running = Listener /\ pc[Listener] = "spawn" /\ why[Listener] # -2
        /\ pc' = [pc EXCEPT ![Listener] = "accept"]
        /\ UNCHANGED <<phase, left, fresh, ready, running, wait, why, readq, young, msgSocket, sock, workers, conn, freed, signal>>
    BY Names DEF ListenerSpawned, sched
  <1>3. \A v \in Worker : ~Signalled(v) /\ pc[v] # "new"
    BY <1>1, <1>2, Names DEF HandOver, Spawning, Offered, RunsFirst
  <1>4. Typed'
    BY <1>1, <1>2, <1>3, Names DEF Typed
  <1>5. Placed'
    BY <1>1, <1>2, <1>3, Names DEF Typed, Placed
  <1>6. ListenerAt'
    BY <1>1, <1>2, <1>3, Names DEF Typed, Placed, ListenerAt, InReady
  <1>7. WorkerAt'
    BY <1>1, <1>2, <1>3, Names DEF Typed, Placed, ListenerAt, WorkerAt, InReady
  <1>8. OneOwner'
    BY <1>1, <1>2, <1>3, Names DEF Typed, WorkerAt, OneOwner, HandOver
  <1>9. HandOver'
    BY <1>1, <1>2, <1>3, Names DEF Typed, Placed, ListenerAt, WorkerAt, OneOwner, HandOver, Offered, Signalled, InReady
  <1>10. Spawning'
    BY <1>1, <1>2, <1>3, Names DEF Typed, Placed, ListenerAt, WorkerAt, Spawning, Signalled, RunsFirst
  <1>11. EndsLast'
    BY <1>1, <1>2, <1>3, Names DEF Typed, ListenerAt, WorkerAt, EndsLast
  <1>12. CountIsExact'
    <2>1. Counted' = Counted
      BY <1>1, <1>2, <1>3, Names DEF Typed, ListenerAt, WorkerAt, Counted
    <2>2. QED
      BY <1>1, <1>2, <1>3, <2>1 DEF CountIsExact
  <1>13. QED
    BY <1>4, <1>5, <1>6, <1>7, <1>8, <1>9, <1>10, <1>11, <1>12 DEF Inv

\* Nobody is there to be signalled: the accept loop waits again.
LEMMA SpawnedAloneInv ==
    ASSUME Inv, ListenerSpawned, why[Listener] = -2, readq = <<>>, UNCHANGED signal
    PROVE  Inv'
  <1>1. /\ Typed /\ Placed /\ ListenerAt /\ WorkerAt /\ OneOwner
        /\ HandOver /\ Spawning /\ CountIsExact /\ EndsLast
    BY DEF Inv
  <1>2. /\ running = Listener /\ pc[Listener] = "spawn" /\ why[Listener] = -2
        /\ running' = Nobody /\ wait' = [wait EXCEPT ![Listener] = "write_cond"]
        /\ fresh' = IF phase = "ready" THEN fresh ELSE fresh \cup {Listener}
        /\ young' = {}
        /\ UNCHANGED <<phase, left, ready, pc, why, readq, msgSocket, sock, workers, conn, freed, signal>>
    BY Names DEF ListenerSpawned, Block, SignalledReady, SignalledQueue, SignalledWhy, SignalledWaits, sched
  <1>3. \A v \in Worker : ~Signalled(v) /\ pc[v] # "new"
    BY <1>1, <1>2, Names DEF HandOver, Spawning, RunsFirst
  <1>4. Typed'
    BY <1>1, <1>2, <1>3, Names DEF Typed
  <1>5. Placed'
    BY <1>1, <1>2, <1>3, Names DEF Typed, Placed
  <1>6. ListenerAt'
    BY <1>1, <1>2, <1>3, Names DEF Typed, Placed, ListenerAt, InReady
  <1>7. WorkerAt'
    BY <1>1, <1>2, <1>3, Names DEF Typed, Placed, ListenerAt, WorkerAt, InReady
  <1>8. OneOwner'
    BY <1>1, <1>2, <1>3, Names DEF Typed, WorkerAt, OneOwner, HandOver
  <1>9. HandOver'
    BY <1>1, <1>2, <1>3, Names DEF Typed, Placed, ListenerAt, WorkerAt, OneOwner, HandOver, Offered, Signalled, InReady
  <1>10. Spawning'
    BY <1>1, <1>2, <1>3, Names DEF Typed, Placed, ListenerAt, WorkerAt, Spawning, Signalled, RunsFirst
  <1>11. EndsLast'
    BY <1>1, <1>2, <1>3, Names DEF Typed, ListenerAt, WorkerAt, EndsLast
  <1>12. CountIsExact'
    <2>1. Counted' = Counted
      BY <1>1, <1>2, <1>3, Names DEF Typed, ListenerAt, WorkerAt, Counted
    <2>2. QED
      BY <1>1, <1>2, <1>3, <2>1 DEF CountIsExact
  <1>13. QED
    BY <1>4, <1>5, <1>6, <1>7, <1>8, <1>9, <1>10, <1>11, <1>12 DEF Inv

\* The accept loop waits for the workers to leave.
LEMMA DrainsInv ==
    ASSUME Inv, running = Listener, pc[Listener] = "drain", Block(Listener, "sleep", wait),
           UNCHANGED <<pc, freed, ready, why, readq, young, msgSocket, sock, workers, conn, signal>>
    PROVE  Inv'
  <1>1. /\ Typed /\ Placed /\ ListenerAt /\ WorkerAt /\ OneOwner
        /\ HandOver /\ Spawning /\ CountIsExact /\ EndsLast
    BY DEF Inv
  <1>2. /\ running = Listener /\ pc[Listener] = "drain" /\ running' = Nobody
        /\ wait' = [wait EXCEPT ![Listener] = "sleep"]
        /\ fresh' = IF phase = "ready" THEN fresh ELSE fresh \cup {Listener}
        /\ UNCHANGED <<phase, left, ready, pc, why, readq, young, msgSocket, sock, workers, conn, freed, signal>>
    BY Names DEF Block
  <1>3. Typed'
    BY <1>1, <1>2, Names DEF Typed
  <1>4. Placed'
    BY <1>1, <1>2, Names DEF Typed, Placed
  <1>5. ListenerAt'
    BY <1>1, <1>2, Names DEF Typed, Placed, ListenerAt, InReady
  <1>6. WorkerAt'
    BY <1>1, <1>2, Names DEF Typed, Placed, ListenerAt, WorkerAt, InReady
  <1>7. OneOwner'
    BY <1>1, <1>2, Names DEF Typed, WorkerAt, OneOwner, HandOver
  <1>8. HandOver'
    BY <1>1, <1>2, Names DEF Typed, Placed, ListenerAt, WorkerAt, OneOwner, HandOver, Offered, Signalled, InReady
  <1>9. Spawning'
    BY <1>1, <1>2, Names DEF Typed, Placed, ListenerAt, WorkerAt, Spawning, Signalled, RunsFirst
  <1>10. EndsLast'
    BY <1>1, <1>2, Names DEF Typed, ListenerAt, WorkerAt, EndsLast
  <1>11. CountIsExact'
    <2>1. Counted' = Counted
      BY <1>1, <1>2, Names DEF Typed, ListenerAt, WorkerAt, Counted
    <2>2. QED
      BY <1>1, <1>2, <2>1 DEF CountIsExact
  <1>12. QED
    BY <1>3, <1>4, <1>5, <1>6, <1>7, <1>8, <1>9, <1>10, <1>11 DEF Inv

\* All workers have left: the conditions are freed.
LEMMA DrainedInv ==
    ASSUME Inv, running = Listener, pc[Listener] = "drain", workers <= 0, freed' = TRUE,
           pc' = [pc EXCEPT ![Listener] = "done"], running' = Nobody,
           UNCHANGED <<sched, wait, ready, why, readq, young, msgSocket, sock, workers, conn, signal>>
    PROVE  Inv'
  <1>1. /\ Typed /\ Placed /\ ListenerAt /\ WorkerAt /\ OneOwner
        /\ HandOver /\ Spawning /\ CountIsExact /\ EndsLast
    BY DEF Inv
  <1>2. /\ running = Listener /\ pc[Listener] = "drain" /\ workers <= 0 /\ running' = Nobody
        /\ freed' = TRUE /\ pc' = [pc EXCEPT ![Listener] = "done"]
        /\ UNCHANGED <<phase, left, fresh, ready, wait, why, readq, young, msgSocket, sock, workers, conn, signal>>
    BY Names DEF sched
  <1>3. Counted = {}
    <2>1. IsFiniteSet(Counted) /\ Cardinality(Counted) \in Nat
      BY PoolAssumption, FS_Subset, FS_CardinalityType DEF Counted
    <2>2. Cardinality(Counted) = 0
      BY <1>1, <1>2, <2>1 DEF CountIsExact
    <2>3. QED
      BY <2>1, <2>2, FS_EmptySet
  <1>4. \A v \in Worker : pc[v] \in {"none", "gone"}
    BY <1>1, <1>2, <1>3 DEF Counted, WorkerAt, Spawning
  <1>5. Typed'
    BY <1>1, <1>2, <1>3, <1>4, Names DEF Typed
  <1>6. Placed'
    BY <1>1, <1>2, <1>3, <1>4, Names DEF Typed, Placed
  <1>7. ListenerAt'
    BY <1>1, <1>2, <1>3, <1>4, Names DEF Typed, Placed, ListenerAt, InReady
  <1>8. WorkerAt'
    BY <1>1, <1>2, <1>3, <1>4, Names DEF Typed, Placed, ListenerAt, WorkerAt, InReady
  <1>9. OneOwner'
    BY <1>1, <1>2, <1>3, <1>4, Names DEF Typed, WorkerAt, OneOwner, HandOver
  <1>10. HandOver'
    BY <1>1, <1>2, <1>3, <1>4, Names DEF Typed, Placed, ListenerAt, WorkerAt, OneOwner, HandOver, Offered, Signalled, InReady
  <1>11. Spawning'
    BY <1>1, <1>2, <1>3, <1>4, Names DEF Typed, Placed, ListenerAt, WorkerAt, Spawning, Signalled, RunsFirst
  <1>12. EndsLast'
    BY <1>1, <1>2, <1>3, <1>4, Names DEF Typed, ListenerAt, WorkerAt, EndsLast
  <1>13. CountIsExact'
    <2>1. Counted' = Counted
      BY <1>1, <1>2, <1>3, <1>4, Names DEF Typed, ListenerAt, WorkerAt, Counted
    <2>2. QED
      BY <1>1, <1>2, <1>3, <1>4, <2>1 DEF CountIsExact
  <1>14. QED
    BY <1>5, <1>6, <1>7, <1>8, <1>9, <1>10, <1>11, <1>12, <1>13 DEF Inv
\* A connection comes and no worker waits for one.
LEMMA ReturnsAloneInv ==
    ASSUME Inv, NEW s \in Socket, AcceptReturns(s), readq = <<>>, UNCHANGED signal
    PROVE  Inv'
  <1>1. /\ Typed /\ Placed /\ ListenerAt /\ WorkerAt /\ OneOwner
        /\ HandOver /\ Spawning /\ CountIsExact /\ EndsLast
    BY DEF Inv
  <1>2. /\ running = Listener /\ pc[Listener] = "accept" /\ conn[s] = "backlog"
        /\ conn' = [conn EXCEPT ![s] = "accepted"] /\ msgSocket' = s
        /\ pc' = [pc EXCEPT ![Listener] = "offer"]
        /\ running' = Nobody /\ wait' = [wait EXCEPT ![Listener] = "write_cond"]
        /\ fresh' = IF phase = "ready" THEN fresh ELSE fresh \cup {Listener}
        /\ young' = {}
        /\ UNCHANGED <<phase, left, ready, why, readq, sock, workers, freed, signal>>
    BY Names DEF AcceptReturns, Arrives, Block, SignalledReady, SignalledQueue, SignalledWhy, SignalledWaits, sched
  <1>3. \A v \in Worker : ~Signalled(v) /\ pc[v] # "new"
    BY <1>1, <1>2, Names DEF Placed, HandOver, Spawning, Offered
  <1>4. \A v \in Worker : sock[v] # s
    BY <1>1, <1>2, <1>3, Names DEF Typed, OneOwner
  <1>5. Typed'
    BY <1>1, <1>2, <1>3, <1>4, Names DEF Typed
  <1>6. Placed'
    BY <1>1, <1>2, <1>3, <1>4, Names DEF Typed, Placed
  <1>7. ListenerAt'
    BY <1>1, <1>2, <1>3, <1>4, Names DEF Typed, Placed, ListenerAt, InReady
  <1>8. WorkerAt'
    BY <1>1, <1>2, <1>3, <1>4, Names DEF Typed, Placed, ListenerAt, WorkerAt, InReady
  <1>9. OneOwner'
    BY <1>1, <1>2, <1>3, <1>4, Names DEF Typed, WorkerAt, OneOwner, HandOver
  <1>10. HandOver'
    BY <1>1, <1>2, <1>3, <1>4, Names DEF Typed, Placed, ListenerAt, WorkerAt, OneOwner, HandOver, Offered, Signalled, InReady
  <1>11. Spawning'
    BY <1>1, <1>2, <1>3, <1>4, Names DEF Typed, Placed, ListenerAt, WorkerAt, Spawning, Signalled, RunsFirst
  <1>12. EndsLast'
    BY <1>1, <1>2, <1>3, <1>4, Names DEF Typed, ListenerAt, WorkerAt, EndsLast
  <1>13. CountIsExact'
    <2>1. Counted' = Counted
      BY <1>1, <1>2, <1>3, <1>4, Names DEF Typed, ListenerAt, WorkerAt, Counted
    <2>2. QED
      BY <1>1, <1>2, <1>3, <1>4, <2>1 DEF CountIsExact
  <1>14. QED
    BY <1>5, <1>6, <1>7, <1>8, <1>9, <1>10, <1>11, <1>12, <1>13 DEF Inv

\* A connection comes: the worker that waited longest is signalled.
LEMMA ReturnsSignalsInv ==
    ASSUME Inv, NEW s \in Socket, NEW h, h = Head(readq), readq # <<>>, AcceptReturns(s), UNCHANGED signal
    PROVE  Inv'
  <1>1. /\ Typed /\ Placed /\ ListenerAt /\ WorkerAt /\ OneOwner
        /\ HandOver /\ Spawning /\ CountIsExact /\ EndsLast
    BY DEF Inv
  <1>2. /\ running = Listener /\ pc[Listener] = "accept" /\ conn[s] = "backlog"
        /\ conn' = [conn EXCEPT ![s] = "accepted"] /\ msgSocket' = s
        /\ pc' = [pc EXCEPT ![Listener] = "offer"]
        /\ running' = Nobody /\ wait' = [[wait EXCEPT ![h] = "none"] EXCEPT ![Listener] = "write_cond"]
        /\ fresh' = IF phase = "ready" THEN fresh ELSE fresh \cup {Listener}
        /\ ready' = Append(ready, h) /\ readq' = Tail(readq) /\ why' = [why EXCEPT ![h] = 0]
        /\ young' = {}
        /\ UNCHANGED <<phase, left, sock, workers, freed, signal>>
    BY Names DEF AcceptReturns, Arrives, Block, SignalledReady, SignalledQueue, SignalledWhy, SignalledWaits, sched
  <1>3. \A v \in Worker : ~Signalled(v) /\ pc[v] # "new"
    BY <1>1, <1>2, Names DEF Placed, HandOver, Spawning, Offered
  <1>4. \A v \in Worker : sock[v] # s
    BY <1>1, <1>2, <1>3, Names DEF Typed, OneOwner
  <1>5. /\ h \in Worker /\ wait[h] = "read_cond" /\ pc[h] = "loop" /\ sock[h] = NoSocket /\ ~InReady(h)
        /\ readq' \in Seq(Worker) /\ Len(readq) \in Nat \ {0} /\ Len(readq') = Len(readq) - 1 /\ readq[1] = h
        /\ \A i \in 1..(Len(readq) - 1) : readq'[i] = readq[i + 1]
    <2>1. readq \in Seq(Worker)
      BY <1>1 DEF Typed
    <2>2. /\ h = readq[1] /\ h \in Worker /\ Len(readq) \in Nat \ {0} /\ Len(readq') = Len(readq) - 1
          /\ readq' \in Seq(Worker) /\ \A i \in 1..(Len(readq) - 1) : readq'[i] = readq[i + 1]
      BY <1>2, <2>1, Popped
    <2>3. wait[h] = "read_cond"
      BY <1>1, <2>2 DEF Placed
    <2>4. QED
      BY <1>1, <2>2, <2>3, Names DEF Typed, Placed, WorkerAt, InReady
  <1>6. /\ ready' \in Seq(Coro) /\ Len(ready') = Len(ready) + 1 /\ Len(ready) \in Nat
        /\ \A i \in 1..(Len(ready) + 1) : ready'[i] = IF i <= Len(ready) THEN ready[i] ELSE h
    BY <1>1, <1>2, <1>3, <1>4, <1>5, Appended, Names DEF Typed
  <1>7. Typed'
    BY <1>1, <1>2, <1>3, <1>4, <1>5, <1>6, Names DEF Typed
  <1>8. Placed'
    <2>1. /\ \A c \in Coro : c # h /\ c # Listener => wait'[c] = wait[c]
          /\ wait'[h] = "none" /\ wait'[Listener] = "write_cond" /\ ~InReady(Listener)
      BY <1>1, <1>2, <1>3, <1>4, <1>5, <1>6, Names DEF Typed, Placed, InReady
    <2>2. \A i \in 1..Len(ready') : wait'[ready'[i]] = "none" /\ ready'[i] # running'
      <3>1. ASSUME NEW i \in 1..Len(ready) PROVE wait[ready[i]] = "none" /\ ready[i] \in Coro /\ ready[i] # h /\ ready[i] # Listener
        BY <1>1, <1>5, <2>1, ElementOfSeq, Names DEF Typed, Placed, InReady
      <3>2. ASSUME NEW i \in 1..Len(ready') PROVE wait'[ready'[i]] = "none" /\ ready'[i] # Nobody
        <4>1. CASE i <= Len(ready)
          <5>1. i \in 1..Len(ready) /\ ready'[i] = ready[i]
            BY <1>6, <4>1
          <5>2. QED
            BY <2>1, <3>1, <5>1, Names
        <4>2. CASE ~(i <= Len(ready))
          <5>1. ready'[i] = h
            BY <1>6, <4>2
          <5>2. QED
            BY <2>1, <1>5, <5>1, Names
        <4>3. QED
          BY <4>1, <4>2
      <3>3. QED
        BY <1>2, <3>2
    <2>3. \A i, j \in 1..Len(ready') : ready'[i] = ready'[j] => i = j
      BY <1>1, <1>2, <1>3, <1>4, <1>5, <1>6 DEF Placed, InReady
    <2>4. ASSUME NEW i \in 1..Len(readq') PROVE /\ wait'[readq'[i]] = "read_cond"
                                                /\ \A j \in 1..Len(readq') : readq'[i] = readq'[j] => i = j
      <3>1. i + 1 \in 1..Len(readq) /\ readq'[i] = readq[i + 1] /\ readq[i + 1] \in Worker
        BY <1>5, <1>1, <2>4, ElementOfSeq DEF Typed
      <3>2. wait[readq[i + 1]] = "read_cond" /\ readq[i + 1] # h
        BY <1>1, <1>5, <3>1 DEF Placed
      <3>3. \A j \in 1..Len(readq') : readq'[i] = readq'[j] => i = j
        BY <1>1, <1>5, <3>1 DEF Placed
      <3>4. QED
        BY <2>1, <3>1, <3>2, <3>3, Names
    <2>5. running' = Nobody /\ left' <= Len(ready')
      BY <1>1, <1>2, <1>6 DEF Placed, Typed
    <2>6. QED
      BY <2>2, <2>3, <2>4, <2>5 DEF Placed
  <1>9. ListenerAt'
    BY <1>1, <1>2, <1>3, <1>4, <1>5, <1>6, Names DEF Typed, Placed, ListenerAt, InReady
  <1>10. WorkerAt'
    BY <1>1, <1>2, <1>3, <1>4, <1>5, <1>6, Names DEF Typed, Placed, ListenerAt, WorkerAt, InReady
  <1>11. OneOwner'
    BY <1>1, <1>2, <1>3, <1>4, <1>5, <1>6, Names DEF Typed, WorkerAt, OneOwner, HandOver
  <1>12. HandOver'
    BY <1>1, <1>2, <1>3, <1>4, <1>5, <1>6, Names DEF Typed, Placed, ListenerAt, WorkerAt, OneOwner, HandOver, Offered, Signalled, InReady
  <1>13. Spawning'
    BY <1>1, <1>2, <1>3, <1>4, <1>5, <1>6, Names DEF Typed, Placed, ListenerAt, WorkerAt, Spawning, Signalled, RunsFirst
  <1>14. EndsLast'
    BY <1>1, <1>2, <1>3, <1>4, <1>5, <1>6, Names DEF Typed, ListenerAt, WorkerAt, EndsLast
  <1>15. CountIsExact'
    <2>1. Counted' = Counted
      BY <1>1, <1>2, <1>3, <1>4, <1>5, <1>6, Names DEF Typed, ListenerAt, WorkerAt, Counted
    <2>2. QED
      BY <1>1, <1>2, <1>3, <1>4, <1>5, <1>6, <2>1 DEF CountIsExact
  <1>16. QED
    BY <1>7, <1>8, <1>9, <1>10, <1>11, <1>12, <1>13, <1>14, <1>15 DEF Inv

\* Nobody took the socket yet: the accept loop signals another worker.
LEMMA SpawnedSignalsInv ==
    ASSUME Inv, NEW h, h = Head(readq), readq # <<>>, ListenerSpawned, why[Listener] = -2, UNCHANGED signal
    PROVE  Inv'
  <1>1. /\ Typed /\ Placed /\ ListenerAt /\ WorkerAt /\ OneOwner
        /\ HandOver /\ Spawning /\ CountIsExact /\ EndsLast
    BY DEF Inv
  <1>2. /\ running = Listener /\ pc[Listener] = "spawn" /\ why[Listener] = -2
        /\ running' = Nobody /\ wait' = [[wait EXCEPT ![h] = "none"] EXCEPT ![Listener] = "write_cond"]
        /\ fresh' = IF phase = "ready" THEN fresh ELSE fresh \cup {Listener}
        /\ ready' = Append(ready, h) /\ readq' = Tail(readq) /\ why' = [why EXCEPT ![h] = 0]
        /\ young' = {}
        /\ UNCHANGED <<phase, left, pc, msgSocket, sock, workers, conn, freed, signal>>
    BY Names DEF ListenerSpawned, Block, SignalledReady, SignalledQueue, SignalledWhy, SignalledWaits, sched
  <1>3. \A v \in Worker : ~Signalled(v) /\ pc[v] # "new"
    BY <1>1, <1>2, Names DEF HandOver, Spawning, RunsFirst
  <1>4. /\ h \in Worker /\ wait[h] = "read_cond" /\ pc[h] = "loop" /\ sock[h] = NoSocket /\ ~InReady(h)
        /\ readq' \in Seq(Worker) /\ Len(readq) \in Nat \ {0} /\ Len(readq') = Len(readq) - 1 /\ readq[1] = h
        /\ \A i \in 1..(Len(readq) - 1) : readq'[i] = readq[i + 1]
    <2>1. readq \in Seq(Worker)
      BY <1>1 DEF Typed
    <2>2. /\ h = readq[1] /\ h \in Worker /\ Len(readq) \in Nat \ {0} /\ Len(readq') = Len(readq) - 1
          /\ readq' \in Seq(Worker) /\ \A i \in 1..(Len(readq) - 1) : readq'[i] = readq[i + 1]
      BY <1>2, <2>1, Popped
    <2>3. wait[h] = "read_cond"
      BY <1>1, <2>2 DEF Placed
    <2>4. QED
      BY <1>1, <2>2, <2>3, Names DEF Typed, Placed, WorkerAt, InReady
  <1>5. /\ ready' \in Seq(Coro) /\ Len(ready') = Len(ready) + 1 /\ Len(ready) \in Nat
        /\ \A i \in 1..(Len(ready) + 1) : ready'[i] = IF i <= Len(ready) THEN ready[i] ELSE h
    BY <1>1, <1>2, <1>3, <1>4, Appended, Names DEF Typed
  <1>6. Typed'
    BY <1>1, <1>2, <1>3, <1>4, <1>5, Names DEF Typed
  <1>7. Placed'
    <2>1. /\ \A c \in Coro : c # h /\ c # Listener => wait'[c] = wait[c]
          /\ wait'[h] = "none" /\ wait'[Listener] = "write_cond" /\ ~InReady(Listener)
      BY <1>1, <1>2, <1>3, <1>4, <1>5, Names DEF Typed, Placed, InReady
    <2>2. \A i \in 1..Len(ready') : wait'[ready'[i]] = "none" /\ ready'[i] # running'
      <3>1. ASSUME NEW i \in 1..Len(ready) PROVE wait[ready[i]] = "none" /\ ready[i] \in Coro /\ ready[i] # h /\ ready[i] # Listener
        BY <1>1, <1>4, <2>1, ElementOfSeq, Names DEF Typed, Placed, InReady
      <3>2. ASSUME NEW i \in 1..Len(ready') PROVE wait'[ready'[i]] = "none" /\ ready'[i] # Nobody
        <4>1. CASE i <= Len(ready)
          <5>1. i \in 1..Len(ready) /\ ready'[i] = ready[i]
            BY <1>5, <4>1
          <5>2. QED
            BY <2>1, <3>1, <5>1, Names
        <4>2. CASE ~(i <= Len(ready))
          <5>1. ready'[i] = h
            BY <1>5, <4>2
          <5>2. QED
            BY <2>1, <1>4, <5>1, Names
        <4>3. QED
          BY <4>1, <4>2
      <3>3. QED
        BY <1>2, <3>2
    <2>3. \A i, j \in 1..Len(ready') : ready'[i] = ready'[j] => i = j
      BY <1>1, <1>2, <1>3, <1>4, <1>5 DEF Placed, InReady
    <2>4. ASSUME NEW i \in 1..Len(readq') PROVE /\ wait'[readq'[i]] = "read_cond"
                                                /\ \A j \in 1..Len(readq') : readq'[i] = readq'[j] => i = j
      <3>1. i + 1 \in 1..Len(readq) /\ readq'[i] = readq[i + 1] /\ readq[i + 1] \in Worker
        BY <1>4, <1>1, <2>4, ElementOfSeq DEF Typed
      <3>2. wait[readq[i + 1]] = "read_cond" /\ readq[i + 1] # h
        BY <1>1, <1>4, <3>1 DEF Placed
      <3>3. \A j \in 1..Len(readq') : readq'[i] = readq'[j] => i = j
        BY <1>1, <1>4, <3>1 DEF Placed
      <3>4. QED
        BY <2>1, <3>1, <3>2, <3>3, Names
    <2>5. running' = Nobody /\ left' <= Len(ready')
      BY <1>1, <1>2, <1>5 DEF Placed, Typed
    <2>6. QED
      BY <2>2, <2>3, <2>4, <2>5 DEF Placed
  <1>8. ListenerAt'
    BY <1>1, <1>2, <1>3, <1>4, <1>5, Names DEF Typed, Placed, ListenerAt, InReady
  <1>9. WorkerAt'
    BY <1>1, <1>2, <1>3, <1>4, <1>5, Names DEF Typed, Placed, ListenerAt, WorkerAt, InReady
  <1>10. OneOwner'
    BY <1>1, <1>2, <1>3, <1>4, <1>5, Names DEF Typed, WorkerAt, OneOwner, HandOver
  <1>11. HandOver'
    BY <1>1, <1>2, <1>3, <1>4, <1>5, Names DEF Typed, Placed, ListenerAt, WorkerAt, OneOwner, HandOver, Offered, Signalled, InReady
  <1>12. Spawning'
    BY <1>1, <1>2, <1>3, <1>4, <1>5, Names DEF Typed, Placed, ListenerAt, WorkerAt, Spawning, Signalled, RunsFirst
  <1>13. EndsLast'
    BY <1>1, <1>2, <1>3, <1>4, <1>5, Names DEF Typed, ListenerAt, WorkerAt, EndsLast
  <1>14. CountIsExact'
    <2>1. Counted' = Counted
      BY <1>1, <1>2, <1>3, <1>4, <1>5, Names DEF Typed, ListenerAt, WorkerAt, Counted
    <2>2. QED
      BY <1>1, <1>2, <1>3, <1>4, <1>5, <2>1 DEF CountIsExact
  <1>15. QED
    BY <1>6, <1>7, <1>8, <1>9, <1>10, <1>11, <1>12, <1>13, <1>14 DEF Inv

\* Nobody took the socket in time: a worker is created.
LEMMA OfferedSpawnsInv ==
    ASSUME Inv, NEW b \in Worker, running = Listener, pc[Listener] = "offer", why[Listener] = -2, pc[b] = "none",
           pc' = [pc EXCEPT ![Listener] = "spawn", ![b] = "new"], ready' = Append(ready, b),
           Block(Listener, "write_cond", wait), young' = {},
           UNCHANGED <<why, readq, msgSocket, sock, workers, conn, freed, signal>>
    PROVE  Inv'
  <1>1. /\ Typed /\ Placed /\ ListenerAt /\ WorkerAt /\ OneOwner
        /\ HandOver /\ Spawning /\ CountIsExact /\ EndsLast
    BY DEF Inv
  <1>2. /\ running = Listener /\ pc[Listener] = "offer" /\ why[Listener] = -2 /\ pc[b] = "none"
        /\ pc' = [pc EXCEPT ![Listener] = "spawn", ![b] = "new"] /\ ready' = Append(ready, b)
        /\ running' = Nobody /\ wait' = [wait EXCEPT ![Listener] = "write_cond"]
        /\ fresh' = IF phase = "ready" THEN fresh ELSE fresh \cup {Listener}
        /\ young' = {}
        /\ UNCHANGED <<phase, left, why, readq, msgSocket, sock, workers, conn, freed, signal>>
    BY Names DEF Block
  <1>3. phase = "expire" /\ wait[b] = "none" /\ ~InReady(b) /\ ~InReady(Listener) /\ sock[b] = NoSocket
    <2>1. phase = "expire" /\ sock[b] = NoSocket
      BY <1>1, <1>2 DEF ListenerAt, WorkerAt
    <2>2. wait[b] = "none"
      BY <1>1, <1>2 DEF WorkerAt
    <2>3. ~InReady(b)
      BY <1>1, <1>2 DEF WorkerAt
    <2>4. ~InReady(Listener)
      BY <1>1, running = Listener DEF Placed, InReady
    <2>5. QED
      BY <2>1, <2>2, <2>3, <2>4
  <1>4. /\ ready' \in Seq(Coro) /\ Len(ready') = Len(ready) + 1 /\ Len(ready) \in Nat
        /\ \A i \in 1..(Len(ready) + 1) : ready'[i] = IF i <= Len(ready) THEN ready[i] ELSE b
    BY <1>1, <1>2, <1>3, Appended, Names DEF Typed
  <1>5. /\ b # Listener /\ pc'[Listener] = "spawn" /\ pc'[b] = "new"
        /\ \A c \in Coro : c # b /\ c # Listener => pc'[c] = pc[c]
        /\ wait'[Listener] = "write_cond" /\ \A c \in Coro : c # Listener => wait'[c] = wait[c]
    BY <1>1, <1>2, Names DEF Typed
  <1>6. Typed'
    <2>1. pc' \in [Coro -> {"accept", "offer", "spawn", "drain", "done",
                           "none", "new", "loop", "probe", "serve", "gone"}]
      BY <1>1, <1>2, Names DEF Typed
    <2>2. wait' \in [Coro -> {"none", "io", "read_cond", "write_cond", "sleep"}] /\ fresh' \subseteq Coro
      BY <1>1, <1>2, Names DEF Typed
    <2>3. QED
      BY <1>1, <1>2, <1>4, <2>1, <2>2, Names DEF Typed
  <1>7. Placed'
    <2>1. \A i \in 1..Len(ready) : ready[i] \in Coro /\ ready[i] # b /\ ready[i] # Listener /\ wait[ready[i]] = "none"
      BY <1>1, <1>3, ElementOfSeq DEF Typed, Placed, InReady
    <2>2. \A i \in 1..Len(ready') : wait'[ready'[i]] = "none" /\ ready'[i] # Nobody
      BY <1>3, <1>4, <1>5, <2>1, Names
    <2>3. \A i, j \in 1..Len(ready') : ready'[i] = ready'[j] => i = j
      BY <1>1, <1>4, <2>1 DEF Placed
    <2>4. \A i \in 1..Len(readq) : readq[i] \in Worker /\ wait'[readq[i]] = wait[readq[i]]
      BY <1>1, <1>5, ElementOfSeq, Names DEF Typed
    <2>5. running' = Nobody /\ readq' = readq /\ left' <= Len(ready')
      BY <1>1, <1>2, <1>4 DEF Placed, Typed
    <2>6. QED
      BY <1>1, <2>2, <2>3, <2>4, <2>5 DEF Placed
  <1>8. ListenerAt'
    BY <1>1, <1>2, <1>3, <1>4, <1>5, Names DEF Typed, Placed, ListenerAt, InReady
  <1>9. WorkerAt'
    BY <1>1, <1>2, <1>3, <1>4, <1>5, Names DEF Typed, Placed, ListenerAt, WorkerAt, InReady
  <1>10. OneOwner'
    BY <1>1, <1>2, <1>3, <1>4, <1>5, Names DEF Typed, WorkerAt, OneOwner, HandOver
  <1>11. HandOver'
    BY <1>1, <1>2, <1>3, <1>4, <1>5, Names DEF Typed, Placed, ListenerAt, WorkerAt, OneOwner, HandOver, Offered, Signalled, InReady
  <1>12. Spawning'
    <2>1. phase' = "expire" /\ Listener \in fresh' /\ wait'[Listener] = "write_cond" /\ running' # Listener
      BY <1>2, <1>3, <1>5, Names
    <2>2. \A v \in Worker : InReady(v)' => RunsFirst(v)'
      BY <2>1 DEF InReady, RunsFirst
    <2>3. \A v \in Worker : InReady(v) => InReady(v)'
      BY <1>4 DEF InReady
    <2>4. \A v \in Worker : pc[v] # "new"
      BY <1>1, <1>2 DEF Spawning
    <2>5. InReady(b)'
      BY <1>4 DEF InReady
    <2>6. \A v \in Worker : Signalled(v)' => InReady(v)
      BY <1>1, <1>2, <1>5, Names DEF HandOver, Signalled
    <2>7. QED
      BY <1>5, <2>2, <2>3, <2>4, <2>5, <2>6, Names DEF Spawning
  <1>13. EndsLast'
    BY <1>1, <1>2, <1>3, <1>4, <1>5, Names DEF Typed, ListenerAt, WorkerAt, EndsLast
  <1>14. CountIsExact'
    <2>1. Counted' = Counted
      BY <1>1, <1>2, <1>3, <1>4, <1>5, Names DEF Typed, ListenerAt, WorkerAt, Counted
    <2>2. QED
      BY <1>1, <1>2, <1>3, <1>4, <1>5, <2>1 DEF CountIsExact
  <1>15. QED
    BY <1>6, <1>7, <1>8, <1>9, <1>10, <1>11, <1>12, <1>13, <1>14 DEF Inv
\* The accept loop ends: every worker that waits is woken.
LEMMA AcceptFailsInv ==
    ASSUME Inv, AcceptFails, UNCHANGED signal
    PROVE  Inv'
  <1>1. /\ Typed /\ Placed /\ ListenerAt /\ WorkerAt /\ OneOwner
        /\ HandOver /\ Spawning /\ CountIsExact /\ EndsLast
    BY DEF Inv
  <1>2. /\ running = Listener /\ pc[Listener] = "accept" /\ msgSocket' = NoSocket
        /\ ready' = ready \o readq /\ readq' = <<>>
        /\ wait' = [c \in Coro |-> IF wait[c] = "read_cond" THEN "none" ELSE wait[c]]
        /\ why' = [c \in Coro |-> IF wait[c] = "read_cond" THEN 0 ELSE why[c]]
        /\ pc' = [pc EXCEPT ![Listener] = "drain"]
        /\ UNCHANGED <<phase, left, fresh, running, young, sock, workers, conn, freed, signal>>
    BY Names DEF AcceptFails, sched
  <1>3. \A v \in Worker : ~Signalled(v) /\ pc[v] # "new"
    BY <1>1, <1>2, Names DEF Placed, HandOver, Spawning, Offered
  <1>4. /\ ready \in Seq(Coro) /\ readq \in Seq(Coro) /\ readq \in Seq(Worker) /\ Len(ready) \in Nat /\ Len(readq) \in Nat
        /\ \A i \in 1..Len(ready) : ready[i] \in Coro /\ wait[ready[i]] = "none" /\ ready[i] # Listener
        /\ \A i \in 1..Len(readq) : readq[i] \in Worker /\ wait[readq[i]] = "read_cond"
    <2>1. ready \in Seq(Coro) /\ readq \in Seq(Worker) /\ readq \in Seq(Coro)
      BY <1>1, Names, SeqMonotonic DEF Typed
    <2>2. /\ \A i \in 1..Len(ready) : ready[i] \in Coro
          /\ \A i \in 1..Len(readq) : readq[i] \in Worker
          /\ Len(ready) \in Nat /\ Len(readq) \in Nat
      BY <2>1, ElementOfSeq, LenProperties
    <2>3. QED
      BY <1>1, <1>2, <2>1, <2>2 DEF Placed
  <1>5. /\ ready' \in Seq(Coro) /\ Len(ready') = Len(ready) + Len(readq)
        /\ \A i \in 1..Len(ready') : ready'[i] = IF i <= Len(ready) THEN ready[i] ELSE readq[i - Len(ready)]
    BY <1>2, <1>4, ConcatProperties
  <1>6. /\ \A i \in 1..Len(ready) : ready'[i] = ready[i] /\ i \in 1..Len(ready')
        /\ \A i \in 1..Len(readq) : ready'[Len(ready) + i] = readq[i] /\ Len(ready) + i \in 1..Len(ready')
        /\ \A i \in 1..Len(ready') : \/ i \in 1..Len(ready) /\ ready'[i] = ready[i]
                                     \/ i - Len(ready) \in 1..Len(readq) /\ ready'[i] = readq[i - Len(ready)]
    <2>1. ASSUME NEW i \in 1..Len(readq) PROVE ready'[Len(ready) + i] = readq[i] /\ Len(ready) + i \in 1..Len(ready')
      <3>1. Len(ready) + i \in 1..Len(ready') /\ ~(Len(ready) + i <= Len(ready)) /\ (Len(ready) + i) - Len(ready) = i
        BY <1>4, <1>5, <2>1
      <3>2. QED
        BY <1>5, <3>1
    <2>2. QED
      BY <1>4, <1>5, <2>1
  <1>7. Typed'
    BY <1>1, <1>2, <1>3, <1>4, <1>5, <1>6, Names DEF Typed
  <1>8. Placed'
    <2>1. \A i \in 1..Len(ready') : wait'[ready'[i]] = "none" /\ ready'[i] # running'
      BY <1>2, <1>4, <1>6, Names
    <2>2. \A i, j \in 1..Len(ready') : ready'[i] = ready'[j] => i = j
      <3>1. SUFFICES ASSUME NEW i \in 1..Len(ready'), NEW j \in 1..Len(ready'), ready'[i] = ready'[j] PROVE i = j
        OBVIOUS
      <3>2. CASE i \in 1..Len(ready) /\ j \in 1..Len(ready)
        BY <1>1, <1>6, <3>1, <3>2 DEF Placed
      <3>3. CASE i \notin 1..Len(ready) /\ j \notin 1..Len(ready)
        <4>1. readq[i - Len(ready)] = readq[j - Len(ready)] /\ i - Len(ready) \in 1..Len(readq) /\ j - Len(ready) \in 1..Len(readq)
          BY <1>6, <3>1, <3>3
        <4>2. i - Len(ready) = j - Len(ready)
          BY <1>1, <4>1 DEF Placed
        <4>3. QED
          BY <1>4, <1>5, <4>2
      <3>4. ASSUME NEW m \in 1..Len(ready'), NEW n \in 1..Len(ready'), m \in 1..Len(ready), n \notin 1..Len(ready)
            PROVE  ready'[m] # ready'[n]
        <4>1. wait[ready'[m]] = "none"
          <5>1. ready'[m] = ready[m]
            BY <1>6, <3>4
          <5>2. QED
            BY <1>4, <3>4, <5>1
        <4>2. wait[ready'[n]] = "read_cond"
          <5>1. n - Len(ready) \in 1..Len(readq) /\ ready'[n] = readq[n - Len(ready)]
            BY <1>6, <3>4
          <5>2. QED
            BY <1>4, <5>1
        <4>3. QED
          BY <4>1, <4>2
      <3>5. QED
        BY <3>1, <3>2, <3>3, <3>4
    <2>3. Len(readq') = 0 /\ wait'[Listener] = "none" /\ running' = Listener /\ left' <= Len(ready')
      BY <1>1, <1>2, <1>4, <1>5, EmptySeq, Names DEF Typed, Placed
    <2>4. QED
      BY <2>1, <2>2, <2>3 DEF Placed
  <1>9. ListenerAt'
    <2>1. ~InReady(Listener)' /\ wait'[Listener] = "none" /\ pc'[Listener] = "drain"
      BY <1>1, <1>2, <1>4, <1>6, Names DEF InReady, Typed, Placed
    <2>2. ~freed
      BY <1>1, <1>2 DEF ListenerAt
    <2>3. QED
      BY <1>2, <2>1, <2>2 DEF ListenerAt
  <1>10. WorkerAt'
    <2>1. SUFFICES ASSUME NEW w \in Worker PROVE
                /\ pc'[w] \in {"none", "new", "loop", "probe", "serve", "gone"}
                /\ wait'[w] \in {"none", "io", "read_cond"}
                /\ wait'[w] = "read_cond" => pc'[w] = "loop"
                /\ wait'[w] = "io" => pc'[w] \in {"probe", "serve"}
                /\ InReady(w)' => pc'[w] = "new" \/ (pc'[w] = "loop" /\ why'[w] = 0)
                /\ running' # w
                /\ sock'[w] # NoSocket <=> pc'[w] \in {"probe", "serve"}
      BY DEF WorkerAt
    <2>2. pc'[w] = pc[w] /\ wait'[w] = (IF wait[w] = "read_cond" THEN "none" ELSE wait[w])
          /\ why'[w] = (IF wait[w] = "read_cond" THEN 0 ELSE why[w]) /\ running' # w /\ sock' = sock
      BY <1>1, <1>2, Names DEF Typed
    <2>3. ASSUME InReady(w)' PROVE InReady(w) \/ wait[w] = "read_cond"
      <3>1. PICK i \in 1..Len(ready') : ready'[i] = w
        BY <2>3 DEF InReady
      <3>2. CASE i \in 1..Len(ready)
        BY <1>6, <3>1, <3>2 DEF InReady
      <3>3. CASE i \notin 1..Len(ready)
        BY <1>4, <1>6, <3>1, <3>3
      <3>4. QED
        BY <3>2, <3>3
    <2>4. InReady(w)' => pc'[w] = "new" \/ (pc'[w] = "loop" /\ why'[w] = 0)
      BY <1>1, <2>2, <2>3 DEF WorkerAt, Typed
    <2>5. QED
      BY <1>1, <2>2, <2>4 DEF WorkerAt
  <1>11. OneOwner'
    BY <1>1, <1>2 DEF OneOwner
  <1>12. HandOver'
    <2>1. ~Offered /\ ~Offered' /\ pc'[Listener] = "drain"
      BY <1>1, <1>2, Names DEF Typed, Offered
    <2>2. QED
      BY <1>1, <1>2, <2>1 DEF HandOver
  <1>13. Spawning'
    <2>1. pc'[Listener] = "drain" /\ \A v \in Worker : pc'[v] = pc[v]
      BY <1>1, <1>2, Names DEF Typed
    <2>2. QED
      BY <1>3, <2>1 DEF Spawning
  <1>14. EndsLast'
    BY <1>1, <1>2, <1>3, <1>4, <1>5, <1>6, Names DEF Typed, ListenerAt, WorkerAt, EndsLast
  <1>15. CountIsExact'
    <2>1. Counted' = Counted
      BY <1>1, <1>2, <1>3, <1>4, <1>5, <1>6, Names DEF Typed, ListenerAt, WorkerAt, Counted
    <2>2. QED
      BY <1>1, <1>2, <1>3, <1>4, <1>5, <1>6, <2>1 DEF CountIsExact
  <1>16. QED
    BY <1>7, <1>8, <1>9, <1>10, <1>11, <1>12, <1>13, <1>14, <1>15 DEF Inv
\* The first coroutine of the ready queue runs.
LEMMA RunReadyInv ==
    ASSUME Inv, RunReady, UNCHANGED signal
    PROVE  Inv'
  <1>1. /\ Typed /\ Placed /\ ListenerAt /\ WorkerAt /\ OneOwner
        /\ HandOver /\ Spawning /\ CountIsExact /\ EndsLast
    BY DEF Inv
  <1>2. /\ running = Nobody /\ phase = "ready" /\ left > 0 /\ running' = Head(ready) /\ ready' = Tail(ready)
        /\ left' = left - 1
        /\ UNCHANGED <<phase, fresh, pc, wait, why, readq, young, msgSocket, sock, workers, conn, freed, signal>>
    BY Names DEF RunReady, Idle
  <1>3. /\ Len(ready) \in Nat \ {0} /\ ready[1] \in Coro /\ running' = ready[1] /\ ready' \in Seq(Coro)
        /\ Len(ready') = Len(ready) - 1 /\ \A i \in 1..(Len(ready) - 1) : ready'[i] = ready[i + 1]
    <2>1. Len(ready) # 0 /\ ready \in Seq(Coro)
      BY <1>1, <1>2 DEF Typed, Placed
    <2>2. ready # <<>>
      BY <2>1, EmptySeq
    <2>3. QED
      BY <1>2, <2>1, <2>2, Popped
  <1>4. \A c : InReady(c) <=> running' = c \/ InReady(c)'
    <2>1. \A i \in 1..Len(ready) : i = 1 \/ (i - 1 \in 1..Len(ready') /\ ready'[i - 1] = ready[i])
      BY <1>3
    <2>2. \A i \in 1..Len(ready') : i + 1 \in 1..Len(ready) /\ ready'[i] = ready[i + 1]
      BY <1>3
    <2>3. ASSUME NEW c, InReady(c) PROVE running' = c \/ InReady(c)'
      <3>1. PICK i \in 1..Len(ready) : ready[i] = c
        BY <2>3 DEF InReady
      <3>2. QED
        BY <1>3, <2>1, <3>1 DEF InReady
    <2>4. ASSUME NEW c, running' = c \/ InReady(c)' PROVE InReady(c)
      <3>1. CASE running' = c
        <4>1. 1 \in 1..Len(ready) /\ ready[1] = c
          BY <1>3, <3>1
        <4>2. QED
          BY <4>1 DEF InReady
      <3>2. CASE InReady(c)'
        <4>1. PICK i \in 1..Len(ready') : ready'[i] = c
          BY <3>2 DEF InReady
        <4>2. QED
          BY <2>2, <4>1 DEF InReady
      <3>3. QED
        BY <2>4, <3>1, <3>2
    <2>5. QED
      BY <2>3, <2>4
  <1>5. Typed'
    BY <1>1, <1>2, <1>3, <1>4, Names DEF Typed
  <1>6. Placed'
    <2>1. ASSUME NEW i \in 1..Len(ready')
          PROVE /\ wait'[ready'[i]] = "none" /\ ready'[i] # running'
                /\ \A j \in 1..Len(ready') : ready'[i] = ready'[j] => i = j
      <3>1. i + 1 \in 1..Len(ready) /\ ready'[i] = ready[i + 1] /\ 1 \in 1..Len(ready) /\ i + 1 # 1
        BY <1>3, <2>1
      <3>2. wait[ready[i + 1]] = "none" /\ ready[i + 1] # ready[1]
        BY <1>1, <3>1 DEF Placed
      <3>3. ASSUME NEW j \in 1..Len(ready'), ready'[i] = ready'[j] PROVE i = j
        <4>1. j + 1 \in 1..Len(ready) /\ ready'[j] = ready[j + 1]
          BY <1>3, <3>3
        <4>2. i + 1 = j + 1
          BY <1>1, <3>1, <3>3, <4>1 DEF Placed
        <4>3. QED
          BY <1>3, <4>2
      <3>4. QED
        BY <1>2, <1>3, <3>1, <3>2, <3>3
    <2>2. wait'[running'] = "none" /\ left' <= Len(ready')
      BY <1>1, <1>2, <1>3 DEF Placed, Typed
    <2>3. QED
      BY <1>1, <1>2, <2>1, <2>2 DEF Placed
  <1>7. ListenerAt'
    BY <1>1, <1>2, <1>4, Names DEF Typed, ListenerAt
  <1>8. WorkerAt'
    BY <1>1, <1>2, <1>4, Names DEF Typed, WorkerAt
  <1>9. OneOwner'
    BY <1>1, <1>2, <1>3, <1>4, Names DEF Typed, WorkerAt, OneOwner, HandOver
  <1>10. HandOver'
    <2>1. Offered' <=> Offered
      BY <1>1, <1>2, <1>3, <1>4, Names DEF Typed, ListenerAt, Offered
    <2>2. \A v \in Worker : Signalled(v)' => Signalled(v)
      BY <1>1, <1>2, <1>3, <1>4, Names DEF Typed, WorkerAt, Signalled
    <2>3. \A v \in Worker : Signalled(v)' /\ (InReady(v) \/ running = v) => (InReady(v) \/ running = v)'
      BY <1>1, <1>2, <1>3, <1>4, Names DEF Typed, Signalled
    <2>4. pc[Listener] \in {"drain", "done"} => pc'[Listener] \in {"drain", "done"}
      BY <1>1, <1>2, <1>3, <1>4, Names DEF Typed
    <2>5. QED
      BY <1>1, <1>2, <1>3, <1>4, <2>1, <2>2, <2>3, <2>4, StillHandedOver
  <1>11. Spawning'
    <2>1. SUFFICES ASSUME NEW v \in Worker, RunsFirst(v) PROVE RunsFirst(v)'
      BY <1>1, <1>2 DEF Spawning, Signalled
    <2>2. PICK i \in 1..Len(ready) : ready[i] = v /\ i <= left /\ \A j \in 1..Len(ready) : ready[j] = Listener => i < j
      BY <1>2, <2>1, Names DEF RunsFirst
    <2>3. CASE i = 1
      BY <1>2, <1>3, <2>2, <2>3 DEF RunsFirst
    <2>4. CASE i # 1
      <3>1. i - 1 \in 1..Len(ready') /\ ready'[i - 1] = v /\ i - 1 <= left' /\ running' # Listener
        BY <1>1, <1>2, <1>3, <2>2, <2>4 DEF Typed
      <3>2. ASSUME NEW j \in 1..Len(ready'), ready'[j] = Listener PROVE i - 1 < j
        <4>1. j + 1 \in 1..Len(ready) /\ ready[j + 1] = Listener
          BY <1>3, <3>2
        <4>2. QED
          BY <1>3, <2>2, <4>1
      <3>3. QED
        BY <1>2, <3>1, <3>2 DEF RunsFirst
    <2>5. QED
      BY <2>3, <2>4
  <1>12. EndsLast'
    BY <1>1, <1>2, <1>3, <1>4, Names DEF Typed, ListenerAt, WorkerAt, EndsLast
  <1>13. CountIsExact'
    <2>1. Counted' = Counted
      BY <1>1, <1>2, <1>3, <1>4, Names DEF Typed, ListenerAt, WorkerAt, Counted
    <2>2. QED
      BY <1>1, <1>2, <1>3, <1>4, <2>1 DEF CountIsExact
  <1>14. QED
    BY <1>5, <1>6, <1>7, <1>8, <1>9, <1>10, <1>11, <1>12, <1>13 DEF Inv

\* The scheduler goes on to its next pass.
LEMMA NextPhaseInv ==
    ASSUME Inv, NextPhase, UNCHANGED signal
    PROVE  Inv'
  <1>1. /\ Typed /\ Placed /\ ListenerAt /\ WorkerAt /\ OneOwner
        /\ HandOver /\ Spawning /\ CountIsExact /\ EndsLast
    BY DEF Inv
  <1>2. /\ running = Nobody
        /\ \/ phase = "expire" /\ phase' = "ready" /\ left' = Len(ready) /\ UNCHANGED fresh
           \/ phase = "ready" /\ left = 0 /\ phase' = "poll" /\ fresh' = {} /\ UNCHANGED left
           \/ phase = "poll" /\ phase' = "expire" /\ fresh' = {} /\ UNCHANGED left
        /\ UNCHANGED <<ready, running, pc, wait, why, readq, young, msgSocket, sock, workers, conn, freed, signal>>
    BY Names DEF NextPhase, Idle
  <1>3. Typed'
    <2>1. Len(ready) \in Nat
      BY <1>1, LenProperties DEF Typed
    <2>2. QED
      BY <1>1, <1>2, <2>1 DEF Typed
  <1>4. Placed'
    <2>1. Len(ready) \in Nat
      BY <1>1, LenProperties DEF Typed
    <2>2. QED
      BY <1>1, <1>2, <2>1 DEF Placed
  <1>5. ListenerAt'
    BY <1>1, <1>2, Names DEF Typed, Placed, ListenerAt, InReady
  <1>6. WorkerAt'
    BY <1>1, <1>2, Names DEF Typed, Placed, ListenerAt, WorkerAt, InReady
  <1>7. OneOwner'
    BY <1>1, <1>2, Names DEF Typed, WorkerAt, OneOwner, HandOver
  <1>8. HandOver'
    BY <1>1, <1>2 DEF HandOver, Offered, Signalled, InReady
  <1>9. Spawning'
    <2>1. SUFFICES ASSUME NEW v \in Worker, RunsFirst(v) PROVE RunsFirst(v)'
      BY <1>1, <1>2 DEF Spawning, Signalled
    <2>2. PICK i \in 1..Len(ready) :
              /\ ready[i] = v
              /\ \/ phase = "expire" /\ Listener \in fresh /\ wait[Listener] = "write_cond"
                 \/ phase = "ready" /\ i <= left
      BY <1>2, <2>1, Names DEF RunsFirst
    <2>3. phase = "expire" /\ wait[Listener] = "write_cond" /\ phase' = "ready" /\ left' = Len(ready)
      BY <1>1, <1>2, <2>2 DEF Typed
    <2>4. \A j \in 1..Len(ready) : ready[j] # Listener
      BY <1>1, <2>3 DEF Placed
    <2>5. QED
      BY <1>2, <2>2, <2>3, <2>4, Names DEF RunsFirst
  <1>10. EndsLast'
    BY <1>1, <1>2, Names DEF Typed, ListenerAt, WorkerAt, EndsLast
  <1>11. CountIsExact'
    <2>1. Counted' = Counted
      BY <1>1, <1>2, Names DEF Typed, ListenerAt, WorkerAt, Counted
    <2>2. QED
      BY <1>1, <1>2, <2>1 DEF CountIsExact
  <1>12. QED
    BY <1>3, <1>4, <1>5, <1>6, <1>7, <1>8, <1>9, <1>10, <1>11 DEF Inv

\* A deadline has passed.
LEMMA ExpireInv ==
    ASSUME Inv, NEW c \in Coro, Expire(c), UNCHANGED signal
    PROVE  Inv'
  <1>1. /\ Typed /\ Placed /\ ListenerAt /\ WorkerAt /\ OneOwner
        /\ HandOver /\ Spawning /\ CountIsExact /\ EndsLast
    BY DEF Inv
  <1>2. /\ running = Nobody /\ phase = "expire" /\ c \notin fresh /\ wait[c] # "none" /\ running' = c
        /\ ~(c = Listener /\ wait[c] = "io") /\ readq' = RemoveFirst(readq, c)
        /\ why' = [why EXCEPT ![c] = -2] /\ wait' = [wait EXCEPT ![c] = "none"]
        /\ UNCHANGED <<phase, left, fresh, ready, pc, young, msgSocket, sock, workers, conn, freed, signal>>
    BY Names DEF Expire, Idle, Resume, sched
  <1>3. /\ readq' \in Seq(Worker) /\ \A i, j \in 1..Len(readq') : readq'[i] = readq'[j] => i = j
        /\ \A i \in 1..Len(readq') : readq'[i] # c /\ \E j \in 1..Len(readq) : readq[j] = readq'[i]
    <2>1. readq \in Seq(Worker) /\ \A i, j \in 1..Len(readq) : readq[i] = readq[j] => i = j
      BY <1>1 DEF Typed, Placed
    <2>2. QED
      BY <1>2, <2>1, Removed
  <1>4. ~InReady(c)
    BY <1>1, <1>2 DEF Placed, InReady
  <1>5. Typed'
    BY <1>1, <1>2, <1>3, <1>4, Names DEF Typed
  <1>6. Placed'
    <2>1. wait'[c] = "none" /\ \A x \in Coro \ {c} : wait'[x] = wait[x]
      BY <1>1, <1>2 DEF Typed
    <2>2. \A i \in 1..Len(ready) : ready[i] \in Coro \ {c}
      BY <1>1, <1>4, ElementOfSeq DEF Typed, InReady
    <2>3. \A i \in 1..Len(readq') : readq'[i] \in Coro \ {c} /\ wait[readq'[i]] = "read_cond"
      <3>1. ASSUME NEW i \in 1..Len(readq') PROVE readq'[i] \in Coro \ {c} /\ wait[readq'[i]] = "read_cond"
        <4>1. PICK j \in 1..Len(readq) : readq[j] = readq'[i]
          BY <1>3
        <4>2. readq[j] \in Worker /\ wait[readq[j]] = "read_cond"
          BY <1>1, ElementOfSeq DEF Typed, Placed
        <4>3. QED
          BY <1>3, <4>1, <4>2, Names
      <3>2. QED
        BY <3>1
    <2>4. QED
      BY <1>1, <1>2, <1>3, <2>1, <2>2, <2>3 DEF Placed
  <1>7. ListenerAt'
    BY <1>1, <1>2, <1>3, <1>4, Names DEF Typed, Placed, ListenerAt, InReady
  <1>8. WorkerAt'
    BY <1>1, <1>2, <1>3, <1>4, Names DEF Typed, Placed, ListenerAt, WorkerAt, InReady
  <1>9. OneOwner'
    BY <1>1, <1>2, <1>3, <1>4, Names DEF Typed, WorkerAt, OneOwner, HandOver
  <1>10. HandOver'
    <2>1. Offered' <=> Offered
      BY <1>1, <1>2, <1>3, <1>4, Names DEF Typed, Placed, ListenerAt, WorkerAt, Offered
    <2>2. \A v \in Worker : Signalled(v)' => Signalled(v)
      BY <1>1, <1>2, <1>3, <1>4, Names DEF Typed, WorkerAt, Signalled
    <2>3. \A v \in Worker : Signalled(v)' /\ (InReady(v) \/ running = v) => (InReady(v) \/ running = v)'
      BY <1>1, <1>2, <1>3, <1>4, Names DEF Typed, WorkerAt, Signalled, InReady
    <2>4. pc[Listener] \in {"drain", "done"} => pc'[Listener] \in {"drain", "done"}
      BY <1>1, <1>2, <1>3, <1>4, Names DEF Typed
    <2>5. QED
      BY <1>1, <1>2, <1>3, <1>4, <2>1, <2>2, <2>3, <2>4, StillHandedOver
  <1>11. Spawning'
    <2>1. SUFFICES ASSUME NEW v \in Worker, pc'[v] = "new" \/ (Signalled(v)' /\ pc'[Listener] = "spawn")
                   PROVE  pc'[Listener] = "spawn" /\ RunsFirst(v)'
      BY DEF Spawning
    <2>2. Signalled(v)' => Signalled(v)
      BY <1>1, <1>2, Names DEF Typed, Signalled
    <2>3. RunsFirst(v) /\ pc[Listener] = "spawn"
      BY <1>1, <1>2, <2>1, <2>2 DEF Spawning
    <2>4. Listener \in fresh
      BY <1>2, <2>3, Names DEF RunsFirst
    <2>5. running # v /\ running' # Listener /\ wait'[Listener] = wait[Listener]
      BY <1>1, <1>2, <2>4, Names DEF Typed
    <2>6. QED
      BY <1>2, <2>3, <2>5, StillFirst
  <1>12. EndsLast'
    BY <1>1, <1>2, <1>3, <1>4, Names DEF Typed, ListenerAt, WorkerAt, EndsLast
  <1>13. CountIsExact'
    <2>1. Counted' = Counted
      BY <1>1, <1>2, <1>3, <1>4, Names DEF Typed, ListenerAt, WorkerAt, Counted
    <2>2. QED
      BY <1>1, <1>2, <1>3, <1>4, <2>1 DEF CountIsExact
  <1>14. QED
    BY <1>5, <1>6, <1>7, <1>8, <1>9, <1>10, <1>11, <1>12, <1>13 DEF Inv
\* What the accept loop does keeps the invariant.
LEMMA ListenerStepInv ==
    ASSUME Inv, ListenerStep
    PROVE  Inv'
  <1>1. UNCHANGED signal
    BY DEF ListenerStep
  <1>2. CASE \E s \in Socket : AcceptReturns(s)
    BY <1>1, <1>2, ReturnsAloneInv, ReturnsSignalsInv
  <1>3. CASE AcceptBlocks
    BY <1>1, <1>3, AcceptBlocksInv
  <1>4. CASE AcceptYields
    BY <1>1, <1>4, AcceptYieldsInv
  <1>5. CASE AcceptFails
    BY <1>1, <1>5, AcceptFailsInv
  <1>6. CASE ListenerOffered
    <2>1. CASE why[Listener] # -2
      BY <1>1, <1>6, <2>1, OfferedTakenInv
    <2>2. CASE why[Listener] = -2
      <3>1. PICK b \in Worker : /\ Created(b)
                                /\ pc' = [pc EXCEPT ![Listener] = "spawn", ![b] = "new"]
                                /\ ready' = Append(ready, b)
        BY <1>6, <2>2 DEF ListenerOffered
      <3>2. /\ running = Listener /\ pc[Listener] = "offer" /\ pc[b] = "none" /\ young' = {}
            /\ Block(Listener, "write_cond", wait)
            /\ UNCHANGED <<why, readq, msgSocket, sock, workers, conn, freed, signal>>
        BY <1>1, <1>6, <2>2, <3>1 DEF ListenerOffered, Created
      <3>3. QED
        BY <2>2, <3>1, <3>2, OfferedSpawnsInv
    <2>3. QED
      BY <2>1, <2>2
  <1>7. CASE ListenerSpawned
    BY <1>1, <1>7, SpawnedTakenInv, SpawnedAloneInv, SpawnedSignalsInv
  <1>8. CASE ListenerDrains
    <2>1. /\ running = Listener /\ pc[Listener] = "drain"
          /\ UNCHANGED <<ready, why, readq, young, msgSocket, sock, workers, conn, signal>>
      BY <1>1, <1>8 DEF ListenerDrains
    <2>2. CASE workers > 0 /\ Block(Listener, "sleep", wait) /\ UNCHANGED <<pc, freed>>
      BY <2>1, <2>2, DrainsInv
    <2>3. CASE /\ workers <= 0 /\ freed' = TRUE /\ pc' = [pc EXCEPT ![Listener] = "done"]
               /\ running' = Nobody /\ UNCHANGED <<sched, wait>>
      BY <2>1, <2>3, DrainedInv
    <2>4. QED
      BY <1>8, <2>2, <2>3 DEF ListenerDrains
  <1>9. QED
    BY <1>2, <1>3, <1>4, <1>5, <1>6, <1>7, <1>8 DEF ListenerStep

\* What a worker does keeps the invariant.
LEMMA WorkerStepInv ==
    ASSUME Inv, NEW w \in Worker, WorkerStep(w)
    PROVE  Inv'
  <1>1. UNCHANGED signal
    BY DEF WorkerStep
  <1>2. CASE WorkerProbes(w)
    <2>1. /\ running = w /\ pc[w] = "probe"
          /\ UNCHANGED <<sched, ready, wait, why, readq, young, msgSocket, freed, signal>>
      BY <1>1, <1>2 DEF WorkerProbes
    <2>2. CASE pc' = [pc EXCEPT ![w] = "serve"] /\ UNCHANGED <<running, sock, workers, conn>>
      BY <2>1, <2>2, ProbesServesInv
    <2>3. CASE /\ conn' = [conn EXCEPT ![sock[w]] = "leaked"] /\ sock' = [sock EXCEPT ![w] = NoSocket]
               /\ WorkerLeaves(w)
      BY <1>1, <1>2, <2>3, ProbesLeaksInv
    <2>4. QED
      BY <1>2, <2>2, <2>3 DEF WorkerProbes
  <1>3. CASE WorkerTakes(w)
    BY <1>1, <1>3, TakesNothingInv, TakesInv
  <1>4. CASE WorkerStarts(w) \/ WorkerIdles(w) \/ WorkerServes(w) \/ WorkerFinishes(w)
    BY <1>1, <1>4, StartsInv, IdlesInv, ServesInv, FinishesInv
  <1>5. QED
    BY <1>2, <1>3, <1>4 DEF WorkerStep

\* So does every step of the process.
LEMMA NextInv == Inv /\ [Next]_vars => Inv'
  <1>1. SUFFICES ASSUME Inv, [Next]_vars PROVE Inv'
    OBVIOUS
  <1>2. CASE ListenerStep
    BY <1>1, <1>2, ListenerStepInv
  <1>3. CASE \E w \in Worker : WorkerStep(w)
    BY <1>1, <1>3, WorkerStepInv
  <1>4. CASE SchedStep
    BY <1>1, <1>4, RunReadyInv, NextPhaseInv, ExpireInv, PollInv DEF SchedStep
  <1>5. CASE SigInt \/ HandlerExits \/ UNCHANGED vars
    <2>1. /\ UNCHANGED <<phase, left, fresh, ready, running, pc, wait, why, readq, young, msgSocket>>
          /\ UNCHANGED <<sock, workers, conn, freed>>
      BY <1>5 DEF SigInt, HandlerExits, vars, sched
    <2>2. signal' \in {"none", "handler", "exited"}
      BY <1>1, <1>5 DEF SigInt, HandlerExits, vars, Inv, Typed
    <2>3. Typed' /\ Placed'
      BY <1>1, <2>1, <2>2 DEF Inv, Typed, Placed
    <2>4. ListenerAt' /\ WorkerAt' /\ OneOwner' /\ EndsLast'
      BY <1>1, <2>1 DEF Inv, ListenerAt, WorkerAt, OneOwner, EndsLast, InReady
    <2>5. HandOver' /\ Spawning'
      BY <1>1, <2>1 DEF Inv, HandOver, Spawning, Offered, Signalled, InReady, RunsFirst
    <2>6. CountIsExact'
      BY <1>1, <2>1 DEF Inv, CountIsExact, Counted
    <2>7. QED
      BY <2>3, <2>4, <2>5, <2>6 DEF Inv
  <1>6. QED
    BY <1>1, <1>2, <1>3, <1>4, <1>5 DEF Next

\* The counters stay within their sets: no coroutine is in the ready queue twice,
\* and no worker is counted twice.
LEMMA Bounded == Inv => TypeOK
  <1>1. SUFFICES ASSUME Inv PROVE TypeOK
    OBVIOUS
  <1>2. Typed /\ Placed /\ CountIsExact
    BY <1>1 DEF Inv
  <1>3. IsFiniteSet(Coro) /\ Cardinality(Coro) \in Nat
    BY PoolAssumption, FS_AddElement, FS_CardinalityType DEF Coro
  <1>4. left \in 0..Cardinality(Coro)
    <2>1. ready \in Seq(Coro) /\ Len(ready) \in Nat /\ left \in Nat /\ left <= Len(ready)
      BY <1>2, LenProperties DEF Typed, Placed
    <2>2. \A i \in 1..Len(ready) : ready[i] \in Coro
      BY <2>1, ElementOfSeq
    <2> DEFINE place == [i \in 1..Len(ready) |-> ready[i]]
    <2>3. place \in Injection(1..Len(ready), Coro)
      BY <1>2, <2>2 DEF Placed, Injection, IsInjective
    <2>4. Cardinality(1..Len(ready)) <= Cardinality(Coro)
      BY <1>3, <2>3, FS_Injection
    <2>5. Cardinality(1..Len(ready)) = Len(ready)
      <3> DEFINE n == Len(ready)
      <3> HIDE DEF n
      <3>1. n \in Nat /\ n \in Int /\ 1 \in Int
        BY <2>1 DEF n
      <3>2. Cardinality(1..n) = IF 1 > n THEN 0 ELSE n - 1 + 1
        BY <3>1, FS_Interval, Zenon
      <3>3. Cardinality(1..n) = n
        BY <3>1, <3>2
      <3>4. QED
        BY <3>3 DEF n
    <2>6. QED
      BY <1>3, <2>1, <2>4, <2>5
  <1>5. workers \in 0..Cardinality(Worker)
    <2>1. IsFiniteSet(Worker) /\ Counted \subseteq Worker
      BY PoolAssumption DEF Counted
    <2>2. Cardinality(Counted) \in Nat /\ Cardinality(Worker) \in Nat /\ Cardinality(Counted) <= Cardinality(Worker)
      BY <2>1, FS_Subset, FS_CardinalityType
    <2>3. QED
      BY <1>2, <2>2 DEF CountIsExact
  <1>6. QED
    BY <1>2, <1>4, <1>5 DEF Typed, TypeOK

-----------------------------------------------------------------------------
(* The theorems.                                                           *)

\* The invariant holds in every state of the process.
LEMMA AlwaysInv == Spec => []Inv
  BY InitInv, NextInv, PTL DEF Spec

\* Every variable keeps its type: "workers" never goes below zero or above the
\* number of workers, and a ready pass never resumes more coroutines than there are.
THEOREM PoolTypeCorrect == Spec => []TypeOK
  BY AlwaysInv, Bounded, PTL

\* However many connections come and workers are created, and in whatever order the
\* scheduler runs them, a connection is served by one worker, which has it open.
THEOREM ConnectionsHaveOneOwner == Spec => []OneOwner
  <1>1. Inv => OneOwner
    BY DEF Inv
  <1>2. QED
    BY AlwaysInv, <1>1, PTL

\* No accepted connection is dropped between accept() and a worker: not when the
\* worker that was signalled is late, not when one had to be created.
THEOREM NoConnectionIsDropped == Spec => []NoneDropped
  <1>1. Inv => NoneDropped
    BY DEF Inv, HandOver, Offered, NoneDropped
  <1>2. QED
    BY AlwaysInv, <1>1, PTL

\* msg and the conditions, which main_listen_thread keeps on its stack, are there as
\* long as a worker is, even one that was created and has not run.
THEOREM WorkersEndFirst == Spec => []ConditionsOutliveWorkers
  <1>1. Inv => ConditionsOutliveWorkers
    BY DEF Inv, ListenerAt, EndsLast, ConditionsOutliveWorkers
  <1>2. QED
    BY AlwaysInv, <1>1, PTL
=============================================================================

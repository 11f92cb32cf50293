------------------------------- MODULE Handle -------------------------------
(***************************************************************************)
(* The table of reference-counted handles (handle.c), used by several      *)
(* threads.  Every operation takes the table's mutex; two of them read the *)
(* table again after unlocking it, and the deleter of the last reference   *)
(* runs while it is held.                                                  *)
(*                                                                         *)
(* Callers keep the contract of a shared pointer: they name a handle they  *)
(* hold a reference to, and give each reference up once.  A reference is a *)
(* token; "holds" says which handle it is for.  An object may own a        *)
(* reference to another one, which its deleter gives up.                   *)
(*                                                                         *)
(* Bounds: MaxRefs slots (MAX_REFS, 255 in the code), Object the objects   *)
(* ever put behind a handle, Token the references ever held at once.       *)
(***************************************************************************)
EXTENDS Integers, FiniteSets

CONSTANTS Thread, Object, Token, MaxRefs,
          NoThread, NoObject, NoToken,
          Nesting          \* whether an object may own a handle

ASSUME HandleAssumption ==
    /\ MaxRefs \in Nat \ {0}
    /\ IsFiniteSet(Token)
    /\ NoThread \notin Thread /\ NoObject \notin Object /\ NoToken \notin Token
    /\ Nesting \in BOOLEAN

Slot == 1..MaxRefs
Empty == [id |-> 0, data |-> NoObject, count |-> 0]

VARIABLES
    loaded,
    refs,      \* the table: id (0 when free), data and count of each slot
    curid,     \* the last id given out
    mutex,     \* the thread whose deleter is running, or NoThread
    pc,        \* "idle", "new" or "data" (unlocked, about to read refs[at]), "deleter", "relock"
    at,        \* the slot a thread's "ref" points to
    tok,       \* the reference a thread's call is about
    holds,     \* the handle each reference is for, 0 for none
    owner,     \* the object a reference lives in, NoObject when a caller has it
    life,      \* "unused", "live", "dying" (deleter running), "dead" or "leaked"
    issued     \* every <<id, object>> ever handed out

vars == <<loaded, refs, curid, mutex, pc, at, tok, holds, owner, life, issued>>

Init ==
    /\ loaded = TRUE
    /\ refs = [i \in Slot |-> Empty]
    /\ curid = 0
    /\ mutex = NoThread
    /\ pc = [t \in Thread |-> "idle"]
    /\ at = [t \in Thread |-> 1]
    /\ tok = [t \in Thread |-> NoToken]
    /\ holds = [k \in Token |-> 0]
    /\ owner = [k \in Token |-> NoObject]
    /\ life = [o \in Object |-> "unused"]
    /\ issued = {}

-----------------------------------------------------------------------------
\* find_handle: the first slot with this id.
Finds(h, i) == refs[i].id = h /\ \A j \in 1..(i - 1) : refs[j].id # h

\* cflare_handle_new takes the first slot without an id.
FreeSlot(i) == Finds(0, i)

\* A thread may start a call; cflare_mutex_lock waits for a running deleter.
MayCall(t) == loaded /\ pc[t] = "idle" /\ mutex = NoThread

\* References a caller has and no other call is using.
AtHand(k) == owner[k] = NoObject /\ \A t \in Thread : tok[t] # k
Held  == {k \in Token : holds[k] # 0 /\ AtHand(k)}
Spare == {k \in Token : holds[k] = 0 /\ AtHand(k)}

\* The table after new_handle(o) used slot i.
Allocated(o, i) == [refs EXCEPT ![i] = [id |-> curid + 1, data |-> o, count |-> 1]]

\* cflare_handle_new for object o, up to the unlock; the caller's reference
\* will be k.  The deleter of o will give up reference "in", if it is one.
New(t, o, k, in) ==
    /\ MayCall(t)
    /\ life[o] = "unused" /\ k \in Spare
    /\ in = NoToken \/ (Nesting /\ in \in Held /\ in # k)
    /\ \E i \in Slot :
          /\ FreeSlot(i)
          /\ refs' = Allocated(o, i)
          /\ at' = [at EXCEPT ![t] = i]
    /\ curid' = curid + 1
    /\ issued' = issued \cup {<<curid + 1, o>>}
    /\ holds' = [holds EXCEPT ![k] = curid + 1]
    /\ owner' = IF in = NoToken THEN owner ELSE [owner EXCEPT ![in] = o]
    /\ life' = [life EXCEPT ![o] = "live"]
    /\ pc' = [pc EXCEPT ![t] = "new"]
    /\ tok' = [tok EXCEPT ![t] = k]
    /\ UNCHANGED <<loaded, mutex>>

\* The table is full: unlock and return 0; the caller keeps its object.
NewFails(t) ==
    /\ MayCall(t)
    /\ \A i \in Slot : refs[i].id # 0
    /\ UNCHANGED vars

\* return ref->id (or ref->data), read after the unlock.
Return(t) ==
    /\ pc[t] \in {"new", "data"}
    /\ pc' = [pc EXCEPT ![t] = "idle"]
    /\ tok' = [tok EXCEPT ![t] = NoToken]
    /\ UNCHANGED <<loaded, refs, curid, mutex, at, holds, owner, life, issued>>

\* A slip: the counter is not incremented.
ReferenceUncounted(t, k, j) ==
    /\ MayCall(t)
    /\ k \in Held /\ j \in Spare
    /\ holds' = [holds EXCEPT ![j] = holds[k]]
    /\ UNCHANGED <<loaded, refs, curid, mutex, pc, at, tok, owner, life, issued>>

\* cflare_handle_reference(holds[k]); the new reference is j.
Reference(t, k, j) ==
    /\ MayCall(t)
    /\ k \in Held /\ j \in Spare
    /\ \E i \in Slot : Finds(holds[k], i) /\ refs' = [refs EXCEPT ![i].count = @ + 1]
    /\ holds' = [holds EXCEPT ![j] = holds[k]]
    /\ UNCHANGED <<loaded, curid, mutex, pc, at, tok, owner, life, issued>>

\* A slip: the last but one reference deletes the object too.
UnreferenceEarly(t, k) ==
    /\ MayCall(t)
    /\ k \in Held
    /\ \E i \in Slot :
          /\ Finds(holds[k], i) /\ refs[i].count <= 2
          /\ refs' = [refs EXCEPT ![i] = [id |-> 0, data |-> refs[i].data, count |-> 0]]
          /\ mutex' = t
          /\ pc' = [pc EXCEPT ![t] = "deleter"]
          /\ at' = [at EXCEPT ![t] = i]
          /\ life' = [life EXCEPT ![refs[i].data] = "dying"]
    /\ holds' = [holds EXCEPT ![k] = 0]
    /\ UNCHANGED <<loaded, curid, tok, owner, issued>>

\* cflare_handle_unreference(holds[k]): the slot is free again, and the deleter
\* is about to run, when no reference is left.
Unreference(t, k) ==
    /\ MayCall(t)
    /\ k \in Held
    /\ \E i \in Slot :
          /\ Finds(holds[k], i)
          /\ \/ /\ refs[i].count # 1
                /\ refs' = [refs EXCEPT ![i].count = @ - 1]
                /\ UNCHANGED <<mutex, pc, at, life>>
             \/ /\ refs[i].count = 1
                /\ refs' = [refs EXCEPT ![i] = [id |-> 0, data |-> refs[i].data, count |-> 0]]
                /\ mutex' = t
                /\ pc' = [pc EXCEPT ![t] = "deleter"]
                /\ at' = [at EXCEPT ![t] = i]
                /\ life' = [life EXCEPT ![refs[i].data] = "dying"]
    /\ holds' = [holds EXCEPT ![k] = 0]
    /\ UNCHANGED <<loaded, curid, tok, owner, issued>>

\* A slip: the deleter is not called.
DeleterSkipped(t) ==
    /\ pc[t] = "deleter"
    /\ mutex' = NoThread
    /\ pc' = [pc EXCEPT ![t] = "idle"]
    /\ UNCHANGED <<loaded, refs, curid, at, tok, holds, owner, life, issued>>

\* The deleter frees the object and the mutex is unlocked...
Deleter(t) ==
    LET o == refs[at[t]].data IN
    /\ pc[t] = "deleter"
    /\ \A k \in Token : owner[k] # o
    /\ life' = [life EXCEPT ![o] = "dead"]
    /\ mutex' = NoThread
    /\ pc' = [pc EXCEPT ![t] = "idle"]
    /\ UNCHANGED <<loaded, refs, curid, at, tok, holds, owner, issued>>

\* ... or first calls cflare_handle_unreference, which locks the mutex its own
\* thread already holds: CFLARE_MUTEX_PLAIN is not recursive.
DeleterCallsBack(t) ==
    LET o == refs[at[t]].data IN
    /\ pc[t] = "deleter"
    /\ \E k \in Token : owner[k] = o
    /\ pc' = [pc EXCEPT ![t] = "relock"]
    /\ UNCHANGED <<loaded, refs, curid, mutex, at, tok, holds, owner, life, issued>>

\* A slip: the pointer stays at the start of the table.
DataOfFirst(t, k) ==
    /\ MayCall(t)
    /\ k \in Held
    /\ at' = [at EXCEPT ![t] = 1]
    /\ pc' = [pc EXCEPT ![t] = "data"]
    /\ tok' = [tok EXCEPT ![t] = k]
    /\ UNCHANGED <<loaded, refs, curid, mutex, holds, owner, life, issued>>

\* cflare_handle_data(holds[k]), up to the unlock.
Data(t, k) ==
    /\ MayCall(t)
    /\ k \in Held
    /\ \E i \in Slot : Finds(holds[k], i) /\ at' = [at EXCEPT ![t] = i]
    /\ pc' = [pc EXCEPT ![t] = "data"]
    /\ tok' = [tok EXCEPT ![t] = k]
    /\ UNCHANGED <<loaded, refs, curid, mutex, holds, owner, life, issued>>

\* find_handle found nothing: cflare_fatal.  No call within the contract gets here.
Fatal(k) == holds[k] # 0 /\ \A i \in Slot : refs[i].id # holds[k]

\* cflare_handle_unload, with no call under way: the references left are only
\* reported, and lost to their holders.
Unload ==
    /\ loaded /\ mutex = NoThread /\ \A t \in Thread : pc[t] = "idle"
    /\ loaded' = FALSE
    /\ holds' = [k \in Token |-> 0]
    /\ owner' = [k \in Token |-> NoObject]
    /\ life' = [o \in Object |-> IF life[o] = "live" THEN "leaked" ELSE life[o]]
    /\ UNCHANGED <<refs, curid, mutex, pc, at, tok, issued>>

\* A slip: numbering starts again.
LoadResetsIds ==
    /\ ~loaded /\ loaded' = TRUE
    /\ refs' = [i \in Slot |-> Empty] /\ curid' = 0
    /\ UNCHANGED <<mutex, pc, at, tok, holds, owner, life, issued>>

\* cflare_handle_load: clears the slots, not curid.
Load ==
    /\ ~loaded
    /\ loaded' = TRUE
    /\ refs' = [i \in Slot |-> Empty]
    /\ UNCHANGED <<curid, mutex, pc, at, tok, holds, owner, life, issued>>

-----------------------------------------------------------------------------
Step(t) ==
    \/ \E o \in Object, k \in Token, in \in Token \cup {NoToken} : New(t, o, k, in)
    \/ NewFails(t)
    \/ \E k \in Token : Unreference(t, k) \/ Data(t, k) \/ \E j \in Token : Reference(t, k, j)
    \/ Return(t) \/ Deleter(t) \/ DeleterCallsBack(t)

Next == (\E t \in Thread : Step(t)) \/ Unload \/ Load

Spec == Init /\ [][Next]_vars

\* Threads run on: a call that was started goes as far as it can.
FairSpec ==
    /\ Spec
    /\ \A t \in Thread : WF_vars(Return(t)) /\ WF_vars(Deleter(t)) /\ WF_vars(DeleterCallsBack(t))

-----------------------------------------------------------------------------
\* Every variable has its type.
TypeOK ==
    /\ loaded \in BOOLEAN
    /\ refs \in [Slot -> [id : Nat, data : Object \cup {NoObject}, count : Nat]]
    /\ curid \in Nat
    /\ mutex \in Thread \cup {NoThread}
    /\ pc \in [Thread -> {"idle", "new", "data", "deleter", "relock"}]
    /\ at \in [Thread -> Slot]
    /\ tok \in [Thread -> Token \cup {NoToken}]
    /\ holds \in [Token -> Nat]
    /\ owner \in [Token -> Object \cup {NoObject}]
    /\ life \in [Object -> {"unused", "live", "dying", "dead", "leaked"}]
    /\ issued \subseteq Nat \X Object

\* The references to handle h.
Holders(h) == {k \in Token : holds[k] = h}

\* Every slot in use counts exactly the references there are to its handle.
CountExact ==
    loaded => \A i \in Slot : refs[i].id # 0 =>
        refs[i].count = Cardinality(Holders(refs[i].id))

\* No two slots have the same handle, so find_handle is right to stop at the first.
UniqueIds ==
    \A i, j \in Slot : refs[i].id = refs[j].id /\ refs[i].id # 0 => i = j

\* As long as a reference to a handle is held, the handle is in the table and
\* its object has not been deleted: no caller that keeps the contract gets
\* "invalid handle", however the slots are reused.
HeldStaysLive ==
    loaded => \A k \in Token : holds[k] # 0 =>
        /\ ~Fatal(k)
        /\ \A i \in Slot : refs[i].id = holds[k] => life[refs[i].data] = "live"

\* What a thread reads from its slot after it has unlocked the table is still
\* about its own handle, and that handle's object.
ReturnsOwn ==
    \A t \in Thread : pc[t] \in {"new", "data"} =>
        /\ refs[at[t]].id = holds[tok[t]]
        /\ <<refs[at[t]].id, refs[at[t]].data>> \in issued

\* A handle never stands for a second object, after its slot was reused or
\* after the table was unloaded and loaded again.
HandleNamesOneObject ==
    \A p, q \in issued : p[1] = q[1] => p = q

\* An object that only dying objects have references to.
Orphan(o) ==
    /\ life[o] \in {"live", "dying"}
    /\ \A k \in Token : <<holds[k], o>> \in issued =>
          owner[k] # NoObject /\ life[owner[k]] = "dying"

\* 50.handle.def: "The deleter will be called if the reference counter is at 0".
\* It is, for every object nobody can reach any more, unless a deleter waits for
\* the mutex of its own thread.
LastReferenceDeletes ==
    \A o \in Object : Orphan(o) ~> (life[o] = "dead" \/ \E t \in Thread : pc[t] = "relock")
=============================================================================

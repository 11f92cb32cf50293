---------------------------- MODULE HandleProofs ----------------------------
(***************************************************************************)
(* Proofs about the handle table: for any number of slots, threads,        *)
(* objects and references, the properties that MCHandle checks hold.       *)
(***************************************************************************)
EXTENDS Handle, FiniteSetTheorems, TLAPS

\* Ids in the table, in references and in the history come from curid.
IdsBounded ==
    /\ \A i \in Slot : refs[i].id <= curid
    /\ \A k \in Token : holds[k] <= curid
    /\ \A p \in issued : p[1] <= curid /\ p[1] # 0

\* A slot in use was issued, its object is live and in no other slot.
SlotsLive ==
    loaded => \A i \in Slot : refs[i].id # 0 =>
        /\ refs[i].data \in Object
        /\ <<refs[i].id, refs[i].data>> \in issued
        /\ life[refs[i].data] = "live"
        /\ \A j \in Slot : refs[j].id # 0 /\ refs[j].data = refs[i].data => i = j

\* Every reference that is held is for a handle in the table, and none is held
\* while the table is unloaded.
HeldFound ==
    \A k \in Token : holds[k] # 0 => loaded /\ \E i \in Slot : refs[i].id = holds[k]

\* A thread that has unlocked the table keeps its reference and its slot; the
\* slot has that reference's handle.
CallsUnderWay ==
    \A t \in Thread : pc[t] \in {"new", "data"} =>
        /\ loaded
        /\ tok[t] \in Token
        /\ holds[tok[t]] # 0
        /\ refs[at[t]].id = holds[tok[t]]

\* The thread in a deleter has the mutex, and its object is dying.
DeleterLocked ==
    /\ \A t \in Thread : pc[t] \in {"deleter", "relock"} =>
          /\ mutex = t /\ loaded
          /\ refs[at[t]].data \in Object
          /\ life[refs[at[t]].data] = "dying"
    /\ mutex # NoThread => loaded

IInv ==
    /\ TypeOK
    /\ UniqueIds
    /\ IdsBounded
    /\ HandleNamesOneObject
    /\ SlotsLive
    /\ HeldFound
    /\ CountExact
    /\ CallsUnderWay
    /\ DeleterLocked

-----------------------------------------------------------------------------
\* Sets of references are finite.
LEMMA HoldersFinite ==
    \A h : IsFiniteSet(Holders(h)) /\ Cardinality(Holders(h)) \in Nat
<1>1. IsFiniteSet(Token)
  BY HandleAssumption
<1>2. \A h : Holders(h) \subseteq Token
  BY DEF Holders
<1> QED
  BY <1>1, <1>2, FS_Subset, FS_CardinalityType

\* The initial table satisfies the invariant.
LEMMA InitIInv == Init => IInv
<1> SUFFICES ASSUME Init PROVE IInv
  OBVIOUS
<1> USE HandleAssumption DEF Init, Slot, Empty
<1>1. TypeOK
  BY DEF TypeOK
<1>2. UniqueIds /\ IdsBounded /\ HandleNamesOneObject
  BY DEF UniqueIds, IdsBounded, HandleNamesOneObject
<1>3. SlotsLive /\ HeldFound /\ CountExact /\ CallsUnderWay /\ DeleterLocked
  BY DEF SlotsLive, HeldFound, CountExact, CallsUnderWay, DeleterLocked
<1> QED
  BY <1>1, <1>2, <1>3 DEF IInv

\* Creating a handle: the new id is larger than every id in sight, so only the
\* caller's new reference is for it.
LEMMA NewIInv ==
    ASSUME IInv, NEW t \in Thread, NEW o \in Object, NEW k \in Token,
           NEW in \in Token \cup {NoToken}, New(t, o, k, in)
    PROVE  IInv'
<1> USE HandleAssumption
<1>1. PICK i \in Slot : /\ refs[i].id = 0
                       /\ refs' = [refs EXCEPT ![i] = [id |-> curid + 1, data |-> o, count |-> 1]]
                       /\ at' = [at EXCEPT ![t] = i]
  BY DEF New, FreeSlot, Finds, Allocated
<1>2. /\ loaded /\ mutex = NoThread /\ pc[t] = "idle" /\ life[o] = "unused"
      /\ holds[k] = 0 /\ \A s \in Thread : tok[s] # k
      /\ curid' = curid + 1 /\ issued' = issued \cup {<<curid + 1, o>>}
      /\ holds' = [holds EXCEPT ![k] = curid + 1]
      /\ life' = [life EXCEPT ![o] = "live"]
      /\ pc' = [pc EXCEPT ![t] = "new"] /\ tok' = [tok EXCEPT ![t] = k]
      /\ UNCHANGED <<loaded, mutex>>
  BY DEF New, MayCall, Spare, AtHand
<1>3. owner' \in [Token -> Object \cup {NoObject}]
  BY DEF New, IInv, TypeOK
<1>4. TypeOK /\ UniqueIds /\ IdsBounded /\ HandleNamesOneObject /\ SlotsLive /\ HeldFound
      /\ CountExact /\ CallsUnderWay /\ DeleterLocked
  BY DEF IInv
<1>5. TypeOK'
  <2>1. refs' \in [Slot -> [id : Nat, data : Object \cup {NoObject}, count : Nat]]
    BY <1>1, <1>4 DEF TypeOK
  <2>2. at' \in [Thread -> Slot] /\ curid' \in Nat /\ holds' \in [Token -> Nat]
    BY <1>1, <1>2, <1>4 DEF TypeOK
  <2>3. issued' \subseteq Nat \X Object
    BY <1>2, <1>4 DEF TypeOK
  <2>4. /\ loaded' \in BOOLEAN /\ mutex' \in Thread \cup {NoThread}
        /\ pc' \in [Thread -> {"idle", "new", "data", "deleter", "relock"}]
        /\ tok' \in [Thread -> Token \cup {NoToken}]
        /\ life' \in [Object -> {"unused", "live", "dying", "dead", "leaked"}]
    BY <1>2, <1>4 DEF TypeOK
  <2> QED
    BY <1>3, <2>1, <2>2, <2>3, <2>4 DEF TypeOK
<1>6. \A j \in Slot : refs'[j] = IF j = i THEN [id |-> curid + 1, data |-> o, count |-> 1] ELSE refs[j]
  BY <1>1, <1>4 DEF TypeOK
<1>7. \A j \in Token : holds'[j] = IF j = k THEN curid + 1 ELSE holds[j]
  BY <1>2, <1>4 DEF TypeOK
<1>8. UniqueIds' /\ IdsBounded'
  BY <1>1, <1>2, <1>4, <1>6, <1>7 DEF UniqueIds, IdsBounded, TypeOK
<1>9. HandleNamesOneObject'
  BY <1>2, <1>4 DEF HandleNamesOneObject, IdsBounded, TypeOK
<1>10. SlotsLive'
  BY <1>1, <1>2, <1>4, <1>6 DEF SlotsLive, TypeOK
<1>11. HeldFound'
  BY <1>1, <1>2, <1>4, <1>6, <1>7 DEF HeldFound, TypeOK
<1>12. CountExact'
  <2>1. ASSUME NEW j \in Slot, refs'[j].id # 0
        PROVE  refs'[j].count = Cardinality({m \in Token : holds'[m] = refs'[j].id})
    <3>1. CASE j = i
      <4>1. {m \in Token : holds'[m] = refs'[j].id} = {k}
        BY <3>1, <1>4, <1>6, <1>7 DEF IdsBounded, TypeOK
      <4>2. Cardinality({k}) = 1
        BY FS_Singleton
      <4>3. refs'[j].count = 1
        BY <3>1, <1>6
      <4> QED
        BY <4>1, <4>2, <4>3
    <3>2. CASE j # i
      <4>1. {m \in Token : holds'[m] = refs'[j].id} = Holders(refs[j].id)
        BY <2>1, <3>2, <1>2, <1>4, <1>6, <1>7 DEF Holders, IdsBounded, TypeOK
      <4> QED
        BY <2>1, <3>2, <4>1, <1>2, <1>4, <1>6 DEF CountExact
    <3> QED
      BY <3>1, <3>2
  <2> QED
    BY <2>1 DEF CountExact, Holders
<1>13. CallsUnderWay'
  BY <1>1, <1>2, <1>4, <1>6, <1>7 DEF CallsUnderWay, TypeOK
<1>14. DeleterLocked'
  BY <1>2, <1>4 DEF DeleterLocked, TypeOK
<1> QED
  BY <1>5, <1>8, <1>9, <1>10, <1>11, <1>12, <1>13, <1>14 DEF IInv

\* One more reference: the counter and the set of references grow together.
LEMMA ReferenceIInv ==
    ASSUME IInv, NEW t \in Thread, NEW k \in Token, NEW j \in Token, Reference(t, k, j)
    PROVE  IInv'
<1> USE HandleAssumption
<1>1. PICK i \in Slot : refs[i].id = holds[k] /\ refs' = [refs EXCEPT ![i].count = @ + 1]
  BY DEF Reference, Finds
<1>2. /\ loaded /\ mutex = NoThread /\ holds[k] # 0 /\ holds[j] = 0
      /\ \A s \in Thread : tok[s] # j
      /\ holds' = [holds EXCEPT ![j] = holds[k]]
      /\ UNCHANGED <<loaded, curid, mutex, pc, at, tok, owner, life, issued>>
  BY DEF Reference, MayCall, Held, Spare, AtHand
<1>3. TypeOK /\ UniqueIds /\ IdsBounded /\ HandleNamesOneObject /\ SlotsLive /\ HeldFound
      /\ CountExact /\ CallsUnderWay /\ DeleterLocked
  BY DEF IInv
<1>4. TypeOK'
  BY <1>1, <1>2, <1>3 DEF TypeOK
<1>5. \A m \in Slot : /\ refs'[m].id = refs[m].id /\ refs'[m].data = refs[m].data
                      /\ refs'[m].count = IF m = i THEN refs[m].count + 1 ELSE refs[m].count
  BY <1>1, <1>3 DEF TypeOK
<1>6. \A m \in Token : holds'[m] = IF m = j THEN holds[k] ELSE holds[m]
  BY <1>2, <1>3 DEF TypeOK
<1>7. UniqueIds' /\ IdsBounded' /\ HandleNamesOneObject' /\ SlotsLive'
  BY <1>2, <1>3, <1>5, <1>6 DEF UniqueIds, IdsBounded, HandleNamesOneObject, SlotsLive
<1>8. HeldFound' /\ CallsUnderWay' /\ DeleterLocked'
  BY <1>1, <1>2, <1>3, <1>5, <1>6 DEF HeldFound, CallsUnderWay, DeleterLocked, TypeOK
<1>9. CountExact'
  <2>1. ASSUME NEW m \in Slot, refs'[m].id # 0
        PROVE  refs'[m].count = Cardinality({x \in Token : holds'[x] = refs'[m].id})
    <3>1. CASE m = i
      <4>1. {x \in Token : holds'[x] = refs'[m].id} = Holders(refs[i].id) \cup {j}
        BY <3>1, <1>1, <1>5, <1>6 DEF Holders
      <4>2. j \notin Holders(refs[i].id)
        BY <1>1, <1>2 DEF Holders
      <4>3. Cardinality(Holders(refs[i].id) \cup {j}) = Cardinality(Holders(refs[i].id)) + 1
        BY <4>2, HoldersFinite, FS_AddElement
      <4>4. refs[i].count = Cardinality(Holders(refs[i].id))
        BY <1>1, <1>2, <1>3 DEF CountExact
      <4> QED
        BY <3>1, <4>1, <4>3, <4>4, <1>5
    <3>2. CASE m # i
      <4>1. {x \in Token : holds'[x] = refs'[m].id} = Holders(refs[m].id)
        BY <2>1, <3>2, <1>1, <1>2, <1>3, <1>5, <1>6 DEF Holders, UniqueIds
      <4> QED
        BY <2>1, <3>2, <4>1, <1>2, <1>3, <1>5 DEF CountExact
    <3> QED
      BY <3>1, <3>2
  <2> QED
    BY <2>1 DEF CountExact, Holders
<1> QED
  BY <1>4, <1>7, <1>8, <1>9 DEF IInv

\* One reference less.  When the counter says it was the last one there is no
\* other, neither idle nor in use by a call that has yet to return.
LEMMA UnreferenceIInv ==
    ASSUME IInv, NEW t \in Thread, NEW k \in Token, Unreference(t, k)
    PROVE  IInv'
<1> USE HandleAssumption
<1>1. PICK i \in Slot :
        /\ refs[i].id = holds[k]
        /\ \/ /\ refs[i].count # 1
              /\ refs' = [refs EXCEPT ![i].count = @ - 1]
              /\ UNCHANGED <<mutex, pc, at, life>>
           \/ /\ refs[i].count = 1
              /\ refs' = [refs EXCEPT ![i] = [id |-> 0, data |-> refs[i].data, count |-> 0]]
              /\ mutex' = t
              /\ pc' = [pc EXCEPT ![t] = "deleter"]
              /\ at' = [at EXCEPT ![t] = i]
              /\ life' = [life EXCEPT ![refs[i].data] = "dying"]
  BY DEF Unreference, Finds
<1>2. /\ loaded /\ mutex = NoThread /\ holds[k] # 0
      /\ pc[t] = "idle" /\ \A s \in Thread : tok[s] # k
      /\ holds' = [holds EXCEPT ![k] = 0]
      /\ UNCHANGED <<loaded, curid, tok, owner, issued>>
  BY DEF Unreference, MayCall, Held, AtHand
<1>3. TypeOK /\ UniqueIds /\ IdsBounded /\ HandleNamesOneObject /\ SlotsLive /\ HeldFound
      /\ CountExact /\ CallsUnderWay /\ DeleterLocked
  BY DEF IInv
<1>4. \A m \in Token : holds'[m] = IF m = k THEN 0 ELSE holds[m]
  BY <1>2, <1>3 DEF TypeOK
<1>5. refs[i].count = Cardinality(Holders(refs[i].id))
  BY <1>1, <1>2, <1>3 DEF CountExact
<1>6. k \in Holders(refs[i].id)
  BY <1>1 DEF Holders
<1>7. refs[i].count > 0 /\ Cardinality(Holders(refs[i].id) \ {k}) = refs[i].count - 1
  <2>1. Cardinality(Holders(refs[i].id) \ {k}) = Cardinality(Holders(refs[i].id)) - 1
    BY <1>6, HoldersFinite, FS_RemoveElement
  <2>2. Cardinality(Holders(refs[i].id)) # 0
    BY <1>6, HoldersFinite, FS_EmptySet
  <2> QED
    BY <2>1, <2>2, <1>5, HoldersFinite
<1>8. \A m \in Slot : m # i => refs'[m] = refs[m]
  BY <1>1, <1>3 DEF TypeOK
<1>9. \A m \in Slot : m # i /\ refs[m].id # 0 =>
        {x \in Token : holds'[x] = refs[m].id} = Holders(refs[m].id)
  BY <1>1, <1>2, <1>3, <1>4 DEF Holders, UniqueIds
<1>10. HandleNamesOneObject'
  BY <1>2, <1>3 DEF HandleNamesOneObject
<1>11. CASE refs[i].count # 1
  <2>1. refs' = [refs EXCEPT ![i].count = @ - 1] /\ UNCHANGED <<mutex, pc, at, life>>
    BY <1>1, <1>11
  <2>2. TypeOK'
    BY <2>1, <1>2, <1>3, <1>7 DEF TypeOK
  <2>3. /\ refs'[i].id = refs[i].id /\ refs'[i].data = refs[i].data
        /\ refs'[i].count = refs[i].count - 1
    BY <2>1, <1>3 DEF TypeOK
  <2>4. UniqueIds' /\ IdsBounded' /\ SlotsLive'
    BY <2>1, <2>3, <1>2, <1>3, <1>4, <1>8 DEF UniqueIds, IdsBounded, SlotsLive, TypeOK
  <2>5. \A m \in Slot : refs'[m].id = refs[m].id /\ refs'[m].data = refs[m].data
    BY <2>3, <1>8
  <2>6. HeldFound'
    BY <2>5, <1>2, <1>3, <1>4 DEF HeldFound
  <2>7. CallsUnderWay'
    BY <2>1, <2>5, <1>2, <1>3, <1>4 DEF CallsUnderWay, TypeOK
  <2>8. DeleterLocked'
    BY <2>1, <2>5, <1>2, <1>3 DEF DeleterLocked, TypeOK
  <2>9. CountExact'
    <3>1. {x \in Token : holds'[x] = refs[i].id} = Holders(refs[i].id) \ {k}
      BY <1>1, <1>2, <1>4 DEF Holders
    <3>2. ASSUME NEW m \in Slot, refs'[m].id # 0
          PROVE  refs'[m].count = Cardinality({x \in Token : holds'[x] = refs'[m].id})
      <4>1. CASE m = i
        BY <4>1, <3>1, <2>3, <1>7
      <4>2. CASE m # i
        <5>1. refs'[m] = refs[m] /\ refs[m].count = Cardinality(Holders(refs[m].id))
          BY <4>2, <3>2, <1>2, <1>3, <1>8 DEF CountExact
        <5> QED
          BY <4>2, <5>1, <3>2, <1>9
      <4> QED
        BY <4>1, <4>2
    <3> QED
      BY <3>2 DEF CountExact, Holders
  <2> QED
    BY <2>2, <2>4, <2>6, <2>7, <2>8, <2>9, <1>10 DEF IInv
<1>12. CASE refs[i].count = 1
  <2>1. /\ refs' = [refs EXCEPT ![i] = [id |-> 0, data |-> refs[i].data, count |-> 0]]
        /\ mutex' = t /\ pc' = [pc EXCEPT ![t] = "deleter"]
        /\ at' = [at EXCEPT ![t] = i]
        /\ life' = [life EXCEPT ![refs[i].data] = "dying"]
    BY <1>1, <1>12
  <2>2. refs[i].data \in Object
    BY <1>1, <1>2, <1>3 DEF SlotsLive
  <2>3. TypeOK'
    BY <2>1, <2>2, <1>2, <1>3 DEF TypeOK
  <2>4. refs'[i].id = 0 /\ refs'[i].data = refs[i].data /\ refs'[i].count = 0
    BY <2>1, <1>3 DEF TypeOK
  <2>5. \A x \in Token : holds[x] = refs[i].id => x = k
    <3>1. \E y : Holders(refs[i].id) = {y}
      BY <1>5, <1>12, HoldersFinite, FS_Singleton
    <3> QED
      BY <3>1, <1>6 DEF Holders
  <2>6. UniqueIds' /\ IdsBounded'
    <3>1. UniqueIds'
      BY <2>4, <1>3, <1>8 DEF UniqueIds
    <3>2. IdsBounded'
      BY <2>4, <1>2, <1>3, <1>4, <1>8 DEF IdsBounded, TypeOK
    <3> QED
      BY <3>1, <3>2
  <2>7. SlotsLive'
    BY <2>1, <2>2, <2>4, <1>1, <1>2, <1>3, <1>8 DEF SlotsLive, TypeOK
  <2>8. HeldFound'
    BY <2>4, <2>5, <1>2, <1>3, <1>4, <1>8 DEF HeldFound, TypeOK
  <2>9. CountExact'
    <3>1. ASSUME NEW m \in Slot, refs'[m].id # 0
          PROVE  refs'[m].count = Cardinality({x \in Token : holds'[x] = refs'[m].id})
      <4>1. m # i
        BY <3>1, <2>4
      <4>2. refs'[m] = refs[m] /\ refs[m].count = Cardinality(Holders(refs[m].id))
        BY <4>1, <3>1, <1>2, <1>3, <1>8 DEF CountExact
      <4> QED
        BY <4>1, <4>2, <3>1, <1>9
    <3> QED
      BY <3>1 DEF CountExact, Holders
  <2>10. CallsUnderWay'
    <3> SUFFICES ASSUME NEW s \in Thread, pc'[s] \in {"new", "data"}
                 PROVE  /\ loaded' /\ tok'[s] \in Token /\ holds'[tok'[s]] # 0
                        /\ refs'[at'[s]].id = holds'[tok'[s]]
      BY DEF CallsUnderWay
    <3>1. s # t /\ pc[s] \in {"new", "data"} /\ at'[s] = at[s] /\ at[s] \in Slot
      BY <2>1, <1>3 DEF TypeOK
    <3>2. tok[s] \in Token /\ holds[tok[s]] # 0 /\ refs[at[s]].id = holds[tok[s]]
      BY <3>1, <1>3 DEF CallsUnderWay
    <3>3. at[s] # i
      BY <3>2, <2>5, <1>2
    <3> QED
      BY <3>1, <3>2, <3>3, <1>2, <1>4, <1>8
  <2>11. DeleterLocked'
    BY <2>1, <2>2, <2>4, <1>2, <1>3 DEF DeleterLocked, TypeOK
  <2> QED
    BY <2>3, <2>6, <2>7, <2>8, <2>9, <2>10, <2>11, <1>10 DEF IInv
<1> QED
  BY <1>11, <1>12

\* The steps of a call that do not touch the table.
LEMMA CallIInv ==
    ASSUME IInv, NEW t \in Thread,
           \/ Return(t) \/ Deleter(t) \/ DeleterCallsBack(t)
           \/ \E k \in Token : Data(t, k)
    PROVE  IInv'
<1> USE HandleAssumption
<1>1. TypeOK /\ UniqueIds /\ IdsBounded /\ HandleNamesOneObject /\ SlotsLive /\ HeldFound
      /\ CountExact /\ CallsUnderWay /\ DeleterLocked
  BY DEF IInv
<1>2. /\ UNCHANGED <<loaded, refs, curid, holds, owner, issued>>
  BY DEF Return, Deleter, DeleterCallsBack, Data
<1>3. UniqueIds' /\ IdsBounded' /\ HandleNamesOneObject' /\ HeldFound' /\ CountExact'
  BY <1>1, <1>2 DEF UniqueIds, IdsBounded, HandleNamesOneObject, HeldFound, CountExact, Holders
<1>4. CASE Return(t) \/ DeleterCallsBack(t)
  <2>1. TypeOK' /\ SlotsLive' /\ CallsUnderWay' /\ DeleterLocked'
    BY <1>1, <1>4 DEF Return, DeleterCallsBack, TypeOK, SlotsLive, CallsUnderWay, DeleterLocked
  <2> QED
    BY <1>3, <2>1 DEF IInv
<1>5. CASE Deleter(t)
  <2>1. refs[at[t]].data \in Object /\ life[refs[at[t]].data] = "dying" /\ mutex = t
    BY <1>1, <1>5 DEF Deleter, DeleterLocked
  <2>2. TypeOK' /\ SlotsLive' /\ CallsUnderWay'
    BY <1>1, <1>5, <2>1 DEF Deleter, TypeOK, SlotsLive, CallsUnderWay
  <2>3. DeleterLocked'
    BY <1>1, <1>5, <2>1 DEF Deleter, TypeOK, DeleterLocked
  <2> QED
    BY <1>3, <2>2, <2>3 DEF IInv
<1>6. ASSUME NEW k \in Token, Data(t, k) PROVE IInv'
  <2>1. PICK i \in Slot : refs[i].id = holds[k] /\ at' = [at EXCEPT ![t] = i]
    BY <1>6 DEF Data, Finds
  <2>2. TypeOK' /\ SlotsLive' /\ CallsUnderWay' /\ DeleterLocked'
    BY <1>1, <1>6, <2>1
    DEF Data, MayCall, Held, TypeOK, SlotsLive, CallsUnderWay, DeleterLocked
  <2> QED
    BY <1>3, <2>2 DEF IInv
<1> QED
  BY <1>4, <1>5, <1>6

\* Unloading and loading the table.
LEMMA LoadIInv == ASSUME IInv, Unload \/ Load PROVE IInv'
<1> USE HandleAssumption
<1>1. TypeOK /\ UniqueIds /\ IdsBounded /\ HandleNamesOneObject /\ SlotsLive /\ HeldFound
      /\ CountExact /\ CallsUnderWay /\ DeleterLocked
  BY DEF IInv
<1>2. CASE Unload
  <2>1. TypeOK'
    <3>1. holds' \in [Token -> Nat] /\ owner' \in [Token -> Object \cup {NoObject}]
      BY <1>2 DEF Unload
    <3>2. life' \in [Object -> {"unused", "live", "dying", "dead", "leaked"}]
      BY <1>1, <1>2 DEF Unload, TypeOK
    <3> QED
      BY <1>1, <1>2, <3>1, <3>2 DEF Unload, TypeOK
  <2>3. UniqueIds' /\ IdsBounded' /\ HandleNamesOneObject'
    BY <1>1, <1>2 DEF Unload, TypeOK, UniqueIds, IdsBounded, HandleNamesOneObject
  <2>2. SlotsLive' /\ HeldFound' /\ CountExact' /\ CallsUnderWay' /\ DeleterLocked'
    BY <1>1, <1>2 DEF Unload, SlotsLive, HeldFound, CountExact, CallsUnderWay, DeleterLocked
  <2> QED
    BY <2>1, <2>2, <2>3 DEF IInv
<1>3. CASE Load
  <2>1. ~loaded /\ refs' = [i \in Slot |-> Empty]
        /\ UNCHANGED <<curid, mutex, pc, at, tok, holds, owner, life, issued>>
    BY <1>3 DEF Load
  <2>2. TypeOK' /\ UniqueIds' /\ IdsBounded' /\ HandleNamesOneObject'
    BY <1>1, <1>3, <2>1 DEF Load, Empty, TypeOK, UniqueIds, IdsBounded, HandleNamesOneObject
  <2>3. SlotsLive' /\ CountExact' /\ CallsUnderWay' /\ DeleterLocked'
    BY <1>1, <2>1 DEF Empty, SlotsLive, CountExact, CallsUnderWay, DeleterLocked
  <2>4. HeldFound'
    BY <1>1, <2>1 DEF HeldFound
  <2> QED
    BY <2>2, <2>3, <2>4 DEF IInv
<1> QED
  BY <1>2, <1>3

\* The invariant is inductive.
LEMMA NextIInv == IInv /\ [Next]_vars => IInv'
<1> SUFFICES ASSUME IInv, [Next]_vars PROVE IInv'
  OBVIOUS
<1>1. ASSUME NEW t \in Thread, Step(t) PROVE IInv'
  <2>1. CASE NewFails(t)
    BY <2>1 DEF NewFails, vars, IInv, TypeOK, UniqueIds, IdsBounded, HandleNamesOneObject, SlotsLive,
                HeldFound, CountExact, Holders, CallsUnderWay, DeleterLocked
  <2> QED
    BY <1>1, <2>1, NewIInv, ReferenceIInv, UnreferenceIInv, CallIInv DEF Step
<1>2. CASE UNCHANGED vars
  BY <1>2 DEF vars, IInv, TypeOK, UniqueIds, IdsBounded, HandleNamesOneObject, SlotsLive,
              HeldFound, CountExact, Holders, CallsUnderWay, DeleterLocked
<1> QED
  BY <1>1, <1>2, LoadIInv DEF Next

\* The inductive invariant implies the properties MCHandle.cfg checks.
LEMMA IInvImplies ==
    IInv => TypeOK /\ CountExact /\ UniqueIds /\ HeldStaysLive /\ ReturnsOwn /\ HandleNamesOneObject
<1> SUFFICES ASSUME IInv PROVE HeldStaysLive /\ ReturnsOwn
  BY DEF IInv
<1>1. HeldStaysLive
  BY DEF IInv, HeldStaysLive, Fatal, HeldFound, SlotsLive
<1>2. ReturnsOwn
  BY DEF IInv, ReturnsOwn, CallsUnderWay, SlotsLive, TypeOK
<1> QED
  BY <1>1, <1>2

-----------------------------------------------------------------------------
\* Every reachable state of the table has the types the code's structs say.
THEOREM TypeCorrect == Spec => []TypeOK
  BY InitIInv, NextIInv, IInvImplies, PTL DEF Spec

\* handle.c counts right: a slot's count is the number of references held to its
\* handle, at every step of any number of threads.
THEOREM CountsAreExact == Spec => []CountExact
  BY InitIInv, NextIInv, IInvImplies, PTL DEF Spec

\* handle.c never deletes the object behind a handle somebody still holds, and
\* never calls such a handle invalid.
THEOREM HeldHandlesStayLive == Spec => []HeldStaysLive
  BY InitIInv, NextIInv, IInvImplies, PTL DEF Spec

\* The reads of ref->id and ref->data after the unlock are safe for a caller
\* that holds a reference.
THEOREM UnlockedReadsAreOwn == Spec => []ReturnsOwn
  BY InitIInv, NextIInv, IInvImplies, PTL DEF Spec

\* An id is never given to a second object, across slot reuse and reloading.
THEOREM HandlesAreNotReused == Spec => [](UniqueIds /\ HandleNamesOneObject)
  BY InitIInv, NextIInv, IInvImplies, PTL DEF Spec

=============================================================================

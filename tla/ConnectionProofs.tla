-------------------------- MODULE ConnectionProofs --------------------------
(***************************************************************************)
(* Proofs about one connection: for any number of requests of any length,  *)
(* cut into pieces in any way, and for any size of the two buffers, the    *)
(* stream stays framed, answers and requests stay in step, and the         *)
(* response's header lines stay within its buffer.                         *)
(***************************************************************************)
EXTENDS Connection, WellFoundedInduction, SequenceTheorems, TLAPS

-----------------------------------------------------------------------------
(* Where requests end.  End is a recursive function: what it is for every  *)
(* request follows from there being no first one for which it is not.      *)

\* A set of natural numbers that is not empty has a least element.
LEMMA LeastElement ==
    ASSUME NEW T \in SUBSET Nat, T # {}
    PROVE  \E x \in T : \A y \in T : x <= y
  <1>1. PICK x \in T : \A y \in T : ~(<<y, x>> \in OpToRel(<, Nat))
    BY NatLessThanWellFounded, WFMin
  <1>2. \A y \in T : ~(y < x)
    BY <1>1 DEF OpToRel
  <1>3. QED
    BY <1>2

\* The lengths are numbers.
LEMMA Lengths ==
    /\ N \in Nat /\ SizeT \in Nat /\ BufMax \in Nat \ {0} /\ BufMax < SizeT
    /\ \A i \in 1..N : HeadLen[i] \in Nat \ {0} /\ BodyLen[i] \in Nat /\ BodyLen[i] < SizeT
  <1>1. HeadLen \in Seq(Nat \ {0}) /\ N \in Nat
    BY ConnectionAssumption, LenProperties DEF N
  <1>2. \A i \in 1..N : HeadLen[i] \in Nat \ {0}
    BY <1>1, ElementOfSeq DEF N
  <1>3. QED
    BY <1>1, <1>2, ConnectionAssumption

\* f adds up the lengths of the first n requests.
AddsUp(f, n) ==
    /\ f \in [0..n -> Nat] /\ f[0] = 0
    /\ \A i \in 1..n : f[i] = f[i - 1] + HeadLen[i] + BodyLen[i]

\* Some function does, for every n.
LEMMA SumExists == \E f : AddsUp(f, N)
  <1> DEFINE T == {n \in 0..N : ~\E f : AddsUp(f, n)}
  <1>1. SUFFICES ASSUME T # {} PROVE FALSE
    BY Lengths
  <1>2. PICK n \in T : \A m \in T : n <= m
    <2>1. T \in SUBSET Nat
      BY Lengths
    <2> HIDE DEF T
    <2>2. QED
      BY <1>1, <2>1, LeastElement
  <1>3. n # 0
    <2>1. [i \in 0..0 |-> 0] \in [0..0 -> Nat] /\ [i \in 0..0 |-> 0][0] = 0 /\ \A i \in 1..0 : FALSE
      OBVIOUS
    <2>2. AddsUp([i \in 0..0 |-> 0], 0)
      BY <2>1 DEF AddsUp
    <2>3. QED
      BY <1>2, <2>2
  <1>4. n - 1 \in 0..N /\ n - 1 \notin T /\ n \in 1..N
    BY <1>2, <1>3, Lengths
  <1>5. PICK g : AddsUp(g, n - 1)
    BY <1>4
  <1> HIDE DEF T
  <1> DEFINE f == [i \in 0..n |-> IF i = n THEN g[n - 1] + HeadLen[n] + BodyLen[n] ELSE g[i]]
  <1>6. \A i \in 0..(n - 1) : g[i] \in Nat /\ f[i] = g[i] /\ i \in 0..n
    BY <1>4, <1>5, Lengths DEF AddsUp
  <1>7. f[n] = g[n - 1] + HeadLen[n] + BodyLen[n] /\ g[n - 1] \in Nat /\ n - 1 \in 0..(n - 1)
    <2>1. n \in Nat \ {0} /\ n \in 0..n /\ n - 1 \in 0..(n - 1)
      BY <1>4, Lengths
    <2>2. g[n - 1] \in Nat
      BY <1>6, <2>1
    <2>3. f[n] = g[n - 1] + HeadLen[n] + BodyLen[n]
      BY <2>1
    <2>4. QED
      BY <2>1, <2>2, <2>3
  <1>8. f \in [0..n -> Nat]
    <2>1. HeadLen[n] \in Nat /\ BodyLen[n] \in Nat
      BY <1>4, Lengths
    <2>2. \A i \in 0..n : i = n \/ i \in 0..(n - 1)
      BY <1>4, Lengths
    <2>3. \A i \in 0..n : f[i] \in Nat
      <3>1. g[n - 1] + HeadLen[n] + BodyLen[n] \in Nat
        BY <1>7, <2>1
      <3> HIDE DEF f
      <3>2. QED
        BY <1>6, <1>7, <2>2, <3>1
    <2>4. QED
      BY <2>3
  <1>9. ASSUME NEW i \in 1..n PROVE f[i] = f[i - 1] + HeadLen[i] + BodyLen[i]
    <2>1. CASE i = n
      BY <1>6, <1>7, <2>1
    <2>2. CASE i # n
      <3>1. i \in 1..(n - 1) /\ i - 1 \in 0..(n - 1) /\ i \in 0..(n - 1)
        BY <1>4, <2>2, Lengths
      <3>2. g[i] = g[i - 1] + HeadLen[i] + BodyLen[i]
        BY <1>5, <3>1 DEF AddsUp
      <3>3. QED
        BY <1>6, <3>1, <3>2
    <2>3. QED
      BY <2>1, <2>2
  <1>10. f[0] = 0
    <2>1. 0 \in 0..(n - 1)
      BY <1>4, Lengths
    <2>2. QED
      BY <1>5, <1>6, <2>1 DEF AddsUp
  <1> HIDE DEF f
  <1>11. AddsUp(f, n)
    BY <1>8, <1>9, <1>10 DEF AddsUp
  <1>12. QED
    BY <1>2, <1>11 DEF T

\* So End is what its definition says.
LEMMA EndDefined == End = [i \in 0..N |-> IF i = 0 THEN 0 ELSE End[i - 1] + HeadLen[i] + BodyLen[i]]
  <1>1. PICK f : AddsUp(f, N)
    BY SumExists
  <1>2. f = [i \in 0..N |-> f[i]]
    BY <1>1 DEF AddsUp
  <1>3. \A i \in 0..N : f[i] = IF i = 0 THEN 0 ELSE f[i - 1] + HeadLen[i] + BodyLen[i]
    BY <1>1, Lengths DEF AddsUp
  <1>4. f = [i \in 0..N |-> IF i = 0 THEN 0 ELSE f[i - 1] + HeadLen[i] + BodyLen[i]]
    BY <1>2, <1>3
  <1>5. QED
    BY <1>4 DEF End

\* Requests end at positions in the stream.
LEMMA EndTyped ==
    /\ End[0] = 0 /\ \A i \in 0..N : End[i] \in Nat
    /\ \A i \in 1..N : End[i] = End[i - 1] + HeadLen[i] + BodyLen[i]
  <1>1. End[0] = 0 /\ \A i \in 1..N : End[i] = End[i - 1] + HeadLen[i] + BodyLen[i]
    <2> DEFINE e == [i \in 0..N |-> IF i = 0 THEN 0 ELSE End[i - 1] + HeadLen[i] + BodyLen[i]]
    <2>1. \A i \in 0..N : e[i] = IF i = 0 THEN 0 ELSE End[i - 1] + HeadLen[i] + BodyLen[i]
      OBVIOUS
    <2> HIDE DEF e
    <2>2. End = e
      BY EndDefined DEF e
    <2>3. QED
      BY <2>1, <2>2, Lengths
  <1> DEFINE T == {n \in 0..N : End[n] \notin Nat}
  <1>2. ASSUME T # {} PROVE FALSE
    <2>1. PICK n \in T : \A m \in T : n <= m
      <3>1. T \in SUBSET Nat
        BY Lengths
      <3> HIDE DEF T
      <3>2. QED
        BY <1>2, <3>1, LeastElement
    <2>2. n \in 1..N /\ n - 1 \in 0..N /\ n - 1 \notin T
      BY <1>1, <2>1, Lengths
    <2>3. End[n - 1] \in Nat /\ HeadLen[n] \in Nat /\ BodyLen[n] \in Nat
      BY <2>2, Lengths
    <2>4. QED
      BY <1>1, <2>1, <2>2, <2>3
  <1>3. QED
    BY <1>1, <1>2

\* A later request ends later.
LEMMA EndMonotone == \A i, j \in 0..N : i <= j => End[i] <= End[j]
  <1>1. SUFFICES ASSUME NEW i \in 0..N PROVE \A j \in 0..N : i <= j => End[i] <= End[j]
    OBVIOUS
  <1> DEFINE T == {n \in 0..N : i <= n /\ ~(End[i] <= End[n])}
  <1>2. ASSUME T # {} PROVE FALSE
    <2>1. PICK n \in T : \A m \in T : n <= m
      <3>1. T \in SUBSET Nat
        BY Lengths
      <3> HIDE DEF T
      <3>2. QED
        BY <1>2, <3>1, LeastElement
    <2>2. n # i
      BY <2>1, EndTyped
    <2>3. n \in 1..N /\ n - 1 \in 0..N /\ i <= n - 1 /\ n - 1 \notin T
      BY <2>1, <2>2, Lengths
    <2>4. End[i] <= End[n - 1]
      BY <2>3
    <2>5. End[n - 1] <= End[n]
      BY <2>3, EndTyped, Lengths
    <2>6. QED
      BY <2>1, <2>3, <2>4, <2>5, EndTyped
  <1>3. QED
    BY <1>2

\* The heads lie in the stream one behind the other.
LEMMA Heads ==
    /\ \A i \in 1..N : /\ HeadEnd(i) \in Nat /\ HeadEnd(i) > End[i - 1] /\ HeadEnd(i) <= End[i]
                       /\ End[i] = HeadEnd(i) + BodyLen[i] /\ HeadEnd(i) > 0
    /\ \A i, j \in 1..N : i < j => HeadEnd(i) < HeadEnd(j)
  <1>1. ASSUME NEW i \in 1..N
        PROVE  /\ HeadEnd(i) \in Nat /\ HeadEnd(i) > End[i - 1] /\ HeadEnd(i) <= End[i]
               /\ End[i] = HeadEnd(i) + BodyLen[i] /\ HeadEnd(i) > 0
    <2>1. i - 1 \in 0..N /\ i \in 0..N
      BY <1>1, Lengths
    <2>2. QED
      BY <1>1, <2>1, EndTyped, Lengths DEF HeadEnd
  <1>2. ASSUME NEW i \in 1..N, NEW j \in 1..N, i < j PROVE HeadEnd(i) < HeadEnd(j)
    <2>1. End[i] <= End[j - 1] /\ i \in 0..N /\ j - 1 \in 0..N
      BY <1>2, EndMonotone, Lengths
    <2>2. QED
      BY <1>1, <2>1, EndTyped
  <1>3. QED
    BY <1>1, <1>2

\* The head that is parsed is the first one among the bytes.
FirstHead(first, n) ==
    CHOOSE i \in HeadsWithin(first, n) : \A j \in HeadsWithin(first, n) : i <= j

\* There is a first one.
LEMMA FirstHeadIsFirst ==
    ASSUME NEW first \in Nat, NEW n \in Nat, HeadsWithin(first, n) # {}
    PROVE  /\ FirstHead(first, n) \in 1..N
           /\ HeadEnd(FirstHead(first, n)) > first /\ HeadEnd(FirstHead(first, n)) <= first + n
           /\ \A j \in HeadsWithin(first, n) : FirstHead(first, n) <= j
  <1>1. HeadsWithin(first, n) \in SUBSET Nat
    BY Lengths DEF HeadsWithin
  <1>2. \E i \in HeadsWithin(first, n) : \A j \in HeadsWithin(first, n) : i <= j
    BY <1>1, LeastElement
  <1>3. /\ FirstHead(first, n) \in HeadsWithin(first, n)
        /\ \A j \in HeadsWithin(first, n) : FirstHead(first, n) <= j
    BY <1>2 DEF FirstHead
  <1>4. QED
    BY <1>3 DEF HeadsWithin

\* When the bytes start where a request ended, it is that of the next request.
LEMMA FirstHeadIsNext ==
    ASSUME NEW k \in 0..N, NEW n \in Nat, HeadsWithin(End[k], n) # {}
    PROVE  k + 1 \in 1..N /\ FirstHead(End[k], n) = k + 1
  <1> DEFINE i == FirstHead(End[k], n)
  <1>1. End[k] \in Nat
    BY EndTyped
  <1>2. i \in 1..N /\ HeadEnd(i) > End[k] /\ HeadEnd(i) <= End[k] + n
        /\ \A j \in HeadsWithin(End[k], n) : i <= j
    BY <1>1, FirstHeadIsFirst
  <1>3. i > k
    <2>1. SUFFICES ASSUME i <= k PROVE FALSE
      BY <1>2, Lengths
    <2>2. HeadEnd(i) <= End[i] /\ End[i] <= End[k] /\ HeadEnd(i) \in Nat /\ End[i] \in Nat
      BY <1>2, <2>1, Heads, EndMonotone, EndTyped, Lengths
    <2>3. QED
      BY <1>1, <1>2, <2>2
  <1>4. k + 1 \in 1..N
    BY <1>2, <1>3, Lengths
  <1>5. ASSUME k + 1 # i PROVE FALSE
    <2>1. k + 1 < i
      BY <1>2, <1>3, <1>5, Lengths
    <2>2. HeadEnd(k + 1) < HeadEnd(i) /\ HeadEnd(k + 1) > End[k] /\ HeadEnd(k + 1) \in Nat /\ HeadEnd(i) \in Nat
      BY <1>2, <1>4, <2>1, Heads
    <2>3. k + 1 \in HeadsWithin(End[k], n)
      BY <1>1, <1>2, <1>4, <2>2 DEF HeadsWithin
    <2>4. QED
      BY <1>2, <2>1, <2>3, Lengths
  <1>6. QED
    BY <1>4, <1>5

-----------------------------------------------------------------------------
(* Sizes.                                                                  *)

\* A size_t that does not wrap is the number it stands for.
LEMMA NoWrap == \A x \in 0..(SizeT - 1) : x % SizeT = x
  BY Lengths

\* What wraps is still a size_t.
LEMMA Wrapped == \A a, b \in Int : Minus(a, b) \in 0..(SizeT - 1)
  BY Lengths DEF Minus

\* A header line that is added to a response leaves room for the newline.
LEMMA AddedFits ==
    ASSUME NEW pos \in 0..(ResMax - 1), NEW len \in Nat
    PROVE  Added(pos, len) \in 0..(ResMax - 1)
  <1>1. ResMax \in Nat /\ ResMax < SizeT
    BY ConnectionAssumption, Lengths
  <1>2. ResMax - pos \in 0..(SizeT - 1) /\ (ResMax - pos) - 1 \in 0..(SizeT - 1)
    BY <1>1, Lengths
  <1>3. Minus(ResMax, pos) = ResMax - pos
    BY <1>2, NoWrap DEF Minus
  <1>4. Minus(Minus(ResMax, pos), 1) = (ResMax - pos) - 1
    BY <1>2, <1>3, NoWrap DEF Minus
  <1>5. Added(pos, len) = IF len > (ResMax - pos) - 1 THEN pos ELSE pos + len
    BY <1>4 DEF Added
  <1>6. QED
    BY <1>1, <1>5

-----------------------------------------------------------------------------
(* The inductive invariant.                                                *)

\* What was read ahead: the buffer has room left while a head is read, a requeue
\* buffer that was not emptied filled it, and a handler finds none of it left.
ReadAhead ==
    /\ pc = "read" => nbytes + requeue <= taken /\ nbytes < BufMax
    /\ pc = "recv" => /\ nbytes + frag + requeue <= taken /\ nbytes + frag <= BufMax /\ connected
                      /\ requeue > 0 => nbytes + frag = BufMax
    /\ pc = "handler" => requeue = 0 /\ buffered <= taken

\* The bytes in the request's buffer begin where the last request ended.
AtRequest ==
    ~astray =>
        /\ served <= N
        /\ pc = "read" => taken - requeue - nbytes = End[served]
        /\ pc = "recv" => taken - requeue - nbytes - frag = End[served]

\* Whether this request has been answered, and what the answer promised.
Answers ==
    /\ pc \in {"read", "recv"} => ~resSent /\ delivered = 0
    /\ ~astray /\ pc = "handler" =>
          /\ resSent /\ resKeep => keepalive /\ unread = 0
          /\ resSent => answered = served \/ ~connected
          /\ ~resSent => answered < served /\ (answered + 1 = served \/ ~connected)

\* Before the response is sent there is room for the newline.
Room == ~resSent => ~late /\ resPos < ResMax

Inv == TypeOK /\ ReadAhead /\ Framed /\ AtRequest /\ InStep /\ Answers /\ Room /\ ResponseFits

\* TypeOK with the Booleans one by one.
LEMMA Types ==
    TypeOK <=>
    /\ sent \in 0..Total /\ taken \in 0..sent /\ requeue \in 0..taken
    /\ open \in BOOLEAN /\ connected \in BOOLEAN /\ closed \in BOOLEAN /\ keepalive \in BOOLEAN
    /\ resKeep \in BOOLEAN /\ resSent \in BOOLEAN /\ astray \in BOOLEAN /\ overrun \in BOOLEAN
    /\ late \in BOOLEAN /\ dismissed \in BOOLEAN
    /\ pc \in {"start", "read", "recv", "refuse", "handler", "close", "over", "undefined", "abort"}
    /\ nbytes \in 0..BufMax /\ frag \in 0..BufMax /\ cur \in 0..N
    /\ unread \in 0..(SizeT - 1) /\ buffered \in 0..(SizeT - 1) /\ resPos \in Nat
    /\ served \in Nat /\ answered \in Nat /\ delivered \in Nat
  BY DEF TypeOK

\* The lengths of the response are numbers.
LEMMA ResponseLengths == ResMax \in Nat /\ LengthLen \in Nat
  BY ConnectionAssumption

\* The same of the next state.
LEMMA TypesNext ==
    TypeOK' <=>
    /\ sent' \in 0..Total /\ taken' \in 0..sent' /\ requeue' \in 0..taken'
    /\ open' \in BOOLEAN /\ connected' \in BOOLEAN /\ closed' \in BOOLEAN /\ keepalive' \in BOOLEAN
    /\ resKeep' \in BOOLEAN /\ resSent' \in BOOLEAN /\ astray' \in BOOLEAN /\ overrun' \in BOOLEAN
    /\ late' \in BOOLEAN /\ dismissed' \in BOOLEAN
    /\ pc' \in {"start", "read", "recv", "refuse", "handler", "close", "over", "undefined", "abort"}
    /\ nbytes' \in 0..BufMax /\ frag' \in 0..BufMax /\ cur' \in 0..N
    /\ unread' \in 0..(SizeT - 1) /\ buffered' \in 0..(SizeT - 1) /\ resPos' \in Nat
    /\ served' \in Nat /\ answered' \in Nat /\ delivered' \in Nat
  BY DEF TypeOK

\* The stream is at its first byte, and nothing was read.
LEMMA InitInv == Init => Inv
  <1>1. SUFFICES ASSUME Init PROVE Inv
    OBVIOUS
  <1>2. Total \in Nat /\ N \in Nat /\ End[0] = 0 /\ BufMax \in Nat /\ SizeT \in Nat \ {0} /\ ResMax \in Nat \ {0}
    BY EndTyped, Lengths, ConnectionAssumption DEF Total
  <1>3. TypeOK
    <2>1. /\ open \in BOOLEAN /\ connected \in BOOLEAN /\ closed \in BOOLEAN /\ keepalive \in BOOLEAN
          /\ resKeep \in BOOLEAN /\ resSent \in BOOLEAN /\ astray \in BOOLEAN /\ overrun \in BOOLEAN
          /\ late \in BOOLEAN /\ dismissed \in BOOLEAN
      BY <1>1 DEF Init
    <2>2. QED
      BY <1>1, <1>2, <2>1, Types DEF Init
  <1>4. ReadAhead /\ Answers /\ Room /\ ResponseFits
    BY <1>1, <1>2 DEF Init, ReadAhead, Answers, Room, ResponseFits
  <1>5. Framed /\ AtRequest /\ InStep
    BY <1>1, <1>2 DEF Init, Framed, AtRequest, InStep
  <1>6. QED
    BY <1>3, <1>4, <1>5 DEF Inv

\* The client sends some bytes.
LEMMA ClientSendsInv ==
    ASSUME Inv, dismissed' \in BOOLEAN, ClientSends
    PROVE  Inv'
  <1>1. /\ TypeOK /\ ReadAhead /\ Framed /\ AtRequest
        /\ InStep /\ Answers /\ Room /\ ResponseFits
    BY DEF Inv
  <1>2. /\ sent \in Nat /\ taken \in 0..sent /\ requeue \in 0..taken /\ nbytes \in 0..BufMax /\ frag \in 0..BufMax
        /\ unread \in Nat /\ buffered \in Nat /\ served \in Nat /\ answered \in Nat /\ delivered \in Nat
        /\ N \in Nat /\ BufMax \in Nat \ {0} /\ SizeT \in Nat /\ BufMax < SizeT /\ Total \in Nat
    BY <1>1, Types, Lengths, EndTyped DEF Total
  <1>3. /\ sent' \in (sent + 1)..Total
        /\ UNCHANGED <<open, taken, requeue, connected, closed, pc, nbytes, frag, cur, unread, buffered>>
        /\ UNCHANGED <<keepalive, resKeep, resSent, resPos, served, answered, delivered, astray, overrun, late>>
    BY DEF ClientSends, client, socket, request, response, history
  <1>4. TypeOK'
    BY <1>1, <1>2, <1>3, Types, TypesNext
  <1>5. ReadAhead'
    BY <1>1, <1>2, <1>3 DEF ReadAhead
  <1>6. Framed'
    BY <1>1, <1>2, <1>3 DEF Framed, AtRequest
  <1>7. AtRequest'
    BY <1>1, <1>2, <1>3 DEF Framed, AtRequest
  <1>8. InStep'
    BY <1>1, <1>2, <1>3 DEF InStep, Answers
  <1>9. Answers'
    BY <1>1, <1>2, <1>3 DEF InStep, Answers
  <1>10. Room'
    BY <1>1, <1>2, <1>3 DEF Room
  <1>11. ResponseFits'
    BY <1>1, <1>2, <1>3 DEF Room, ResponseFits
  <1>12. QED
    BY <1>4, <1>5, <1>6, <1>7, <1>8, <1>9, <1>10, <1>11 DEF Inv

\* The client closes its side.
LEMMA ClientClosesInv ==
    ASSUME Inv, dismissed' \in BOOLEAN, ClientCloses
    PROVE  Inv'
  <1>1. /\ TypeOK /\ ReadAhead /\ Framed /\ AtRequest
        /\ InStep /\ Answers /\ Room /\ ResponseFits
    BY DEF Inv
  <1>2. /\ sent \in Nat /\ taken \in 0..sent /\ requeue \in 0..taken /\ nbytes \in 0..BufMax /\ frag \in 0..BufMax
        /\ unread \in Nat /\ buffered \in Nat /\ served \in Nat /\ answered \in Nat /\ delivered \in Nat
        /\ N \in Nat /\ BufMax \in Nat \ {0} /\ SizeT \in Nat /\ BufMax < SizeT /\ Total \in Nat
    BY <1>1, Types, Lengths, EndTyped DEF Total
  <1>3. /\ open' = FALSE
        /\ UNCHANGED <<sent, taken, requeue, connected, closed, pc, nbytes, frag, cur, unread, buffered>>
        /\ UNCHANGED <<keepalive, resKeep, resSent, resPos, served, answered, delivered, astray, overrun, late>>
    BY DEF ClientCloses, client, socket, request, response, history
  <1>4. TypeOK'
    BY <1>1, <1>2, <1>3, Types, TypesNext
  <1>5. ReadAhead'
    BY <1>1, <1>2, <1>3 DEF ReadAhead
  <1>6. Framed'
    BY <1>1, <1>2, <1>3 DEF Framed, AtRequest
  <1>7. AtRequest'
    BY <1>1, <1>2, <1>3 DEF Framed, AtRequest
  <1>8. InStep'
    BY <1>1, <1>2, <1>3 DEF InStep, Answers
  <1>9. Answers'
    BY <1>1, <1>2, <1>3 DEF InStep, Answers
  <1>10. Room'
    BY <1>1, <1>2, <1>3 DEF Room
  <1>11. ResponseFits'
    BY <1>1, <1>2, <1>3 DEF Room, ResponseFits
  <1>12. QED
    BY <1>4, <1>5, <1>6, <1>7, <1>8, <1>9, <1>10, <1>11 DEF Inv

\* A request begins.
LEMMA BeginInv ==
    ASSUME Inv, dismissed' \in BOOLEAN, Begin
    PROVE  Inv'
  <1>1. /\ TypeOK /\ ReadAhead /\ Framed /\ AtRequest
        /\ InStep /\ Answers /\ Room /\ ResponseFits
    BY DEF Inv
  <1>2. /\ sent \in Nat /\ taken \in 0..sent /\ requeue \in 0..taken /\ nbytes \in 0..BufMax /\ frag \in 0..BufMax
        /\ unread \in Nat /\ buffered \in Nat /\ served \in Nat /\ answered \in Nat /\ delivered \in Nat
        /\ N \in Nat /\ BufMax \in Nat \ {0} /\ SizeT \in Nat /\ BufMax < SizeT /\ Total \in Nat
    BY <1>1, Types, Lengths, EndTyped DEF Total
  <1>3. /\ pc = "start" /\ nbytes' = 0 /\ keepalive' = TRUE /\ resKeep' = TRUE /\ resSent' = FALSE /\ resPos' = 0
        /\ delivered' = 0 /\ late' = FALSE /\ pc' = "read"
        /\ UNCHANGED <<sent, open, taken, requeue, connected, closed, frag, cur>>
        /\ UNCHANGED <<unread, buffered, served, answered, astray, overrun>>
    BY DEF Begin, client, socket, request, response, history
  <1>4. ResMax \in Nat \ {0}
    BY ConnectionAssumption
  <1>5. keepalive' \in BOOLEAN /\ resKeep' \in BOOLEAN /\ resSent' \in BOOLEAN /\ late' \in BOOLEAN
    BY <1>3
  <1>6. TypeOK'
    BY <1>1, <1>2, <1>3, <1>4, <1>5, Types, TypesNext
  <1>7. ReadAhead'
    BY <1>1, <1>2, <1>3, <1>4, <1>5 DEF ReadAhead
  <1>8. Framed'
    BY <1>1, <1>2, <1>3, <1>4, <1>5 DEF Framed, AtRequest
  <1>9. AtRequest'
    BY <1>1, <1>2, <1>3, <1>4, <1>5 DEF Framed, AtRequest
  <1>10. InStep'
    BY <1>1, <1>2, <1>3, <1>4, <1>5 DEF InStep, Answers
  <1>11. Answers'
    BY <1>1, <1>2, <1>3, <1>4, <1>5 DEF InStep, Answers
  <1>12. Room'
    BY <1>1, <1>2, <1>3, <1>4, <1>5 DEF Room
  <1>13. ResponseFits'
    BY <1>1, <1>2, <1>3, <1>4, <1>5 DEF Room, ResponseFits
  <1>14. QED
    BY <1>6, <1>7, <1>8, <1>9, <1>10, <1>11, <1>12, <1>13 DEF Inv

\* The socket is not connected any more.
LEMMA ReadNotConnectedInv ==
    ASSUME Inv, dismissed' \in BOOLEAN, ReadNotConnected
    PROVE  Inv'
  <1>1. /\ TypeOK /\ ReadAhead /\ Framed /\ AtRequest
        /\ InStep /\ Answers /\ Room /\ ResponseFits
    BY DEF Inv
  <1>2. /\ sent \in Nat /\ taken \in 0..sent /\ requeue \in 0..taken /\ nbytes \in 0..BufMax /\ frag \in 0..BufMax
        /\ unread \in Nat /\ buffered \in Nat /\ served \in Nat /\ answered \in Nat /\ delivered \in Nat
        /\ N \in Nat /\ BufMax \in Nat \ {0} /\ SizeT \in Nat /\ BufMax < SizeT /\ Total \in Nat
    BY <1>1, Types, Lengths, EndTyped DEF Total
  <1>3. /\ pc = "read" /\ pc' = "refuse"
        /\ UNCHANGED <<sent, open, taken, requeue, connected, closed, nbytes, frag, cur, unread, buffered>>
        /\ UNCHANGED <<keepalive, resKeep, resSent, resPos, served, answered, delivered, astray, overrun, late>>
    BY DEF ReadNotConnected, client, socket, request, response, history
  <1>4. TypeOK'
    BY <1>1, <1>2, <1>3, Types, TypesNext
  <1>5. ReadAhead'
    BY <1>1, <1>2, <1>3 DEF ReadAhead
  <1>6. Framed'
    BY <1>1, <1>2, <1>3 DEF Framed, AtRequest
  <1>7. AtRequest'
    BY <1>1, <1>2, <1>3 DEF Framed, AtRequest
  <1>8. InStep'
    BY <1>1, <1>2, <1>3 DEF InStep, Answers
  <1>9. Answers'
    BY <1>1, <1>2, <1>3 DEF InStep, Answers
  <1>10. Room'
    BY <1>1, <1>2, <1>3 DEF Room
  <1>11. ResponseFits'
    BY <1>1, <1>2, <1>3 DEF Room, ResponseFits
  <1>12. QED
    BY <1>4, <1>5, <1>6, <1>7, <1>8, <1>9, <1>10, <1>11 DEF Inv

\* The requeue buffer is emptied into the request's.
LEMMA ReadRequeueInv ==
    ASSUME Inv, dismissed' \in BOOLEAN, ReadRequeue
    PROVE  Inv'
  <1>1. /\ TypeOK /\ ReadAhead /\ Framed /\ AtRequest
        /\ InStep /\ Answers /\ Room /\ ResponseFits
    BY DEF Inv
  <1>2. /\ sent \in Nat /\ taken \in 0..sent /\ requeue \in 0..taken /\ nbytes \in 0..BufMax /\ frag \in 0..BufMax
        /\ unread \in Nat /\ buffered \in Nat /\ served \in Nat /\ answered \in Nat /\ delivered \in Nat
        /\ N \in Nat /\ BufMax \in Nat \ {0} /\ SizeT \in Nat /\ BufMax < SizeT /\ Total \in Nat
    BY <1>1, Types, Lengths, EndTyped DEF Total
  <1>3. /\ pc = "read" /\ connected /\ pc' = "recv" /\ requeue' = requeue - frag'
        /\ frag' = IF requeue < BufMax - nbytes THEN requeue ELSE BufMax - nbytes
        /\ UNCHANGED <<sent, open, taken, connected, closed, nbytes, cur, unread, buffered, keepalive>>
        /\ UNCHANGED <<resKeep, resSent, resPos, served, answered, delivered, astray, overrun, late>>
    BY DEF ReadRequeue, Lesser, client, socket, request, response, history
  <1>4. TypeOK'
    BY <1>1, <1>2, <1>3, Types, TypesNext
  <1>5. ReadAhead'
    BY <1>1, <1>2, <1>3 DEF ReadAhead
  <1>6. Framed'
    BY <1>1, <1>2, <1>3 DEF Framed, AtRequest
  <1>7. AtRequest'
    BY <1>1, <1>2, <1>3 DEF Framed, AtRequest
  <1>8. InStep'
    BY <1>1, <1>2, <1>3 DEF InStep, Answers
  <1>9. Answers'
    BY <1>1, <1>2, <1>3 DEF InStep, Answers
  <1>10. Room'
    BY <1>1, <1>2, <1>3 DEF Room
  <1>11. ResponseFits'
    BY <1>1, <1>2, <1>3 DEF Room, ResponseFits
  <1>12. QED
    BY <1>4, <1>5, <1>6, <1>7, <1>8, <1>9, <1>10, <1>11 DEF Inv

\* The request is refused.
LEMMA RefuseInv ==
    ASSUME Inv, dismissed' \in BOOLEAN, Refuse
    PROVE  Inv'
  <1>1. /\ TypeOK /\ ReadAhead /\ Framed /\ AtRequest
        /\ InStep /\ Answers /\ Room /\ ResponseFits
    BY DEF Inv
  <1>2. /\ sent \in Nat /\ taken \in 0..sent /\ requeue \in 0..taken /\ nbytes \in 0..BufMax /\ frag \in 0..BufMax
        /\ unread \in Nat /\ buffered \in Nat /\ served \in Nat /\ answered \in Nat /\ delivered \in Nat
        /\ N \in Nat /\ BufMax \in Nat \ {0} /\ SizeT \in Nat /\ BufMax < SizeT /\ Total \in Nat
    BY <1>1, Types, Lengths, EndTyped DEF Total
  <1>3. /\ pc = "refuse" /\ closed' = TRUE /\ connected' = FALSE /\ pc' = "close"
        /\ UNCHANGED <<sent, open, taken, requeue, nbytes, frag, cur, unread, buffered, keepalive>>
        /\ UNCHANGED <<resKeep, resSent, resPos, served, answered, delivered, astray, overrun, late>>
    BY DEF Refuse, client, socket, request, response, history
  <1>4. TypeOK'
    BY <1>1, <1>2, <1>3, Types, TypesNext
  <1>5. ReadAhead'
    BY <1>1, <1>2, <1>3 DEF ReadAhead
  <1>6. Framed'
    BY <1>1, <1>2, <1>3 DEF Framed, AtRequest
  <1>7. AtRequest'
    BY <1>1, <1>2, <1>3 DEF Framed, AtRequest
  <1>8. InStep'
    BY <1>1, <1>2, <1>3 DEF InStep, Answers
  <1>9. Answers'
    BY <1>1, <1>2, <1>3 DEF InStep, Answers
  <1>10. Room'
    BY <1>1, <1>2, <1>3 DEF Room
  <1>11. ResponseFits'
    BY <1>1, <1>2, <1>3 DEF Room, ResponseFits
  <1>12. QED
    BY <1>4, <1>5, <1>6, <1>7, <1>8, <1>9, <1>10, <1>11 DEF Inv

\* The connection ends.
LEMMA CloseSocketInv ==
    ASSUME Inv, dismissed' \in BOOLEAN, CloseSocket
    PROVE  Inv'
  <1>1. /\ TypeOK /\ ReadAhead /\ Framed /\ AtRequest
        /\ InStep /\ Answers /\ Room /\ ResponseFits
    BY DEF Inv
  <1>2. /\ sent \in Nat /\ taken \in 0..sent /\ requeue \in 0..taken /\ nbytes \in 0..BufMax /\ frag \in 0..BufMax
        /\ unread \in Nat /\ buffered \in Nat /\ served \in Nat /\ answered \in Nat /\ delivered \in Nat
        /\ N \in Nat /\ BufMax \in Nat \ {0} /\ SizeT \in Nat /\ BufMax < SizeT /\ Total \in Nat
    BY <1>1, Types, Lengths, EndTyped DEF Total
  <1>3. /\ pc = "close" /\ closed' = TRUE /\ connected' = FALSE /\ pc' = "over"
        /\ UNCHANGED <<sent, open, taken, requeue, nbytes, frag, cur, unread, buffered, keepalive>>
        /\ UNCHANGED <<resKeep, resSent, resPos, served, answered, delivered, astray, overrun, late>>
    BY DEF CloseSocket, client, socket, request, response, history
  <1>4. TypeOK'
    BY <1>1, <1>2, <1>3, Types, TypesNext
  <1>5. ReadAhead'
    BY <1>1, <1>2, <1>3 DEF ReadAhead
  <1>6. Framed'
    BY <1>1, <1>2, <1>3 DEF Framed, AtRequest
  <1>7. AtRequest'
    BY <1>1, <1>2, <1>3 DEF Framed, AtRequest
  <1>8. InStep'
    BY <1>1, <1>2, <1>3 DEF InStep, Answers
  <1>9. Answers'
    BY <1>1, <1>2, <1>3 DEF InStep, Answers
  <1>10. Room'
    BY <1>1, <1>2, <1>3 DEF Room
  <1>11. ResponseFits'
    BY <1>1, <1>2, <1>3 DEF Room, ResponseFits
  <1>12. QED
    BY <1>4, <1>5, <1>6, <1>7, <1>8, <1>9, <1>10, <1>11 DEF Inv

\* The handler says whether to keep the connection.
LEMMA ResponseKeepaliveInv ==
    ASSUME Inv, dismissed' \in BOOLEAN, ResponseKeepalive
    PROVE  Inv'
  <1>1. /\ TypeOK /\ ReadAhead /\ Framed /\ AtRequest
        /\ InStep /\ Answers /\ Room /\ ResponseFits
    BY DEF Inv
  <1>2. /\ sent \in Nat /\ taken \in 0..sent /\ requeue \in 0..taken /\ nbytes \in 0..BufMax /\ frag \in 0..BufMax
        /\ unread \in Nat /\ buffered \in Nat /\ served \in Nat /\ answered \in Nat /\ delivered \in Nat
        /\ N \in Nat /\ BufMax \in Nat \ {0} /\ SizeT \in Nat /\ BufMax < SizeT /\ Total \in Nat
    BY <1>1, Types, Lengths, EndTyped DEF Total
  <1>3. /\ pc = "handler" /\ resKeep' \in BOOLEAN
        /\ astray' = (astray \/ (resSent /\ resKeep' /\ ~(keepalive /\ unread = 0)))
        /\ UNCHANGED <<sent, open, taken, requeue, connected, closed, pc, nbytes, frag, cur, unread>>
        /\ UNCHANGED <<buffered, keepalive, resSent, resPos, served, answered, delivered, overrun, late>>
    BY DEF ResponseKeepalive, client, socket, request, response, history
  <1>a. astray' \in BOOLEAN
    BY <1>3
  <1>4. TypeOK'
    BY <1>1, <1>2, <1>3, <1>a, Types, TypesNext
  <1>5. ReadAhead'
    BY <1>1, <1>2, <1>3 DEF ReadAhead
  <1>6. Framed'
    BY <1>1, <1>2, <1>3 DEF Framed, AtRequest
  <1>7. AtRequest'
    BY <1>1, <1>2, <1>3 DEF Framed, AtRequest
  <1>8. InStep'
    BY <1>1, <1>2, <1>3 DEF InStep, Answers
  <1>9. Answers'
    BY <1>1, <1>2, <1>3 DEF InStep, Answers
  <1>10. Room'
    BY <1>1, <1>2, <1>3 DEF Room
  <1>11. ResponseFits'
    BY <1>1, <1>2, <1>3 DEF Room, ResponseFits
  <1>12. QED
    BY <1>4, <1>5, <1>6, <1>7, <1>8, <1>9, <1>10, <1>11 DEF Inv

\* Content is read from the socket.
LEMMA ChunkFromSocketInv ==
    ASSUME Inv, dismissed' \in BOOLEAN, ChunkFromSocket
    PROVE  Inv'
  <1>1. /\ TypeOK /\ ReadAhead /\ Framed /\ AtRequest
        /\ InStep /\ Answers /\ Room /\ ResponseFits
    BY DEF Inv
  <1>2. /\ sent \in Nat /\ taken \in 0..sent /\ requeue \in 0..taken /\ nbytes \in 0..BufMax /\ frag \in 0..BufMax
        /\ unread \in Nat /\ buffered \in Nat /\ served \in Nat /\ answered \in Nat /\ delivered \in Nat
        /\ N \in Nat /\ BufMax \in Nat \ {0} /\ SizeT \in Nat /\ BufMax < SizeT /\ Total \in Nat
    BY <1>1, Types, Lengths, EndTyped DEF Total
  <1>3. /\ pc = "handler" /\ buffered = 0
        /\ \E len \in ChunkLens : \E n \in 1..Lesser(sent - taken, Lesser(unread, len)) :
              taken' = taken + n /\ unread' = unread - n /\ delivered' = delivered + n
        /\ UNCHANGED <<sent, open, requeue, connected, closed, pc, nbytes, frag, cur, buffered>>
        /\ UNCHANGED <<keepalive, resKeep, resSent, resPos, served, answered, astray, overrun, late>>
    BY DEF ChunkFromSocket, client, socket, request, response, history
  <1>4. \E n \in 1..unread : taken + n <= sent /\ taken' = taken + n /\ unread' = unread - n /\ delivered' = delivered + n
    <2>1. PICK len \in ChunkLens : \E n \in 1..Lesser(sent - taken, Lesser(unread, len)) :
              taken' = taken + n /\ unread' = unread - n /\ delivered' = delivered + n
      BY <1>3
    <2>2. PICK n \in 1..Lesser(sent - taken, Lesser(unread, len)) :
              taken' = taken + n /\ unread' = unread - n /\ delivered' = delivered + n
      BY <2>1
    <2>3. len \in Nat
      BY <1>2, <2>1, ConnectionAssumption
    <2>4. n \in 1..unread /\ taken + n <= sent
      BY <1>2, <2>2, <2>3 DEF Lesser
    <2>5. QED
      BY <2>2, <2>4
  <1>5. TypeOK'
    BY <1>1, <1>2, <1>3, <1>4, Types, TypesNext
  <1>6. ReadAhead'
    BY <1>1, <1>2, <1>3, <1>4 DEF ReadAhead
  <1>7. Framed'
    BY <1>1, <1>2, <1>3, <1>4 DEF Framed, AtRequest
  <1>8. AtRequest'
    BY <1>1, <1>2, <1>3, <1>4 DEF Framed, AtRequest
  <1>9. InStep'
    BY <1>1, <1>2, <1>3, <1>4 DEF InStep, Answers
  <1>10. Answers'
    BY <1>1, <1>2, <1>3, <1>4 DEF InStep, Answers
  <1>11. Room'
    BY <1>1, <1>2, <1>3, <1>4 DEF Room
  <1>12. ResponseFits'
    BY <1>1, <1>2, <1>3, <1>4 DEF Room, ResponseFits
  <1>13. QED
    BY <1>5, <1>6, <1>7, <1>8, <1>9, <1>10, <1>11, <1>12 DEF Inv

\* The client went before the content came.
LEMMA ChunkFailsInv ==
    ASSUME Inv, dismissed' \in BOOLEAN, ChunkFails
    PROVE  Inv'
  <1>1. /\ TypeOK /\ ReadAhead /\ Framed /\ AtRequest
        /\ InStep /\ Answers /\ Room /\ ResponseFits
    BY DEF Inv
  <1>2. /\ sent \in Nat /\ taken \in 0..sent /\ requeue \in 0..taken /\ nbytes \in 0..BufMax /\ frag \in 0..BufMax
        /\ unread \in Nat /\ buffered \in Nat /\ served \in Nat /\ answered \in Nat /\ delivered \in Nat
        /\ N \in Nat /\ BufMax \in Nat \ {0} /\ SizeT \in Nat /\ BufMax < SizeT /\ Total \in Nat
    BY <1>1, Types, Lengths, EndTyped DEF Total
  <1>3. /\ pc = "handler" /\ connected' = FALSE
        /\ UNCHANGED <<sent, open, taken, requeue, closed, pc, nbytes, frag, cur, unread, buffered>>
        /\ UNCHANGED <<keepalive, resKeep, resSent, resPos, served, answered, delivered, astray, overrun, late>>
    BY DEF ChunkFails, client, socket, request, response, history
  <1>4. TypeOK'
    BY <1>1, <1>2, <1>3, Types, TypesNext
  <1>5. ReadAhead'
    BY <1>1, <1>2, <1>3 DEF ReadAhead
  <1>6. Framed'
    BY <1>1, <1>2, <1>3 DEF Framed, AtRequest
  <1>7. AtRequest'
    BY <1>1, <1>2, <1>3 DEF Framed, AtRequest
  <1>8. InStep'
    BY <1>1, <1>2, <1>3 DEF InStep, Answers
  <1>9. Answers'
    BY <1>1, <1>2, <1>3 DEF InStep, Answers
  <1>10. Room'
    BY <1>1, <1>2, <1>3 DEF Room
  <1>11. ResponseFits'
    BY <1>1, <1>2, <1>3 DEF Room, ResponseFits
  <1>12. QED
    BY <1>4, <1>5, <1>6, <1>7, <1>8, <1>9, <1>10, <1>11 DEF Inv

\* There is nothing to read for: the assertion of cflare_socket_read fails.
LEMMA ChunkAbortsInv ==
    ASSUME Inv, dismissed' \in BOOLEAN, ChunkAborts
    PROVE  Inv'
  <1>1. /\ TypeOK /\ ReadAhead /\ Framed /\ AtRequest
        /\ InStep /\ Answers /\ Room /\ ResponseFits
    BY DEF Inv
  <1>2. /\ sent \in Nat /\ taken \in 0..sent /\ requeue \in 0..taken /\ nbytes \in 0..BufMax /\ frag \in 0..BufMax
        /\ unread \in Nat /\ buffered \in Nat /\ served \in Nat /\ answered \in Nat /\ delivered \in Nat
        /\ N \in Nat /\ BufMax \in Nat \ {0} /\ SizeT \in Nat /\ BufMax < SizeT /\ Total \in Nat
    BY <1>1, Types, Lengths, EndTyped DEF Total
  <1>3. /\ pc = "handler" /\ pc' = "abort"
        /\ UNCHANGED <<sent, open, taken, requeue, connected, closed, nbytes, frag, cur, unread, buffered>>
        /\ UNCHANGED <<keepalive, resKeep, resSent, resPos, served, answered, delivered, astray, overrun, late>>
    BY DEF ChunkAborts, client, socket, request, response, history
  <1>4. TypeOK'
    BY <1>1, <1>2, <1>3, Types, TypesNext
  <1>5. ReadAhead'
    BY <1>1, <1>2, <1>3 DEF ReadAhead
  <1>6. Framed'
    BY <1>1, <1>2, <1>3 DEF Framed, AtRequest
  <1>7. AtRequest'
    BY <1>1, <1>2, <1>3 DEF Framed, AtRequest
  <1>8. InStep'
    BY <1>1, <1>2, <1>3 DEF InStep, Answers
  <1>9. Answers'
    BY <1>1, <1>2, <1>3 DEF InStep, Answers
  <1>10. Room'
    BY <1>1, <1>2, <1>3 DEF Room
  <1>11. ResponseFits'
    BY <1>1, <1>2, <1>3 DEF Room, ResponseFits
  <1>12. QED
    BY <1>4, <1>5, <1>6, <1>7, <1>8, <1>9, <1>10, <1>11 DEF Inv

\* The buffer is full: the request is too long.
LEMMA GotFullInv ==
    ASSUME Inv, dismissed' \in BOOLEAN, NEW t \in Nat, NEW m \in Nat, pc = "recv", taken' = t, nbytes' = m,
           taken <= t, t <= sent, m = nbytes + frag + (t - taken), m <= BufMax, pc' = "refuse",
           UNCHANGED <<sent, open, requeue, connected, closed, frag, cur, unread, buffered, keepalive, resKeep>>,
           UNCHANGED <<resSent, resPos, served, answered, delivered, astray, overrun, late>>
    PROVE  Inv'
  <1>1. /\ TypeOK /\ ReadAhead /\ Framed /\ AtRequest
        /\ InStep /\ Answers /\ Room /\ ResponseFits
    BY DEF Inv
  <1>2. /\ sent \in Nat /\ taken \in 0..sent /\ requeue \in 0..taken /\ nbytes \in 0..BufMax /\ frag \in 0..BufMax
        /\ unread \in Nat /\ buffered \in Nat /\ served \in Nat /\ answered \in Nat /\ delivered \in Nat
        /\ N \in Nat /\ BufMax \in Nat \ {0} /\ SizeT \in Nat /\ BufMax < SizeT /\ Total \in Nat
    BY <1>1, Types, Lengths, EndTyped DEF Total
  <1>3. /\ pc = "recv" /\ taken' = t /\ nbytes' = m /\ taken <= t /\ t <= sent
        /\ m = nbytes + frag + (t - taken) /\ m <= BufMax
        /\ pc' = "refuse"
        /\ UNCHANGED <<sent, open, requeue, connected, closed, frag, cur, unread, buffered, keepalive>>
        /\ UNCHANGED <<resKeep, resSent, resPos, served, answered, delivered, astray, overrun, late>>
    BY DEF Inv
  <1>4. TypeOK'
    BY <1>1, <1>2, <1>3, Types, TypesNext
  <1>5. ReadAhead'
    BY <1>1, <1>2, <1>3 DEF ReadAhead
  <1>6. Framed'
    BY <1>1, <1>2, <1>3 DEF Framed, AtRequest
  <1>7. AtRequest'
    BY <1>1, <1>2, <1>3 DEF Framed, AtRequest
  <1>8. InStep'
    BY <1>1, <1>2, <1>3 DEF InStep, Answers
  <1>9. Answers'
    BY <1>1, <1>2, <1>3 DEF InStep, Answers
  <1>10. Room'
    BY <1>1, <1>2, <1>3 DEF Room
  <1>11. ResponseFits'
    BY <1>1, <1>2, <1>3 DEF Room, ResponseFits
  <1>12. QED
    BY <1>4, <1>5, <1>6, <1>7, <1>8, <1>9, <1>10, <1>11 DEF Inv

\* The head has not ended: read on.
LEMMA GotPartInv ==
    ASSUME Inv, dismissed' \in BOOLEAN, NEW t \in Nat, NEW m \in Nat, pc = "recv", taken' = t, nbytes' = m,
           taken <= t, t <= sent, m = nbytes + frag + (t - taken), m <= BufMax, m # BufMax, pc' = "read",
           UNCHANGED <<sent, open, requeue, connected, closed, frag, cur, unread, buffered, keepalive, resKeep>>,
           UNCHANGED <<resSent, resPos, served, answered, delivered, astray, overrun, late>>
    PROVE  Inv'
  <1>1. /\ TypeOK /\ ReadAhead /\ Framed /\ AtRequest
        /\ InStep /\ Answers /\ Room /\ ResponseFits
    BY DEF Inv
  <1>2. /\ sent \in Nat /\ taken \in 0..sent /\ requeue \in 0..taken /\ nbytes \in 0..BufMax /\ frag \in 0..BufMax
        /\ unread \in Nat /\ buffered \in Nat /\ served \in Nat /\ answered \in Nat /\ delivered \in Nat
        /\ N \in Nat /\ BufMax \in Nat \ {0} /\ SizeT \in Nat /\ BufMax < SizeT /\ Total \in Nat
    BY <1>1, Types, Lengths, EndTyped DEF Total
  <1>3. /\ pc = "recv" /\ taken' = t /\ nbytes' = m /\ taken <= t /\ t <= sent
        /\ m = nbytes + frag + (t - taken) /\ m <= BufMax
        /\ m # BufMax /\ pc' = "read"
        /\ UNCHANGED <<sent, open, requeue, connected, closed, frag, cur, unread, buffered, keepalive>>
        /\ UNCHANGED <<resKeep, resSent, resPos, served, answered, delivered, astray, overrun, late>>
    BY DEF Inv
  <1>4. requeue = 0
    BY <1>1, <1>2, <1>3 DEF ReadAhead
  <1>5. TypeOK'
    BY <1>1, <1>2, <1>3, <1>4, Types, TypesNext
  <1>6. ReadAhead'
    BY <1>1, <1>2, <1>3, <1>4 DEF ReadAhead
  <1>7. Framed'
    BY <1>1, <1>2, <1>3, <1>4 DEF Framed, AtRequest
  <1>8. AtRequest'
    BY <1>1, <1>2, <1>3, <1>4 DEF Framed, AtRequest
  <1>9. InStep'
    BY <1>1, <1>2, <1>3, <1>4 DEF InStep, Answers
  <1>10. Answers'
    BY <1>1, <1>2, <1>3, <1>4 DEF InStep, Answers
  <1>11. Room'
    BY <1>1, <1>2, <1>3, <1>4 DEF Room
  <1>12. ResponseFits'
    BY <1>1, <1>2, <1>3, <1>4 DEF Room, ResponseFits
  <1>13. QED
    BY <1>5, <1>6, <1>7, <1>8, <1>9, <1>10, <1>11, <1>12 DEF Inv

\* The head has ended: it is parsed, and the handler called or the request refused.
LEMMA GotHeadInv ==
    ASSUME Inv, dismissed' \in BOOLEAN, NEW t \in Nat, NEW m \in Nat, pc = "recv", taken' = t, nbytes' = m,
           taken <= t, t <= sent, m = nbytes + frag + (t - taken), m <= BufMax, m # BufMax, HeadsWithin(t - requeue - m, m) # {},
           NEW i, i = FirstHead(t - requeue - m, m), cur' = i, buffered' = t - requeue - HeadEnd(i),
           unread' = BodyLen[i], keepalive' \in BOOLEAN,
           (pc' = "handler" /\ served' = served + 1) \/ (pc' = "refuse" /\ UNCHANGED served),
           UNCHANGED <<sent, open, requeue, connected, closed, frag, resKeep, resSent, resPos, answered, delivered>>,
           UNCHANGED <<astray, overrun, late>>
    PROVE  Inv'
  <1>1. /\ TypeOK /\ ReadAhead /\ Framed /\ AtRequest
        /\ InStep /\ Answers /\ Room /\ ResponseFits
    BY DEF Inv
  <1>2. /\ sent \in Nat /\ taken \in 0..sent /\ requeue \in 0..taken /\ nbytes \in 0..BufMax /\ frag \in 0..BufMax
        /\ unread \in Nat /\ buffered \in Nat /\ served \in Nat /\ answered \in Nat /\ delivered \in Nat
        /\ N \in Nat /\ BufMax \in Nat \ {0} /\ SizeT \in Nat /\ BufMax < SizeT /\ Total \in Nat
    BY <1>1, Types, Lengths, EndTyped DEF Total
  <1>3. /\ pc = "recv" /\ taken' = t /\ nbytes' = m /\ taken <= t /\ t <= sent
        /\ m = nbytes + frag + (t - taken) /\ m <= BufMax
        /\ m # BufMax /\ cur' = i /\ buffered' = t - requeue - HeadEnd(i) /\ unread' = BodyLen[i]
        /\ keepalive' \in BOOLEAN
        /\ (pc' = "handler" /\ served' = served + 1) \/ (pc' = "refuse" /\ UNCHANGED served)
        /\ UNCHANGED <<sent, open, requeue, connected, closed, frag, resKeep, resSent>>
        /\ UNCHANGED <<resPos, answered, delivered, astray, overrun, late>>
    BY DEF Inv
  <1>4. requeue = 0
    BY <1>1, <1>2, <1>3 DEF ReadAhead
  <1>5. t - requeue - m \in Nat /\ t - requeue - m = taken - requeue - nbytes - frag
    BY <1>1, <1>2, <1>3, <1>4 DEF ReadAhead
  <1>6. /\ i \in 1..N /\ i \in 0..N /\ HeadEnd(i) \in Nat /\ HeadEnd(i) > t - requeue - m /\ HeadEnd(i) <= t - requeue
        /\ BodyLen[i] \in 0..(SizeT - 1) /\ End[i] = HeadEnd(i) + BodyLen[i] /\ End[i] \in Nat
    <2>1. i \in 1..N /\ HeadEnd(i) > t - requeue - m /\ HeadEnd(i) <= (t - requeue - m) + m
      BY <1>5, FirstHeadIsFirst
    <2>2. HeadEnd(i) \in Nat /\ End[i] = HeadEnd(i) + BodyLen[i] /\ BodyLen[i] \in 0..(SizeT - 1)
      BY <1>2, <2>1, Heads, Lengths
    <2>3. i \in 0..N /\ End[i] \in Nat
      BY <1>2, <2>1, EndTyped
    <2>4. QED
      BY <1>2, <2>1, <2>2, <2>3
  <1>7. t - requeue - HeadEnd(i) \in 0..(SizeT - 1) /\ t - requeue - HeadEnd(i) <= t
    BY <1>2, <1>3, <1>4, <1>5, <1>6
  <1>8. ~astray => served + 1 \in 1..N /\ i = served + 1
    <2>1. SUFFICES ASSUME ~astray PROVE served + 1 \in 1..N /\ i = served + 1
      OBVIOUS
    <2>2. served \in 0..N /\ t - requeue - m = End[served]
      BY <1>1, <1>2, <1>3, <1>5, <2>1 DEF AtRequest
    <2>3. QED
      BY <1>3, <1>5, <2>2, FirstHeadIsNext
  <1>9. TypeOK'
    BY <1>1, <1>2, <1>3, <1>4, <1>5, <1>6, <1>7, <1>8, Types, TypesNext
  <1>10. ReadAhead'
    BY <1>1, <1>2, <1>3, <1>4, <1>5, <1>6, <1>7, <1>8 DEF ReadAhead
  <1>11. Framed'
    <2>1. SUFFICES ASSUME ~astray, pc' = "handler"
                   PROVE  /\ cur' = served' /\ taken' - requeue' - buffered' + unread' = End[cur']
                          /\ delivered' + unread' = BodyLen[cur']
      BY <1>3 DEF Framed
    <2>2. cur' = served' /\ delivered = 0
      BY <1>1, <1>3, <1>8, <2>1 DEF Answers
    <2>3. t - requeue - (t - requeue - HeadEnd(i)) + BodyLen[i] = End[i]
      BY <1>2, <1>6
    <2>4. QED
      BY <1>3, <1>6, <2>2, <2>3
  <1>12. AtRequest'
    BY <1>1, <1>2, <1>3, <1>4, <1>5, <1>6, <1>7, <1>8 DEF Framed, AtRequest
  <1>13. InStep'
    BY <1>1, <1>2, <1>3, <1>4, <1>5, <1>6, <1>7, <1>8 DEF InStep, Answers
  <1>14. Answers'
    BY <1>1, <1>2, <1>3, <1>4, <1>5, <1>6, <1>7, <1>8 DEF InStep, Answers
  <1>15. Room'
    BY <1>1, <1>2, <1>3, <1>4, <1>5, <1>6, <1>7, <1>8 DEF Room
  <1>16. ResponseFits'
    BY <1>1, <1>2, <1>3, <1>4, <1>5, <1>6, <1>7, <1>8 DEF Room, ResponseFits
  <1>17. QED
    BY <1>9, <1>10, <1>11, <1>12, <1>13, <1>14, <1>15, <1>16 DEF Inv
\* A copy runs past the end of a buffer: the handler goes on in an undefined state.
LEMMA ChunkOverrunsInv ==
    ASSUME Inv, dismissed' \in BOOLEAN, NEW r \in Nat, pc = "handler", buffered' = Minus(buffered, r), unread' = Minus(unread, r),
           delivered' = delivered + r, overrun' = TRUE, pc' = "undefined",
           UNCHANGED <<sent, open, taken, requeue, connected, closed, nbytes, frag, cur, keepalive, resKeep>>,
           UNCHANGED <<resSent, resPos, served, answered, astray, late>>
    PROVE  Inv'
  <1>1. /\ TypeOK /\ ReadAhead /\ Framed /\ AtRequest
        /\ InStep /\ Answers /\ Room /\ ResponseFits
    BY DEF Inv
  <1>2. /\ sent \in Nat /\ taken \in 0..sent /\ requeue \in 0..taken /\ nbytes \in 0..BufMax /\ frag \in 0..BufMax
        /\ unread \in Nat /\ buffered \in Nat /\ served \in Nat /\ answered \in Nat /\ delivered \in Nat
        /\ N \in Nat /\ BufMax \in Nat \ {0} /\ SizeT \in Nat /\ BufMax < SizeT /\ Total \in Nat
    BY <1>1, Types, Lengths, EndTyped DEF Total
  <1>3. /\ pc = "handler" /\ buffered' = Minus(buffered, r) /\ unread' = Minus(unread, r)
        /\ delivered' = delivered + r /\ overrun' = TRUE /\ pc' = "undefined"
        /\ UNCHANGED <<sent, open, taken, requeue, connected, closed, nbytes, frag, cur>>
        /\ UNCHANGED <<keepalive, resKeep, resSent, resPos, served, answered, astray, late>>
    BY DEF Inv
  <1>4. buffered' \in 0..(SizeT - 1) /\ unread' \in 0..(SizeT - 1)
    BY <1>2, <1>3, Wrapped
  <1>5. overrun' \in BOOLEAN
    BY <1>3
  <1>6. TypeOK'
    BY <1>1, <1>2, <1>3, <1>4, <1>5, Types, TypesNext
  <1>7. ReadAhead'
    BY <1>1, <1>2, <1>3, <1>4, <1>5 DEF ReadAhead
  <1>8. Framed'
    BY <1>1, <1>2, <1>3, <1>4, <1>5 DEF Framed, AtRequest
  <1>9. AtRequest'
    BY <1>1, <1>2, <1>3, <1>4, <1>5 DEF Framed, AtRequest
  <1>10. InStep'
    BY <1>1, <1>2, <1>3, <1>4, <1>5 DEF InStep, Answers
  <1>11. Answers'
    BY <1>1, <1>2, <1>3, <1>4, <1>5 DEF InStep, Answers
  <1>12. Room'
    BY <1>1, <1>2, <1>3, <1>4, <1>5 DEF Room
  <1>13. ResponseFits'
    BY <1>1, <1>2, <1>3, <1>4, <1>5 DEF Room, ResponseFits
  <1>14. QED
    BY <1>6, <1>7, <1>8, <1>9, <1>10, <1>11, <1>12, <1>13 DEF Inv

\* All that is buffered is wanted, and copied.
LEMMA ChunkFitsInv ==
    ASSUME Inv, dismissed' \in BOOLEAN, pc = "handler", buffered > 0, buffered <= unread, buffered' = 0, unread' = unread - buffered,
           delivered' = delivered + buffered, overrun' = FALSE,
           UNCHANGED <<sent, open, taken, requeue, connected, closed, pc, nbytes, frag, cur, keepalive>>,
           UNCHANGED <<resKeep, resSent, resPos, served, answered, astray, late>>
    PROVE  Inv'
  <1>1. /\ TypeOK /\ ReadAhead /\ Framed /\ AtRequest
        /\ InStep /\ Answers /\ Room /\ ResponseFits
    BY DEF Inv
  <1>2. /\ sent \in Nat /\ taken \in 0..sent /\ requeue \in 0..taken /\ nbytes \in 0..BufMax /\ frag \in 0..BufMax
        /\ unread \in Nat /\ buffered \in Nat /\ served \in Nat /\ answered \in Nat /\ delivered \in Nat
        /\ N \in Nat /\ BufMax \in Nat \ {0} /\ SizeT \in Nat /\ BufMax < SizeT /\ Total \in Nat
    BY <1>1, Types, Lengths, EndTyped DEF Total
  <1>3. /\ pc = "handler" /\ buffered > 0 /\ buffered <= unread /\ buffered' = 0 /\ unread' = unread - buffered
        /\ delivered' = delivered + buffered /\ overrun' = FALSE
        /\ UNCHANGED <<sent, open, taken, requeue, connected, closed, pc, nbytes, frag, cur>>
        /\ UNCHANGED <<keepalive, resKeep, resSent, resPos, served, answered, astray, late>>
    BY DEF Inv
  <1>4. overrun' \in BOOLEAN
    BY <1>3
  <1>5. TypeOK'
    BY <1>1, <1>2, <1>3, <1>4, Types, TypesNext
  <1>6. ReadAhead'
    BY <1>1, <1>2, <1>3, <1>4 DEF ReadAhead
  <1>7. Framed'
    BY <1>1, <1>2, <1>3, <1>4 DEF Framed, AtRequest
  <1>8. AtRequest'
    BY <1>1, <1>2, <1>3, <1>4 DEF Framed, AtRequest
  <1>9. InStep'
    BY <1>1, <1>2, <1>3, <1>4 DEF InStep, Answers
  <1>10. Answers'
    BY <1>1, <1>2, <1>3, <1>4 DEF InStep, Answers
  <1>11. Room'
    BY <1>1, <1>2, <1>3, <1>4 DEF Room
  <1>12. ResponseFits'
    BY <1>1, <1>2, <1>3, <1>4 DEF Room, ResponseFits
  <1>13. QED
    BY <1>5, <1>6, <1>7, <1>8, <1>9, <1>10, <1>11, <1>12 DEF Inv

\* A header line is added to a response that was not sent.
LEMMA HeaderFitsInv ==
    ASSUME Inv, dismissed' \in BOOLEAN, NEW p \in Nat, pc = "handler", ~resSent, p < ResMax, resPos' = p,
           UNCHANGED <<sent, open, taken, requeue, connected, closed, pc, nbytes, frag, cur, unread>>,
           UNCHANGED <<buffered, keepalive, resKeep, resSent, served, answered, delivered, astray, overrun, late>>
    PROVE  Inv'
  <1>1. /\ TypeOK /\ ReadAhead /\ Framed /\ AtRequest
        /\ InStep /\ Answers /\ Room /\ ResponseFits
    BY DEF Inv
  <1>2. /\ sent \in Nat /\ taken \in 0..sent /\ requeue \in 0..taken /\ nbytes \in 0..BufMax /\ frag \in 0..BufMax
        /\ unread \in Nat /\ buffered \in Nat /\ served \in Nat /\ answered \in Nat /\ delivered \in Nat
        /\ N \in Nat /\ BufMax \in Nat \ {0} /\ SizeT \in Nat /\ BufMax < SizeT /\ Total \in Nat
    BY <1>1, Types, Lengths, EndTyped DEF Total
  <1>3. /\ pc = "handler" /\ ~resSent /\ p < ResMax /\ resPos' = p
        /\ UNCHANGED <<sent, open, taken, requeue, connected, closed, pc, nbytes, frag, cur, unread>>
        /\ UNCHANGED <<buffered, keepalive, resKeep, resSent, served, answered, delivered, astray, overrun, late>>
    BY DEF Inv
  <1>4. ResMax \in Nat
    BY ConnectionAssumption
  <1>5. TypeOK'
    BY <1>1, <1>2, <1>3, <1>4, Types, TypesNext
  <1>6. ReadAhead'
    BY <1>1, <1>2, <1>3, <1>4 DEF ReadAhead
  <1>7. Framed'
    BY <1>1, <1>2, <1>3, <1>4 DEF Framed, AtRequest
  <1>8. AtRequest'
    BY <1>1, <1>2, <1>3, <1>4 DEF Framed, AtRequest
  <1>9. InStep'
    BY <1>1, <1>2, <1>3, <1>4 DEF InStep, Answers
  <1>10. Answers'
    BY <1>1, <1>2, <1>3, <1>4 DEF InStep, Answers
  <1>11. Room'
    BY <1>1, <1>2, <1>3, <1>4 DEF Room
  <1>12. ResponseFits'
    BY <1>1, <1>2, <1>3, <1>4 DEF Room, ResponseFits
  <1>13. QED
    BY <1>5, <1>6, <1>7, <1>8, <1>9, <1>10, <1>11, <1>12 DEF Inv

\* A header line, or a second response, comes after the response was sent.
LEMMA HeaderLateInv ==
    ASSUME Inv, dismissed' \in BOOLEAN, NEW p \in Nat, pc = "handler", resSent, resPos' = p, late' = TRUE, pc' \in {"handler", "undefined"},
           UNCHANGED <<sent, open, taken, requeue, connected, closed, nbytes, frag, cur, unread, buffered>>,
           UNCHANGED <<keepalive, resKeep, resSent, served, answered, delivered, astray, overrun>>
    PROVE  Inv'
  <1>1. /\ TypeOK /\ ReadAhead /\ Framed /\ AtRequest
        /\ InStep /\ Answers /\ Room /\ ResponseFits
    BY DEF Inv
  <1>2. /\ sent \in Nat /\ taken \in 0..sent /\ requeue \in 0..taken /\ nbytes \in 0..BufMax /\ frag \in 0..BufMax
        /\ unread \in Nat /\ buffered \in Nat /\ served \in Nat /\ answered \in Nat /\ delivered \in Nat
        /\ N \in Nat /\ BufMax \in Nat \ {0} /\ SizeT \in Nat /\ BufMax < SizeT /\ Total \in Nat
    BY <1>1, Types, Lengths, EndTyped DEF Total
  <1>3. /\ pc = "handler" /\ resSent /\ resPos' = p /\ late' = TRUE /\ pc' \in {"handler", "undefined"}
        /\ UNCHANGED <<sent, open, taken, requeue, connected, closed, nbytes, frag, cur, unread>>
        /\ UNCHANGED <<buffered, keepalive, resKeep, resSent, served, answered, delivered, astray, overrun>>
    BY DEF Inv
  <1>4. late' \in BOOLEAN
    BY <1>3
  <1>5. TypeOK'
    BY <1>1, <1>2, <1>3, <1>4, Types, TypesNext
  <1>6. ReadAhead'
    BY <1>1, <1>2, <1>3, <1>4 DEF ReadAhead
  <1>7. Framed'
    BY <1>1, <1>2, <1>3, <1>4 DEF Framed, AtRequest
  <1>8. AtRequest'
    BY <1>1, <1>2, <1>3, <1>4 DEF Framed, AtRequest
  <1>9. InStep'
    BY <1>1, <1>2, <1>3, <1>4 DEF InStep, Answers
  <1>10. Answers'
    BY <1>1, <1>2, <1>3, <1>4 DEF InStep, Answers
  <1>11. Room'
    BY <1>1, <1>2, <1>3, <1>4 DEF Room
  <1>12. ResponseFits'
    BY <1>1, <1>2, <1>3, <1>4 DEF Room, ResponseFits
  <1>13. QED
    BY <1>5, <1>6, <1>7, <1>8, <1>9, <1>10, <1>11, <1>12 DEF Inv

\* The handler answers.
LEMMA AnswersInv ==
    ASSUME Inv, dismissed' \in BOOLEAN, NEW p \in Nat, p <= ResMax, pc = "handler", ~resSent, resSent' = TRUE, resPos' = p,
           resKeep' = (keepalive /\ resKeep /\ unread = 0),
           (connected /\ answered' = answered + 1 /\ UNCHANGED <<connected, closed>>)
              \/ (connected' = FALSE /\ closed' = (connected \/ closed) /\ UNCHANGED answered),
           UNCHANGED <<sent, open, taken, requeue, pc, nbytes, frag, cur, unread, buffered, keepalive>>,
           UNCHANGED <<served, delivered, astray, overrun, late>>
    PROVE  Inv'
  <1>1. /\ TypeOK /\ ReadAhead /\ Framed /\ AtRequest
        /\ InStep /\ Answers /\ Room /\ ResponseFits
    BY DEF Inv
  <1>2. /\ sent \in Nat /\ taken \in 0..sent /\ requeue \in 0..taken /\ nbytes \in 0..BufMax /\ frag \in 0..BufMax
        /\ unread \in Nat /\ buffered \in Nat /\ served \in Nat /\ answered \in Nat /\ delivered \in Nat
        /\ N \in Nat /\ BufMax \in Nat \ {0} /\ SizeT \in Nat /\ BufMax < SizeT /\ Total \in Nat
    BY <1>1, Types, Lengths, EndTyped DEF Total
  <1>3. /\ pc = "handler" /\ ~resSent /\ resSent' = TRUE /\ resPos' = p /\ p <= ResMax
        /\ resKeep' = (keepalive /\ resKeep /\ unread = 0)
        /\ \/ connected /\ answered' = answered + 1 /\ UNCHANGED <<connected, closed>>
           \/ connected' = FALSE /\ closed' = (connected \/ closed) /\ UNCHANGED answered
        /\ UNCHANGED <<sent, open, taken, requeue, pc, nbytes, frag, cur, unread>>
        /\ UNCHANGED <<buffered, keepalive, served, delivered, astray, overrun, late>>
    BY DEF Inv
  <1>4. connected' \in BOOLEAN /\ closed' \in BOOLEAN /\ resKeep' \in BOOLEAN /\ resSent' \in BOOLEAN
    <2>1. connected \in BOOLEAN /\ closed \in BOOLEAN
      BY <1>1, Types
    <2>2. resKeep' \in BOOLEAN /\ resSent' \in BOOLEAN
      BY <1>3
    <2>3. connected' \in BOOLEAN /\ closed' \in BOOLEAN
      BY <1>3, <2>1
    <2>4. QED
      BY <2>2, <2>3
  <1>5. TypeOK'
    BY <1>1, <1>2, <1>3, <1>4, Types, TypesNext
  <1>6. ReadAhead'
    BY <1>1, <1>2, <1>3, <1>4 DEF ReadAhead
  <1>7. Framed'
    BY <1>1, <1>2, <1>3, <1>4 DEF Framed, AtRequest
  <1>8. AtRequest'
    BY <1>1, <1>2, <1>3, <1>4 DEF Framed, AtRequest
  <1>9. InStep'
    BY <1>1, <1>2, <1>3, <1>4 DEF InStep, Answers
  <1>10. Answers'
    <2>1. ASSUME resKeep' PROVE keepalive' /\ unread' = 0
      <3>1. keepalive /\ unread = 0
        BY <1>3, <2>1
      <3>2. QED
        BY <1>3, <3>1
    <2>2. ASSUME ~astray PROVE answered' = served \/ ~connected'
      <3>1. answered + 1 = served \/ ~connected
        BY <1>1, <1>3, <2>2 DEF Answers
      <3>2. QED
        BY <1>3, <3>1
    <2>3. QED
      BY <1>3, <2>1, <2>2 DEF Answers
  <1>11. Room'
    BY <1>1, <1>2, <1>3, <1>4 DEF Room
  <1>12. ResponseFits'
    BY <1>1, <1>2, <1>3, <1>4 DEF Room, ResponseFits
  <1>13. QED
    BY <1>5, <1>6, <1>7, <1>8, <1>9, <1>10, <1>11, <1>12 DEF Inv

\* No handler took the request: a 500 is sent.
LEMMA ReturnsUnhandledInv ==
    ASSUME Inv, dismissed' \in BOOLEAN, NEW p \in Nat, p <= ResMax, pc = "handler", ~resSent, resSent' = TRUE, resPos' = p,
           resKeep' = (keepalive /\ resKeep /\ unread = 0),
           requeue' = IF keepalive /\ unread = 0 THEN requeue + buffered ELSE requeue,
           (connected /\ answered' = answered + 1 /\ UNCHANGED <<connected, closed>>)
              \/ (connected' = FALSE /\ closed' = (connected \/ closed) /\ UNCHANGED answered),
           pc' = IF resKeep' THEN "start" ELSE "close",
           UNCHANGED <<sent, open, taken, nbytes, frag, cur, unread, buffered, keepalive, served, delivered>>,
           UNCHANGED <<astray, overrun, late>>
    PROVE  Inv'
  <1>1. /\ TypeOK /\ ReadAhead /\ Framed /\ AtRequest
        /\ InStep /\ Answers /\ Room /\ ResponseFits
    BY DEF Inv
  <1>2. /\ sent \in Nat /\ taken \in 0..sent /\ requeue \in 0..taken /\ nbytes \in 0..BufMax /\ frag \in 0..BufMax
        /\ unread \in Nat /\ buffered \in Nat /\ served \in Nat /\ answered \in Nat /\ delivered \in Nat
        /\ N \in Nat /\ BufMax \in Nat \ {0} /\ SizeT \in Nat /\ BufMax < SizeT /\ Total \in Nat
    BY <1>1, Types, Lengths, EndTyped DEF Total
  <1>3. /\ pc = "handler" /\ ~resSent /\ resSent' = TRUE /\ resPos' = p /\ p <= ResMax
        /\ resKeep' = (keepalive /\ resKeep /\ unread = 0) /\ pc' = IF resKeep' THEN "start" ELSE "close"
        /\ requeue' = IF keepalive /\ unread = 0 THEN requeue + buffered ELSE requeue
        /\ \/ connected /\ answered' = answered + 1 /\ UNCHANGED <<connected, closed>>
           \/ connected' = FALSE /\ closed' = (connected \/ closed) /\ UNCHANGED answered
        /\ UNCHANGED <<sent, open, taken, nbytes, frag, cur, unread, buffered>>
        /\ UNCHANGED <<keepalive, served, delivered, astray, overrun, late>>
    BY DEF Inv
  <1>4. connected' \in BOOLEAN /\ closed' \in BOOLEAN /\ resKeep' \in BOOLEAN /\ resSent' \in BOOLEAN
    <2>1. connected \in BOOLEAN /\ closed \in BOOLEAN
      BY <1>1, Types
    <2>2. resKeep' \in BOOLEAN /\ resSent' \in BOOLEAN
      BY <1>3
    <2>3. connected' \in BOOLEAN /\ closed' \in BOOLEAN
      BY <1>3, <2>1
    <2>4. QED
      BY <2>2, <2>3
  <1>5. requeue' \in 0..taken
    BY <1>1, <1>2, <1>3 DEF ReadAhead
  <1>6. pc' = "start" => keepalive /\ unread = 0
    BY <1>3
  <1>7. TypeOK'
    BY <1>1, <1>2, <1>3, <1>4, <1>5, <1>6, Types, TypesNext
  <1>8. ReadAhead'
    BY <1>1, <1>2, <1>3, <1>4, <1>5, <1>6 DEF ReadAhead
  <1>9. Framed'
    BY <1>1, <1>2, <1>3, <1>4, <1>5, <1>6 DEF Framed, AtRequest
  <1>10. AtRequest'
    BY <1>1, <1>2, <1>3, <1>4, <1>5, <1>6 DEF Framed, AtRequest
  <1>11. InStep'
    BY <1>1, <1>2, <1>3, <1>4, <1>5, <1>6 DEF InStep, Answers
  <1>12. Answers'
    BY <1>1, <1>2, <1>3, <1>4, <1>5, <1>6 DEF InStep, Answers
  <1>13. Room'
    BY <1>1, <1>2, <1>3, <1>4, <1>5, <1>6 DEF Room
  <1>14. ResponseFits'
    BY <1>1, <1>2, <1>3, <1>4, <1>5, <1>6 DEF Room, ResponseFits
  <1>15. QED
    BY <1>7, <1>8, <1>9, <1>10, <1>11, <1>12, <1>13, <1>14 DEF Inv

\* The handler returned after it answered; a 500 is refused.
LEMMA ReturnsAnsweredInv ==
    ASSUME Inv, dismissed' \in BOOLEAN, NEW p \in Nat, pc = "handler", resSent, resPos' = p, p = resPos \/ late', late' \in {late, TRUE},
           requeue' = IF keepalive /\ unread = 0 THEN requeue + buffered ELSE requeue,
           pc' = "undefined" \/ (pc' = IF resKeep THEN "start" ELSE "close"),
           UNCHANGED <<sent, open, taken, connected, closed, nbytes, frag, cur, unread, buffered, keepalive>>,
           UNCHANGED <<resKeep, resSent, served, answered, delivered, astray, overrun>>
    PROVE  Inv'
  <1>1. /\ TypeOK /\ ReadAhead /\ Framed /\ AtRequest
        /\ InStep /\ Answers /\ Room /\ ResponseFits
    BY DEF Inv
  <1>2. /\ sent \in Nat /\ taken \in 0..sent /\ requeue \in 0..taken /\ nbytes \in 0..BufMax /\ frag \in 0..BufMax
        /\ unread \in Nat /\ buffered \in Nat /\ served \in Nat /\ answered \in Nat /\ delivered \in Nat
        /\ N \in Nat /\ BufMax \in Nat \ {0} /\ SizeT \in Nat /\ BufMax < SizeT /\ Total \in Nat
    BY <1>1, Types, Lengths, EndTyped DEF Total
  <1>3. /\ pc = "handler" /\ resSent /\ resPos' = p /\ (p = resPos \/ late')
        /\ late' \in {late, TRUE} /\ (pc' = "undefined" \/ (pc' = IF resKeep THEN "start" ELSE "close"))
        /\ requeue' = IF keepalive /\ unread = 0 THEN requeue + buffered ELSE requeue
        /\ UNCHANGED <<sent, open, taken, connected, closed, nbytes, frag, cur, unread, buffered>>
        /\ UNCHANGED <<keepalive, resKeep, resSent, served, answered, delivered, astray, overrun>>
    BY DEF Inv
  <1>4. requeue' \in 0..taken
    BY <1>1, <1>2, <1>3 DEF ReadAhead
  <1>5. late' \in BOOLEAN
    <2>1. late \in BOOLEAN
      BY <1>1, Types
    <2>2. QED
      BY <1>3, <2>1
  <1>6. pc' = "start" /\ ~astray => keepalive /\ unread = 0
    BY <1>1, <1>3 DEF Answers
  <1>7. TypeOK'
    BY <1>1, <1>2, <1>3, <1>4, <1>5, <1>6, Types, TypesNext
  <1>8. ReadAhead'
    BY <1>1, <1>2, <1>3, <1>4, <1>5, <1>6 DEF ReadAhead
  <1>9. Framed'
    BY <1>1, <1>2, <1>3, <1>4, <1>5, <1>6 DEF Framed, AtRequest
  <1>10. AtRequest'
    BY <1>1, <1>2, <1>3, <1>4, <1>5, <1>6 DEF Framed, AtRequest
  <1>11. InStep'
    BY <1>1, <1>2, <1>3, <1>4, <1>5, <1>6 DEF InStep, Answers
  <1>12. Answers'
    BY <1>1, <1>2, <1>3, <1>4, <1>5, <1>6 DEF InStep, Answers
  <1>13. Room'
    BY <1>1, <1>2, <1>3, <1>4, <1>5, <1>6 DEF Room
  <1>14. ResponseFits'
    BY <1>1, <1>2, <1>3, <1>4, <1>5, <1>6 DEF Room, ResponseFits
  <1>15. QED
    BY <1>7, <1>8, <1>9, <1>10, <1>11, <1>12, <1>13, <1>14 DEF Inv

\* The handler returned an error, or without an answer.
LEMMA ReturnsDecliningInv ==
    ASSUME Inv, dismissed' \in BOOLEAN, pc = "handler", astray' = TRUE, requeue' \in {requeue, requeue + buffered},
           pc' \in {"undefined", "start", "close"},
           UNCHANGED <<sent, open, taken, connected, closed, nbytes, frag, cur, unread, buffered, keepalive>>,
           UNCHANGED <<resKeep, resSent, resPos, served, answered, delivered, overrun, late>>
    PROVE  Inv'
  <1>1. /\ TypeOK /\ ReadAhead /\ Framed /\ AtRequest
        /\ InStep /\ Answers /\ Room /\ ResponseFits
    BY DEF Inv
  <1>2. /\ sent \in Nat /\ taken \in 0..sent /\ requeue \in 0..taken /\ nbytes \in 0..BufMax /\ frag \in 0..BufMax
        /\ unread \in Nat /\ buffered \in Nat /\ served \in Nat /\ answered \in Nat /\ delivered \in Nat
        /\ N \in Nat /\ BufMax \in Nat \ {0} /\ SizeT \in Nat /\ BufMax < SizeT /\ Total \in Nat
    BY <1>1, Types, Lengths, EndTyped DEF Total
  <1>3. /\ pc = "handler" /\ astray' = TRUE /\ requeue' \in {requeue, requeue + buffered}
        /\ pc' \in {"undefined", "start", "close"}
        /\ UNCHANGED <<sent, open, taken, connected, closed, nbytes, frag, cur, unread, buffered>>
        /\ UNCHANGED <<keepalive, resKeep, resSent, resPos, served, answered, delivered, overrun, late>>
    BY DEF Inv
  <1>4. requeue' \in 0..taken
    BY <1>1, <1>2, <1>3 DEF ReadAhead
  <1>5. astray' \in BOOLEAN
    BY <1>3
  <1>6. TypeOK'
    BY <1>1, <1>2, <1>3, <1>4, <1>5, Types, TypesNext
  <1>7. ReadAhead'
    BY <1>1, <1>2, <1>3, <1>4, <1>5 DEF ReadAhead
  <1>8. Framed'
    BY <1>1, <1>2, <1>3, <1>4, <1>5 DEF Framed, AtRequest
  <1>9. AtRequest'
    BY <1>1, <1>2, <1>3, <1>4, <1>5 DEF Framed, AtRequest
  <1>10. InStep'
    BY <1>1, <1>2, <1>3, <1>4, <1>5 DEF InStep, Answers
  <1>11. Answers'
    BY <1>1, <1>2, <1>3, <1>4, <1>5 DEF InStep, Answers
  <1>12. Room'
    BY <1>1, <1>2, <1>3, <1>4, <1>5 DEF Room
  <1>13. ResponseFits'
    BY <1>1, <1>2, <1>3, <1>4, <1>5 DEF Room, ResponseFits
  <1>14. QED
    BY <1>6, <1>7, <1>8, <1>9, <1>10, <1>11, <1>12, <1>13 DEF Inv
-----------------------------------------------------------------------------
(* Every step keeps the invariant.                                         *)

\* A read that brought bytes: the buffer is full, the head goes on, or it ends.
LEMMA GotBytesInv ==
    ASSUME Inv, dismissed' \in BOOLEAN, NEW t \in Nat, NEW n \in Nat, pc = "recv", taken' = t, taken <= t, t <= sent,
           n = frag + (t - taken), nbytes + n <= BufMax, GotBytes(n, t),
           UNCHANGED <<sent, open, requeue, connected, closed, frag, resKeep, resSent, resPos>>,
           UNCHANGED <<answered, delivered, astray, overrun, late>>
    PROVE  Inv'
  <1>1. nbytes \in Nat /\ frag \in Nat /\ taken \in Nat
    <2>1. BufMax \in Nat /\ Total \in Nat
      BY Lengths, EndTyped DEF Total
    <2>2. QED
      BY <2>1, Types DEF Inv
  <1>2. PICK m \in Nat : m = nbytes + n
    BY <1>1
  <1>3. nbytes' = m /\ m = nbytes + frag + (t - taken) /\ m <= BufMax
    BY <1>1, <1>2 DEF GotBytes
  <1>4. CASE m = BufMax /\ pc' = "refuse" /\ UNCHANGED <<cur, unread, buffered, keepalive, served>>
    BY <1>3, <1>4, GotFullInv
  <1>5. CASE m # BufMax /\ pc' = "read" /\ UNCHANGED <<cur, unread, buffered, keepalive, served>>
    BY <1>3, <1>5, GotPartInv
  <1>6. CASE /\ m # BufMax /\ HeadsWithin(t - requeue - m, m) # {} /\ Parsed(t - requeue - m, m)
             /\ (pc' = "handler" /\ served' = served + 1) \/ (pc' = "refuse" /\ UNCHANGED served)
    <2>1. PICK i : i = FirstHead(t - requeue - m, m)
      OBVIOUS
    <2>2. requeue \in Nat /\ t - requeue - m \in Nat
      <3>1. TypeOK /\ ReadAhead /\ Total \in Nat
        BY Lengths, EndTyped DEF Inv, Total
      <3>2. requeue \in Nat
        BY <3>1, Types
      <3>3. QED
        BY <1>1, <1>3, <3>1, <3>2 DEF ReadAhead
    <2>3. HeadEnd(i) \in Nat
      BY <1>6, <2>1, <2>2, FirstHeadIsFirst, Heads
    <2>4. cur' = i /\ buffered' = (t - requeue - m) + m - HeadEnd(i) /\ unread' = BodyLen[i] /\ keepalive' \in BOOLEAN
      BY <1>6, <2>1 DEF Parsed, HeadersSay, FirstHead
    <2>5. buffered' = t - requeue - HeadEnd(i)
      BY <2>2, <2>3, <2>4
    <2>6. QED
      BY <1>3, <1>6, <2>1, <2>4, <2>5, GotHeadInv
  <1>7. QED
    BY <1>2, <1>4, <1>5, <1>6 DEF GotBytes

\* recv brought some bytes.
LEMMA RecvDataInv ==
    ASSUME Inv, dismissed' \in BOOLEAN, RecvData
    PROVE  Inv'
  <1>1. /\ nbytes \in Nat /\ frag \in Nat /\ taken \in Nat /\ sent \in Nat /\ taken <= sent /\ BufMax \in Nat
        /\ nbytes + frag <= BufMax
    <2>1. BufMax \in Nat /\ Total \in Nat
      BY Lengths, EndTyped DEF Total
    <2>2. QED
      BY <2>1, Types DEF Inv, RecvData, ReadAhead
  <1>2. PICK k \in 1..Lesser(sent - taken, BufMax - nbytes - frag) :
            taken' = taken + k /\ GotBytes(frag + k, taken')
    BY DEF RecvData
  <1>3. k \in Nat /\ taken + k <= sent /\ nbytes + (frag + k) <= BufMax
    BY <1>1, <1>2 DEF Lesser
  <1>4. PICK t \in Nat, n \in Nat : t = taken + k /\ n = frag + k
    BY <1>1, <1>3
  <1>5. /\ taken' = t /\ taken <= t /\ t <= sent /\ n = frag + (t - taken) /\ nbytes + n <= BufMax
        /\ GotBytes(n, t)
    BY <1>1, <1>2, <1>3, <1>4
  <1>6. /\ pc = "recv" /\ UNCHANGED <<sent, open, requeue, connected, closed, frag, resKeep, resSent, resPos>>
        /\ UNCHANGED <<answered, delivered, astray, overrun, late>>
    BY DEF RecvData, client, response
  <1>7. QED
    BY <1>5, <1>6, GotBytesInv

\* recv brought nothing: what came from the requeue buffer counts, if anything did.
LEMMA RecvNothingInv ==
    ASSUME Inv, dismissed' \in BOOLEAN, RecvNothing
    PROVE  Inv'
  <1>1. /\ nbytes \in Nat /\ frag \in Nat /\ taken \in Nat /\ sent \in Nat /\ taken <= sent /\ BufMax \in Nat
        /\ nbytes + frag <= BufMax
    <2>1. BufMax \in Nat /\ Total \in Nat
      BY Lengths, EndTyped DEF Total
    <2>2. QED
      BY <2>1, Types DEF Inv, RecvNothing, ReadAhead
  <1>2. /\ pc = "recv" /\ UNCHANGED <<sent, open, requeue, closed, frag, resKeep, resSent, resPos>>
        /\ UNCHANGED <<taken, answered, delivered, astray, overrun, late>>
    BY DEF RecvNothing, client, response
  <1>3. CASE frag > 0 /\ GotBytes(frag, taken) /\ UNCHANGED connected
    <2>1. PICK t \in Nat, n \in Nat : t = taken /\ n = frag
      BY <1>1
    <2>2. GotBytes(n, t) /\ taken' = t /\ taken <= t /\ t <= sent /\ n = frag + (t - taken) /\ nbytes + n <= BufMax
      BY <1>1, <1>2, <1>3, <2>1
    <2>3. QED
      BY <1>2, <1>3, <2>2, GotBytesInv
  <1>4. CASE /\ pc' = "refuse" /\ connected' \in {open, TRUE}
             /\ UNCHANGED <<nbytes, cur, unread, buffered, keepalive, served>>
    <2>1. /\ TypeOK /\ ReadAhead /\ Framed /\ AtRequest
          /\ InStep /\ Answers /\ Room /\ ResponseFits
      BY DEF Inv
    <2>2. connected' \in BOOLEAN
      BY <1>4, <2>1, Types
    <2>3. TypeOK'
      BY <1>2, <1>4, <2>1, <2>2, Types, TypesNext
    <2>4. ReadAhead' /\ Framed' /\ AtRequest' /\ InStep' /\ Answers' /\ Room' /\ ResponseFits'
      BY <1>2, <1>4, <2>1 DEF ReadAhead, Framed, AtRequest, InStep, Answers, Room, ResponseFits
    <2>5. QED
      BY <2>3, <2>4 DEF Inv
  <1>5. QED
    BY <1>3, <1>4 DEF RecvNothing

\* Content is copied from the buffer.
LEMMA ChunkFromBufferInv ==
    ASSUME Inv, dismissed' \in BOOLEAN, ChunkFromBuffer
    PROVE  Inv'
  <1>1. unread \in 0..(SizeT - 1) /\ buffered \in 0..(SizeT - 1) /\ unread \in Nat /\ buffered \in Nat /\ SizeT \in Nat
    BY Types, Lengths DEF Inv
  <1>2. PICK len \in ChunkLens :
            LET want     == Lesser(unread, len)
                readable == Greater(want, buffered)
            IN  /\ buffered' = Minus(buffered, readable)
                /\ unread' = Minus(unread, readable)
                /\ delivered' = delivered + readable
                /\ overrun' = (readable > want \/ readable > buffered)
    BY DEF ChunkFromBuffer
  <1>3. len \in Nat
    BY <1>2, Lengths, ConnectionAssumption
  <1>4. PICK w \in Nat : w = Lesser(unread, len) /\ w <= unread
    BY <1>1, <1>3 DEF Lesser
  <1>5. PICK r \in Nat : r = Greater(w, buffered) /\ r >= w /\ r >= buffered
    BY <1>1, <1>4 DEF Greater
  <1>6. /\ buffered' = Minus(buffered, r) /\ unread' = Minus(unread, r) /\ delivered' = delivered + r
        /\ overrun' = (r > w \/ r > buffered)
    BY <1>2, <1>4, <1>5
  <1>7. /\ pc = "handler" /\ buffered > 0 /\ pc' = IF overrun' THEN "undefined" ELSE pc
        /\ UNCHANGED <<sent, open, taken, requeue, connected, closed, nbytes, frag, cur, keepalive>>
        /\ UNCHANGED <<resKeep, resSent, resPos, served, answered, astray, late>>
    BY DEF ChunkFromBuffer, client, socket, response
  <1>8. CASE r > w \/ r > buffered
    <2>1. overrun' = TRUE /\ pc' = "undefined"
      BY <1>6, <1>7, <1>8
    <2>2. QED
      BY <1>6, <1>7, <2>1, ChunkOverrunsInv
  <1>9. CASE ~(r > w \/ r > buffered)
    <2>1. overrun' = FALSE /\ pc' = pc
      BY <1>6, <1>7, <1>9
    <2>2. r = buffered /\ buffered <= unread
      BY <1>1, <1>4, <1>5, <1>9
    <2>3. buffered - r \in 0..(SizeT - 1) /\ unread - r \in 0..(SizeT - 1) /\ buffered - r = 0
      BY <1>1, <2>2
    <2>4. buffered' = 0 /\ unread' = unread - buffered
      BY <1>6, <2>2, <2>3, NoWrap DEF Minus
    <2>5. QED
      BY <1>6, <1>7, <2>1, <2>2, <2>4, ChunkFitsInv
  <1>10. QED
    BY <1>8, <1>9

\* The handler adds a header line.
LEMMA ResponseHeaderInv ==
    ASSUME Inv, dismissed' \in BOOLEAN, ResponseHeader
    PROVE  Inv'
  <1>1. resPos \in Nat /\ ResMax \in Nat /\ Room
    <2>1. TypeOK /\ Room
      BY DEF Inv
    <2> QED
      BY <2>1, Types, ResponseLengths
  <1>2. PICK len \in HeaderLens : resPos' = Added(resPos, len)
    BY DEF ResponseHeader
  <1>3. len \in Nat
    BY <1>2, ConnectionAssumption
  <1>4. /\ pc = "handler" /\ late' = (late \/ resSent) /\ pc' = IF resPos' > ResMax THEN "undefined" ELSE pc
        /\ UNCHANGED <<sent, open, taken, requeue, connected, closed, nbytes, frag, cur, unread, buffered>>
        /\ UNCHANGED <<keepalive, resKeep, resSent, served, answered, delivered, astray, overrun>>
    BY DEF ResponseHeader, Continues, client, socket, request
  <1>5. PICK p \in Nat : p = Added(resPos, len)
    BY <1>1, <1>3 DEF Added
  <1>6. CASE ~resSent
    <2>1. resPos \in 0..(ResMax - 1) /\ ~late
      BY <1>1, <1>6 DEF Room
    <2>2. p < ResMax
      BY <1>1, <1>3, <1>5, <2>1, AddedFits
    <2>3. resPos' = p /\ pc' = pc
      BY <1>1, <1>2, <1>4, <1>5, <2>2
    <2>4. late \in BOOLEAN /\ resSent \in BOOLEAN
      BY Types DEF Inv
    <2>5. late' = late
      BY <1>4, <1>6, <2>1, <2>4
    <2>6. QED
      BY <1>4, <1>6, <2>2, <2>3, <2>5, HeaderFitsInv
  <1>7. CASE resSent
    <2>1. late' = TRUE /\ pc' \in {"handler", "undefined"} /\ resPos' = p
      BY <1>2, <1>4, <1>5, <1>7
    <2>2. QED
      BY <1>4, <1>7, <2>1, HeaderLateInv
  <1>8. QED
    BY <1>6, <1>7

\* What a step of cflare_socket_write may do.
Written ==
    \/ connected /\ answered' = answered + 1 /\ UNCHANGED <<connected, closed>>
    \/ connected' = FALSE /\ closed' = (connected \/ closed) /\ UNCHANGED answered

\* The first response is sent, within its buffer.
LEMMA FirstResponse ==
    ASSUME Inv, ResponseData, ~resSent
    PROVE  /\ \E p \in Nat : p <= ResMax /\ resPos' = p
           /\ resSent' = TRUE /\ resKeep' = (keepalive /\ resKeep /\ unread = 0) /\ Written
           /\ UNCHANGED late
  <1>1. resPos \in Nat /\ ResMax \in Nat /\ Room
    <2>1. TypeOK /\ Room
      BY DEF Inv
    <2> QED
      BY <2>1, Types, ResponseLengths
  <1>2. resPos \in 0..(ResMax - 1)
    BY <1>1 DEF Room
  <1>3. {LengthLen, ServerLen, DateLen, KeepLen, CloseLen} \subseteq Nat
    BY ConnectionAssumption
  <1>4. PICK a \in 0..(ResMax - 1) : a = Added(resPos, LengthLen)
    BY <1>2, <1>3, AddedFits
  <1>5. SendHeaders(a) /\ UNCHANGED late
    BY <1>4 DEF ResponseData
  <1>6. PICK b \in 0..(ResMax - 1) : b = Added(a, ServerLen)
    BY <1>3, <1>4, AddedFits
  <1>7. PICK c \in 0..(ResMax - 1) : c = Added(b, DateLen)
    BY <1>3, <1>6, AddedFits
  <1>8. PICK d \in 0..(ResMax - 1) : d = Added(c, IF resKeep' THEN KeepLen ELSE CloseLen)
    BY <1>3, <1>7, AddedFits
  <1>9. resPos' \in {d, d + 1}
    BY <1>5, <1>6, <1>7, <1>8 DEF SendHeaders
  <1>10. \E p \in Nat : p <= ResMax /\ resPos' = p
    BY <1>1, <1>8, <1>9
  <1>11. resSent' = TRUE /\ resKeep' = (keepalive /\ resKeep /\ unread = 0) /\ Written
    BY <1>5 DEF SendHeaders, Writes, Written
  <1>12. QED
    BY <1>5, <1>10, <1>11

\* A second one is refused, but its Content-Length is added all the same.
LEMMA SecondResponse ==
    ASSUME Inv, ResponseData, resSent
    PROVE  /\ \E p \in Nat : resPos' = p
           /\ late' = TRUE /\ UNCHANGED <<connected, closed, resKeep, resSent, answered>>
  <1>1. resPos \in Nat /\ LengthLen \in Nat
    <2>1. TypeOK
      BY DEF Inv
    <2> QED
      BY <2>1, Types, ResponseLengths
  <1>2. PICK p \in Nat : p = Added(resPos, LengthLen)
    BY <1>1 DEF Added
  <1>3. QED
    BY <1>2 DEF ResponseData

\* The handler answers.
LEMMA RespondInv ==
    ASSUME Inv, dismissed' \in BOOLEAN, Respond
    PROVE  Inv'
  <1>1. /\ pc = "handler" /\ ResponseData /\ pc' = IF resPos' > ResMax THEN "undefined" ELSE pc
        /\ UNCHANGED <<sent, open, taken, requeue, nbytes, frag, cur, unread, buffered, keepalive>>
        /\ UNCHANGED <<served, delivered, astray, overrun>>
    BY DEF Respond, Continues, client, request
  <1>2. CASE ~resSent
    <2>1. PICK p \in Nat : p <= ResMax /\ resPos' = p
      BY <1>1, <1>2, FirstResponse
    <2>2. pc' = pc
      BY <1>1, <2>1, ConnectionAssumption
    <2>3. resSent' = TRUE /\ resKeep' = (keepalive /\ resKeep /\ unread = 0) /\ Written /\ UNCHANGED late
      BY <1>1, <1>2, FirstResponse
    <2>4. QED
      BY <1>1, <1>2, <2>1, <2>2, <2>3, AnswersInv DEF Written
  <1>3. CASE resSent
    <2>1. PICK p \in Nat : resPos' = p
      BY <1>1, <1>3, SecondResponse
    <2>2. late' = TRUE /\ UNCHANGED <<connected, closed, resKeep, resSent, answered>>
      BY <1>1, <1>3, SecondResponse
    <2>3. pc' \in {"handler", "undefined"}
      BY <1>1
    <2>4. QED
      BY <1>1, <1>3, <2>1, <2>2, <2>3, HeaderLateInv
  <1>4. QED
    BY <1>2, <1>3

\* The handler returns.
LEMMA HandlerReturnsInv ==
    ASSUME Inv, dismissed' \in BOOLEAN, HandlerReturns
    PROVE  Inv'
  <1>1. PICK result \in {"none", "zero", "error"} :
          /\ Requeue(keepalive /\ unread = 0 /\ result # "error")
          /\ \/ result = "none" /\ ResponseData
             \/ result # "none" /\ UNCHANGED <<connected, closed, response, answered, late>>
          /\ astray' = (astray \/ result = "error" \/ (result = "zero" /\ ~resSent))
    BY DEF HandlerReturns
  <1>2. /\ pc = "handler" /\ pc' = IF resPos' > ResMax THEN "undefined" ELSE IF resKeep' THEN "start" ELSE "close"
        /\ UNCHANGED <<sent, open, taken, nbytes, frag, cur, unread, buffered, keepalive>>
        /\ UNCHANGED <<served, delivered, overrun>>
    BY DEF HandlerReturns, Continues, client, request
  <1>3. astray \in BOOLEAN /\ resSent \in BOOLEAN /\ late \in BOOLEAN /\ resPos \in Nat /\ ResMax \in Nat
    <2>1. TypeOK
      BY DEF Inv
    <2> QED
      BY <2>1, Types, ResponseLengths
  <1>4. requeue' = IF keepalive /\ unread = 0 /\ result # "error" THEN requeue + buffered ELSE requeue
    BY <1>1 DEF Requeue
  <1>5. CASE result = "none" /\ ~resSent
    <2>1. PICK p \in Nat : p <= ResMax /\ resPos' = p
      BY <1>1, <1>5, FirstResponse
    <2>2. pc' = IF resKeep' THEN "start" ELSE "close"
      BY <1>2, <1>3, <2>1
    <2>3. resSent' = TRUE /\ resKeep' = (keepalive /\ resKeep /\ unread = 0) /\ Written /\ UNCHANGED late
      BY <1>1, <1>5, FirstResponse
    <2>4. astray' = astray /\ requeue' = IF keepalive /\ unread = 0 THEN requeue + buffered ELSE requeue
      BY <1>1, <1>3, <1>4, <1>5
    <2>5. QED
      BY <1>2, <1>5, <2>1, <2>2, <2>3, <2>4, ReturnsUnhandledInv DEF Written
  <1>6. CASE result = "none" /\ resSent
    <2>1. PICK p \in Nat : resPos' = p
      BY <1>1, <1>6, SecondResponse
    <2>2. late' = TRUE /\ UNCHANGED <<connected, closed, resKeep, resSent, answered>>
      BY <1>1, <1>6, SecondResponse
    <2>3. astray' = astray /\ requeue' = IF keepalive /\ unread = 0 THEN requeue + buffered ELSE requeue
      BY <1>1, <1>3, <1>4, <1>6
    <2>4. pc' = "undefined" \/ (pc' = IF resKeep THEN "start" ELSE "close")
      BY <1>2, <2>2
    <2>5. QED
      BY <1>2, <1>6, <2>1, <2>2, <2>3, <2>4, ReturnsAnsweredInv
  <1>7. CASE result = "zero" /\ resSent
    <2>1. UNCHANGED <<connected, closed, resKeep, resSent, resPos, answered, late>>
      BY <1>1, <1>7 DEF response
    <2>2. PICK p \in Nat : p = resPos
      BY <1>3
    <2>3. astray' = astray /\ requeue' = IF keepalive /\ unread = 0 THEN requeue + buffered ELSE requeue
      BY <1>1, <1>3, <1>4, <1>7
    <2>4. pc' = "undefined" \/ (pc' = IF resKeep THEN "start" ELSE "close")
      BY <1>2, <2>1
    <2>5. late' \in {late, TRUE} /\ resPos' = p
      BY <2>1, <2>2
    <2>6. QED
      BY <1>2, <1>7, <2>1, <2>2, <2>3, <2>4, <2>5, ReturnsAnsweredInv
  <1>8. CASE result = "error" \/ (result = "zero" /\ ~resSent)
    <2>1. UNCHANGED <<connected, closed, resKeep, resSent, resPos, answered, late>>
      BY <1>1, <1>8 DEF response
    <2>2. astray' = TRUE /\ requeue' \in {requeue, requeue + buffered}
      BY <1>1, <1>4, <1>8
    <2>3. pc' \in {"undefined", "start", "close"}
      BY <1>2
    <2>4. QED
      BY <1>2, <2>1, <2>2, <2>3, ReturnsDecliningInv
  <1>9. QED
    BY <1>1, <1>3, <1>5, <1>6, <1>7, <1>8

\* Whether the server has ended the connection is known in every state.
LEMMA DismissedTyped ==
    ASSUME Inv, [Next]_vars
    PROVE  dismissed' \in BOOLEAN
  <1>1. dismissed \in BOOLEAN
    BY Types DEF Inv
  <1>2. CASE RecvData \/ RecvNothing
    <2>1. UNCHANGED dismissed \/ dismissed' = TRUE
      BY <1>2 DEF RecvData, RecvNothing, GotBytes
    <2>2. QED
      BY <1>1, <2>1
  <1>3. CASE Respond \/ HandlerReturns
    BY <1>3 DEF Respond, HandlerReturns
  <1>4. CASE /\ Next /\ ~(RecvData \/ RecvNothing) /\ ~(Respond \/ HandlerReturns)
    <2>1. CASE ClientSends \/ ClientCloses \/ Begin \/ ReadNotConnected \/ ReadRequeue
      BY <1>1, <2>1 DEF ClientSends, ClientCloses, Begin, ReadNotConnected, ReadRequeue, history
    <2>2. CASE Refuse \/ CloseSocket \/ ResponseKeepalive \/ ResponseHeader
      BY <1>1, <2>2 DEF Refuse, CloseSocket, ResponseKeepalive, ResponseHeader, history
    <2>3. CASE ChunkFromBuffer \/ ChunkFromSocket \/ ChunkFails \/ ChunkAborts
      BY <1>1, <2>3 DEF ChunkFromBuffer, ChunkFromSocket, ChunkFails, ChunkAborts, history
    <2>4. QED
      BY <1>4, <2>1, <2>2, <2>3 DEF Next, Serve
  <1>5. CASE UNCHANGED vars
    BY <1>1, <1>5 DEF vars, history
  <1>6. QED
    BY <1>2, <1>3, <1>4, <1>5

\* Every step of the client and of the server keeps the invariant.
LEMMA NextInv == Inv /\ [Next]_vars => Inv'
  <1>1. SUFFICES ASSUME Inv, [Next]_vars PROVE Inv'
    OBVIOUS
  <1>a. dismissed' \in BOOLEAN
    BY <1>1, DismissedTyped
  <1>2. CASE ClientSends \/ ClientCloses
    BY <1>1, <1>2, <1>a, ClientSendsInv, ClientClosesInv
  <1>3. CASE Begin \/ ReadNotConnected \/ ReadRequeue \/ Refuse \/ CloseSocket
    BY <1>1, <1>3, <1>a, BeginInv, ReadNotConnectedInv, ReadRequeueInv, RefuseInv, CloseSocketInv
  <1>4. CASE RecvData \/ RecvNothing
    BY <1>1, <1>4, <1>a, RecvDataInv, RecvNothingInv
  <1>5. CASE ResponseKeepalive \/ ResponseHeader \/ Respond
    BY <1>1, <1>5, <1>a, ResponseKeepaliveInv, ResponseHeaderInv, RespondInv
  <1>6. CASE ChunkFromBuffer \/ ChunkFromSocket \/ ChunkFails \/ ChunkAborts
    BY <1>1, <1>6, <1>a, ChunkFromBufferInv, ChunkFromSocketInv, ChunkFailsInv, ChunkAbortsInv
  <1>7. CASE HandlerReturns
    BY <1>1, <1>7, <1>a, HandlerReturnsInv
  <1>8. CASE UNCHANGED vars
    <2>1. /\ UNCHANGED <<sent, open, taken, requeue, connected, closed, pc, nbytes, frag, cur, unread>>
          /\ UNCHANGED <<buffered, keepalive, resKeep, resSent, resPos, served, answered, delivered>>
          /\ UNCHANGED <<astray, dismissed, overrun, late>>
      BY <1>8 DEF vars, client, socket, request, response, history
    <2>2. QED
      BY <1>1, <2>1 DEF Inv, TypeOK, ReadAhead, Framed, AtRequest, InStep, Answers, Room, ResponseFits
  <1>9. QED
    BY <1>1, <1>2, <1>3, <1>4, <1>5, <1>6, <1>7, <1>8 DEF Next, Serve

-----------------------------------------------------------------------------
(* The theorems.                                                           *)

\* The invariant holds in every state.
LEMMA AlwaysInv == Spec => []Inv
  BY InitInv, NextInv, PTL DEF Spec

\* Every variable keeps its type: no count of bytes runs past what was sent, and
\* content_length_unread and buffer_unread stay sizes.
THEOREM ConnectionTypeCorrect == Spec => []TypeOK
  <1>1. Inv => TypeOK
    BY DEF Inv
  <1>2. QED
    BY AlwaysInv, <1>1, PTL

\* However the requests' bytes are cut into pieces and read ahead, the next request
\* starts at the byte after the last one, and a handler is given its own content -
\* until a handler returns an error, returns without answering, or has the connection
\* kept behind an answer that could not keep it.
THEOREM StreamStaysFramed == Spec => []Framed
  <1>1. Inv => Framed
    BY DEF Inv
  <1>2. QED
    BY AlwaysInv, <1>1, PTL

\* Answers and requests stay in step on a connection that is kept.
THEOREM AnswersStayInStep == Spec => []InStep
  <1>1. Inv => InStep
    BY DEF Inv
  <1>2. QED
    BY AlwaysInv, <1>1, PTL

\* However many header lines of whatever length a handler adds before it answers,
\* they and the server's own stay within response.buffer.
THEOREM ResponsesFit == Spec => []ResponseFits
  <1>1. Inv => ResponseFits
    BY DEF Inv
  <1>2. QED
    BY AlwaysInv, <1>1, PTL

\* A handler finds the requeue buffer empty: what content_chunk reads from the socket
\* comes from the client, never from bytes an earlier request gave back.
THEOREM NothingIsRequeuedBehindAHandler == Spec => [](pc = "handler" => requeue = 0)
  <1>1. Inv => (pc = "handler" => requeue = 0)
    BY DEF Inv, ReadAhead
  <1>2. QED
    BY AlwaysInv, <1>1, PTL
=============================================================================

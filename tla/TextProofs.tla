---------------------------- MODULE TextProofs ----------------------------
(***************************************************************************)
(* What the functions on texts compute, for inputs of any length:          *)
(* cflare_tointeger, the headers of a request, the files of status codes,  *)
(* the options of a command line, and query strings.  Recursion over an    *)
(* input is reasoned about with sets of numbers (Induction) and functions  *)
(* on numbers (FoldExists, RecursionExists, ForwardExists).                *)
(***************************************************************************)
EXTENDS MCText, SequenceTheorems, FiniteSetTheorems, WellFoundedInduction, TLAPS

\* A set of numbers has a least one.
LEMMA LeastNumber ==
    ASSUME NEW T \in SUBSET Nat, T # {}
    PROVE  \E x \in T : \A y \in T : x <= y
  <1>1. PICK x \in T : \A y \in T : ~(<<y, x>> \in OpToRel(<, Nat))
    BY NatLessThanWellFounded, WFMin
  <1>2. \A y \in T : ~(y < x)
    BY <1>1 DEF OpToRel
  <1> QED
    BY <1>2

\* Induction: a set with 0 and with the successors of its members has all numbers
\* up to n.
LEMMA Induction ==
    ASSUME NEW n \in Nat, NEW P, 0 \in P, \A k \in 0..n : k \in P /\ k < n => k + 1 \in P
    PROVE  0..n \subseteq P
  <1> DEFINE T == {k \in 0..n : k \notin P}
  <1>1. SUFFICES ASSUME T # {} PROVE FALSE
    OBVIOUS
  <1>2. T \in SUBSET Nat
    OBVIOUS
  <1>3. PICK x \in T : \A y \in T : x <= y
    <2> HIDE DEF T
    <2> QED
      BY <1>1, <1>2, LeastNumber
  <1>4. x \in 1..n /\ x - 1 \in 0..n /\ x - 1 \notin T /\ x - 1 < n /\ x - 1 + 1 = x
    BY <1>3
  <1>5. x - 1 \in P
    BY <1>4
  <1> QED
    BY <1>3, <1>4, <1>5

\* The greatest and the least member.
LEMMA Greatest ==
    ASSUME NEW n \in Nat, NEW s \in SUBSET (0..n), s # {}
    PROVE  Max(s) \in s /\ \A y \in s : y <= Max(s)
  <1> DEFINE T == {k \in Nat : n - k \in s}
  <1>1. T \in SUBSET Nat
    OBVIOUS
  <1>2. T # {}
    <2>1. PICK x : x \in s
      OBVIOUS
    <2>2. x \in 0..n /\ n - x \in Nat /\ n - (n - x) = x
      BY <2>1
    <2>3. n - x \in T
      BY <2>1, <2>2
    <2> QED
      BY <2>3
  <1>3. PICK x \in T : \A y \in T : x <= y
    <2> HIDE DEF T
    <2> QED
      BY <1>1, <1>2, LeastNumber
  <1>4. ASSUME NEW y \in s PROVE n - x >= y
    <2>1. y \in 0..n /\ n - y \in Nat /\ n - (n - y) = y
      OBVIOUS
    <2>2. n - y \in T
      BY <2>1
    <2> QED
      BY <1>3, <2>1, <2>2
  <1>5. n - x \in s
    BY <1>3
  <1>6. Max(s) \in s /\ \A y \in s : Max(s) >= y
    <2> HIDE DEF T
    <2> QED
      BY <1>4, <1>5, Zenon DEF Max
  <1>7. \A y \in s : y \in Int
    OBVIOUS
  <1> QED
    BY <1>6, <1>7

LEMMA Least ==
    ASSUME NEW s \in SUBSET Nat, s # {}
    PROVE  Min(s) \in s /\ \A y \in s : Min(s) <= y
  <1>1. \E x \in s : \A y \in s : x <= y
    BY LeastNumber
  <1> QED
    BY <1>1, Zenon DEF Min

\* The first n numbers end in n.
LEMMA PrefixEnd ==
    ASSUME NEW n \in Nat, n # 0
    PROVE  Max(1..n) = n /\ (1..n) \ {n} = 1..(n - 1) /\ 1..n # {}
  <1>1. n \in 1..n /\ 1..n \in SUBSET (0..n)
    OBVIOUS
  <1>2. Max(1..n) \in 1..n /\ \A y \in 1..n : y <= Max(1..n)
    BY <1>1, Greatest
  <1>3. (1..n) \ {n} = 1..(n - 1)
    OBVIOUS
  <1> QED
    BY <1>1, <1>2, <1>3

-----------------------------------------------------------------------------
\* What a fold over the first N elements computes: g, for every set of positions,
\* the last position taken first.
FoldedBy(g, N, S, base, step) ==
    /\ g \in [SUBSET (1..N) -> S]
    /\ g[{}] = base
    /\ \A s \in SUBSET (1..N) : s # {} => g[s] = step[Max(s)][g[s \ {Max(s)}]]

\* There is such a function, whatever is folded.
LEMMA FoldExists ==
    ASSUME NEW N \in Nat, NEW S, NEW base \in S, NEW step \in [1..N -> [S -> S]]
    PROVE  \E g : FoldedBy(g, N, S, base, step)
  <1> DEFINE P == {n \in 0..N : \E g : FoldedBy(g, n, S, base, step)}
  <1>1. 0 \in P
    <2> DEFINE g == [s \in SUBSET (1..0) |-> base]
    <2>1. \A s \in SUBSET (1..0) : s = {}
      OBVIOUS
    <2>2. FoldedBy(g, 0, S, base, step)
      BY <2>1 DEF FoldedBy
    <2> QED
      BY <2>2
  <1>2. ASSUME NEW n \in 0..N, n \in P, n < N PROVE n + 1 \in P
    <2>1. PICK g : FoldedBy(g, n, S, base, step)
      BY <1>2
    <2> DEFINE m == n + 1
               f == [s \in SUBSET (1..m) |-> IF m \in s THEN step[m][g[s \ {m}]] ELSE g[s]]
    <2>2. m \in 1..N /\ m \in Nat /\ step[m] \in [S -> S]
      BY <1>2
    <2>3. ASSUME NEW s \in SUBSET (1..m) PROVE /\ s \ {m} \in SUBSET (1..n)
                                               /\ m \notin s => s \in SUBSET (1..n)
      OBVIOUS
    <2>4. ASSUME NEW s \in SUBSET (1..m), m \in s PROVE f[s] = step[m][g[s \ {m}]] /\ g[s \ {m}] \in S
      BY <2>1, <2>3, <2>4 DEF FoldedBy
    <2>5. ASSUME NEW s \in SUBSET (1..n) PROVE f[s] = g[s] /\ g[s] \in S /\ s \in SUBSET (1..m)
      <3>1. s \in SUBSET (1..m) /\ m \notin s
        OBVIOUS
      <3> QED
        BY <2>1, <3>1 DEF FoldedBy
    <2> HIDE DEF P, f, m
    <2>6. f \in [SUBSET (1..m) -> S]
      <3>1. \A s \in SUBSET (1..m) : f[s] \in S
        <4> TAKE s \in SUBSET (1..m)
        <4>1. CASE m \in s
          BY <2>2, <2>4, <4>1
        <4>2. CASE m \notin s
          BY <2>3, <2>5, <4>2
        <4> QED
          BY <4>1, <4>2
      <3> QED
        BY <3>1 DEF f
    <2>7. f[{}] = base
      BY <2>1, <2>5 DEF FoldedBy
    <2>8. ASSUME NEW s \in SUBSET (1..m), s # {} PROVE f[s] = step[Max(s)][f[s \ {Max(s)}]]
      <3>1. s \in SUBSET (0..m)
        BY <2>2
      <3>2. Max(s) \in s /\ \A y \in s : y <= Max(s)
        BY <2>2, <2>8, <3>1, Greatest
      <3>3. CASE m \in s
        <4>1. Max(s) = m
          <5>1. Max(s) \in 0..m /\ m <= Max(s)
            BY <3>1, <3>2, <3>3
          <5> QED
            BY <2>2, <5>1
        <4>2. f[s \ {m}] = g[s \ {m}]
          BY <2>3, <2>5
        <4> QED
          BY <2>4, <3>3, <4>1, <4>2
      <3>4. CASE m \notin s
        <4>1. s \in SUBSET (1..n)
          BY <2>3, <3>4
        <4>2. f[s] = g[s]
          BY <2>5, <4>1
        <4>3. s \ {Max(s)} \in SUBSET (1..n)
          BY <4>1
        <4>4. f[s \ {Max(s)}] = g[s \ {Max(s)}]
          BY <2>5, <4>3
        <4>5. g[s] = step[Max(s)][g[s \ {Max(s)}]]
          BY <2>1, <2>8, <4>1 DEF FoldedBy
        <4> QED
          BY <4>2, <4>4, <4>5
      <3> QED
        BY <3>3, <3>4
    <2>9. FoldedBy(f, m, S, base, step)
      BY <2>6, <2>7, <2>8 DEF FoldedBy
    <2> QED
      BY <2>2, <2>9 DEF P, m
  <1>3. 0..N \subseteq P
    <2> HIDE DEF P
    <2> QED
      BY <1>1, <1>2, Induction
  <1> QED
    BY <1>3

\* Built step by step from base.
Builds(f, N, base, step) == f[0] = base /\ \A k \in 1..N : f[k] = step[k][f[k - 1]]

\* A fold is built from one prefix to the next.
LEMMA FoldPrefixes ==
    ASSUME NEW N \in Nat, NEW S, NEW base, NEW step, NEW g, FoldedBy(g, N, S, base, step)
    PROVE  /\ [k \in 0..N |-> g[1..k]] \in [0..N -> S]
           /\ Builds([k \in 0..N |-> g[1..k]], N, base, step)
  <1> DEFINE f == [k \in 0..N |-> g[1..k]]
  <1>1. \A k \in 0..N : 1..k \in SUBSET (1..N) /\ f[k] = g[1..k]
    OBVIOUS
  <1>2. f \in [0..N -> S]
    BY <1>1 DEF FoldedBy
  <1>3. f[0] = base
    <2>1. 1..0 = {}
      OBVIOUS
    <2> QED
      BY <1>1, <2>1 DEF FoldedBy
  <1> HIDE DEF f
  <1>4. ASSUME NEW k \in 1..N PROVE f[k] = step[k][f[k - 1]]
    <2>1. k \in 0..N /\ k - 1 \in 0..N /\ k \in Nat /\ k # 0
      OBVIOUS
    <2>2. Max(1..k) = k /\ (1..k) \ {k} = 1..(k - 1) /\ 1..k # {}
      BY <2>1, PrefixEnd
    <2>3. g[1..k] = step[k][g[1..(k - 1)]]
      BY <1>1, <2>1, <2>2 DEF FoldedBy
    <2> QED
      BY <1>1, <2>1, <2>3
  <1> QED
    BY <1>2, <1>3, <1>4 DEF f, Builds

\* So recursion over 0..N defines a function.
LEMMA RecursionExists ==
    ASSUME NEW N \in Nat, NEW S, NEW base \in S, NEW step \in [1..N -> [S -> S]]
    PROVE  \E f \in [0..N -> S] : Builds(f, N, base, step)
  BY FoldExists, FoldPrefixes

-----------------------------------------------------------------------------
\* What char_to_number returns.
LEMMA CharTyped == \A x \in Nat : CharToNumber(x) \in Int /\ -1 <= CharToNumber(x) /\ CharToNumber(x) <= 35
  BY DEF CharToNumber, DecimalDigit, Lower, Upper

\* Horner goes from digit to digit.
LEMMA HornerSteps ==
    ASSUME NEW s \in Seq(Nat), NEW base \in Nat
    PROVE  \E v \in [0..Len(s) -> Int] :
              /\ v[0] = 0 /\ v[Len(s)] = Horner(s, base)
              /\ \A k \in 1..Len(s) : v[k] = base * v[k - 1] + CharToNumber(s[k])
  <1> DEFINE N == Len(s)
             step == [k \in 1..N |-> [v \in Int |-> base * v + CharToNumber(s[k])]]
             Equation(g) == g = [S \in SUBSET (1..N) |->
                                   IF S = {} THEN 0 ELSE base * g[S \ {Max(S)}] + CharToNumber(s[Max(S)])]
             h == CHOOSE g : Equation(g)
  <1>1. N \in Nat /\ DOMAIN s = 1..N /\ \A k \in 1..N : CharToNumber(s[k]) \in Int
    BY CharTyped
  <1>2. step \in [1..N -> [Int -> Int]]
    <2>1. \A k \in 1..N, v \in Int : base * v + CharToNumber(s[k]) \in Int
      BY <1>1
    <2> QED
      BY <2>1
  <1>3. \A k \in 1..N, v \in Int : step[k][v] = base * v + CharToNumber(s[k])
    OBVIOUS
  <1> HIDE DEF N, step
  <1>4. PICK g : FoldedBy(g, N, Int, 0, step)
    <2>1. 0 \in Int
      OBVIOUS
    <2> QED
      BY <1>1, <1>2, <2>1, FoldExists
  <1>5. ASSUME NEW S \in SUBSET (1..N)
        PROVE  g[S] = IF S = {} THEN 0 ELSE base * g[S \ {Max(S)}] + CharToNumber(s[Max(S)])
    <2>1. CASE S = {}
      BY <1>4, <2>1 DEF FoldedBy
    <2>2. CASE S # {}
      <3>1. S \in SUBSET (0..N)
        BY <1>1
      <3>2. Max(S) \in 1..N
        BY <1>1, <2>2, <3>1, Greatest
      <3>3. S \ {Max(S)} \in SUBSET (1..N)
        OBVIOUS
      <3>4. g[S \ {Max(S)}] \in Int
        BY <1>4, <3>3 DEF FoldedBy
      <3>5. g[S] = step[Max(S)][g[S \ {Max(S)}]]
        BY <1>4, <2>2 DEF FoldedBy
      <3> QED
        BY <1>3, <2>2, <3>2, <3>4, <3>5
    <2> QED
      BY <2>1, <2>2
  <1>6. Equation(g)
    <2>1. g = [S \in SUBSET (1..N) |-> g[S]]
      BY <1>4 DEF FoldedBy
    <2> QED
      BY <1>5, <2>1, Zenon
  <1>7. Equation(h)
    BY <1>6, Zenon
  <1>8. Horner(s, base) = h[1..N]
    BY <1>1, Zenon DEF Horner, FoldLeft, MapThenFoldSet
  <1>9. \A S \in SUBSET (1..N) :
           h[S] = IF S = {} THEN 0 ELSE base * h[S \ {Max(S)}] + CharToNumber(s[Max(S)])
    <2> DEFINE e == [S \in SUBSET (1..N) |->
                       IF S = {} THEN 0 ELSE base * h[S \ {Max(S)}] + CharToNumber(s[Max(S)])]
    <2>1. h = e
      BY <1>7
    <2>2. \A S \in SUBSET (1..N) :
             e[S] = IF S = {} THEN 0 ELSE base * h[S \ {Max(S)}] + CharToNumber(s[Max(S)])
      OBVIOUS
    <2> HIDE DEF e, h
    <2> QED
      BY <2>1, <2>2
  <1> HIDE DEF h
  <1> DEFINE v == [k \in 0..N |-> h[1..k]]
  <1>10. \A k \in 0..N : v[k] = h[1..k] /\ 1..k \in SUBSET (1..N)
    BY <1>1
  <1>11. v[0] = 0
    <2>1. 1..0 = {} /\ 0 \in 0..N
      BY <1>1
    <2> QED
      BY <1>9, <1>10, <2>1
  <1> HIDE DEF v
  <1>12. ASSUME NEW k \in 1..N PROVE v[k] = base * v[k - 1] + CharToNumber(s[k])
    <2>1. k \in 0..N /\ k - 1 \in 0..N /\ k \in Nat /\ k # 0
      BY <1>1
    <2>2. Max(1..k) = k /\ (1..k) \ {k} = 1..(k - 1) /\ 1..k # {}
      BY <2>1, PrefixEnd
    <2>3. h[1..k] = base * h[1..(k - 1)] + CharToNumber(s[k])
      BY <1>9, <1>10, <2>1, <2>2
    <2> QED
      BY <1>10, <2>1, <2>3
  <1>13. \A k \in 0..N : v[k] \in Int
    <2> DEFINE P == {k \in 0..N : v[k] \in Int}
    <2>1. 0 \in P
      BY <1>1, <1>11
    <2>2. ASSUME NEW k \in 0..N, k \in P, k < N PROVE k + 1 \in P
      <3>1. k + 1 \in 1..N /\ k + 1 \in 0..N /\ k + 1 - 1 = k
        BY <1>1, <2>2
      <3>2. v[k + 1] = base * v[k] + CharToNumber(s[k + 1])
        BY <1>12, <3>1
      <3>3. v[k + 1] \in Int
        BY <1>1, <2>2, <3>1, <3>2
      <3> QED
        BY <3>1, <3>3
    <2>3. 0..N \subseteq P
      <3> HIDE DEF P
      <3> QED
        BY <1>1, <2>1, <2>2, Induction
    <2> QED
      BY <2>3
  <1>14. v \in [0..N -> Int] /\ v[N] = Horner(s, base)
    <2>1. v \in [0..N -> Int]
      BY <1>13 DEF v
    <2>2. N \in 0..N
      BY <1>1
    <2> QED
      BY <1>8, <1>10, <2>1, <2>2
  <1> QED
    BY <1>11, <1>12, <1>14 DEF N

\* The powers of the base, and the sum, as the loop of cflare_tointeger has them.
PowFun(n, base) == CHOOSE p : p = [b \in 0..n |-> IF b = 0 THEN 1 ELSE base * p[b - 1]]
RetFun(s, base) ==
    CHOOSE r : r = [i \in 0..Len(s) |-> IF i = 0 THEN 0
                                        ELSE r[i - 1] + PowFun(Len(s), base)[Len(s) - i] * CharToNumber(s[i])]

LEMMA PowDefined ==
    ASSUME NEW n \in Nat, NEW base \in Nat
    PROVE  /\ PowFun(n, base)[0] = 1
           /\ \A b \in 1..n : PowFun(n, base)[b] = base * PowFun(n, base)[b - 1]
           /\ \A b \in 0..n : PowFun(n, base)[b] \in Int
  <1> DEFINE step == [b \in 1..n |-> [v \in Int |-> base * v]]
             h == PowFun(n, base)
             e == [b \in 0..n |-> IF b = 0 THEN 1 ELSE base * h[b - 1]]
  <1>1. \A b \in 1..n, v \in Int : step[b][v] = base * v /\ base * v \in Int
    OBVIOUS
  <1>2. step \in [1..n -> [Int -> Int]]
    BY <1>1
  <1> HIDE DEF step
  <1>3. PICK f \in [0..n -> Int] : Builds(f, n, 1, step)
    <2>1. 1 \in Int
      OBVIOUS
    <2> QED
      BY <1>2, <2>1, RecursionExists
  <1>4. \A b \in 0..n : f[b] = IF b = 0 THEN 1 ELSE base * f[b - 1]
    <2> TAKE b \in 0..n
    <2>1. CASE b = 0
      BY <1>3, <2>1 DEF Builds
    <2>2. CASE b # 0
      <3>1. b \in 1..n /\ b - 1 \in 0..n
        BY <2>2
      <3> QED
        BY <1>1, <1>3, <2>2, <3>1 DEF Builds
    <2> QED
      BY <2>1, <2>2
  <1>5. f = [b \in 0..n |-> IF b = 0 THEN 1 ELSE base * f[b - 1]]
    <2>1. f = [b \in 0..n |-> f[b]]
      OBVIOUS
    <2> QED
      BY <1>4, <2>1, Zenon
  <1>6. h = e
    BY <1>5, Zenon DEF PowFun
  <1>7. \A b \in 0..n : e[b] = IF b = 0 THEN 1 ELSE base * h[b - 1]
    OBVIOUS
  <1> HIDE DEF e, h
  <1>8. h[0] = 1 /\ \A b \in 1..n : h[b] = base * h[b - 1]
    <2>1. 0 \in 0..n /\ \A b \in 1..n : b \in 0..n /\ b # 0
      OBVIOUS
    <2> QED
      BY <1>6, <1>7, <2>1
  <1> DEFINE P == {b \in 0..n : h[b] \in Int}
  <1>9. 0 \in P
    BY <1>8
  <1>10. ASSUME NEW b \in 0..n, b \in P, b < n PROVE b + 1 \in P
    <2>1. b + 1 \in 1..n /\ b + 1 \in 0..n /\ b + 1 - 1 = b
      BY <1>10
    <2>2. h[b + 1] = base * h[b]
      BY <1>8, <2>1
    <2> QED
      BY <1>10, <2>1, <2>2
  <1>11. 0..n \subseteq P
    <2> HIDE DEF P
    <2> QED
      BY <1>9, <1>10, Induction
  <1> QED
    BY <1>8, <1>11 DEF h

LEMMA RetDefined ==
    ASSUME NEW s \in Seq(Nat), NEW base \in Nat
    PROVE  /\ RetFun(s, base)[0] = 0
           /\ \A i \in 1..Len(s) :
                 RetFun(s, base)[i] =
                     RetFun(s, base)[i - 1] + PowFun(Len(s), base)[Len(s) - i] * CharToNumber(s[i])
  <1> DEFINE n == Len(s)
             p == PowFun(Len(s), base)
             step == [i \in 1..n |-> [v \in Int |-> v + p[n - i] * CharToNumber(s[i])]]
             h == RetFun(s, base)
             e == [i \in 0..n |-> IF i = 0 THEN 0 ELSE h[i - 1] + p[n - i] * CharToNumber(s[i])]
  <1>1. n \in Nat /\ \A i \in 1..n : CharToNumber(s[i]) \in Int
    BY CharTyped
  <1>2. \A b \in 0..n : p[b] \in Int
    BY <1>1, PowDefined
  <1> HIDE DEF n, p
  <1>3. \A i \in 1..n, v \in Int : v + p[n - i] * CharToNumber(s[i]) \in Int
    <2> TAKE i \in 1..n, v \in Int
    <2>1. n - i \in 0..n
      BY <1>1
    <2>2. p[n - i] \in Int /\ CharToNumber(s[i]) \in Int
      BY <1>1, <1>2, <2>1
    <2> QED
      BY <2>2
  <1>4. /\ \A i \in 1..n, v \in Int : step[i][v] = v + p[n - i] * CharToNumber(s[i])
        /\ step \in [1..n -> [Int -> Int]]
    BY <1>3
  <1> HIDE DEF step
  <1>5. PICK f \in [0..n -> Int] : Builds(f, n, 0, step)
    <2>1. 0 \in Int
      OBVIOUS
    <2> QED
      BY <1>1, <1>4, <2>1, RecursionExists
  <1>6. \A i \in 0..n : f[i] = IF i = 0 THEN 0 ELSE f[i - 1] + p[n - i] * CharToNumber(s[i])
    <2> TAKE i \in 0..n
    <2>1. CASE i = 0
      BY <1>5, <2>1 DEF Builds
    <2>2. CASE i # 0
      <3>1. i \in 1..n /\ i - 1 \in 0..n
        BY <1>1, <2>2
      <3>2. f[i] = step[i][f[i - 1]] /\ f[i - 1] \in Int
        BY <1>5, <3>1 DEF Builds
      <3> QED
        BY <1>4, <2>2, <3>1, <3>2
    <2> QED
      BY <2>1, <2>2
  <1>7. f = [i \in 0..n |-> IF i = 0 THEN 0 ELSE f[i - 1] + p[n - i] * CharToNumber(s[i])]
    <2>1. f = [i \in 0..n |-> f[i]]
      OBVIOUS
    <2> QED
      BY <1>6, <2>1, Zenon
  <1>8. h = e
    BY <1>7, Zenon DEF RetFun, n, p
  <1>9. \A i \in 0..n : e[i] = IF i = 0 THEN 0 ELSE h[i - 1] + p[n - i] * CharToNumber(s[i])
    OBVIOUS
  <1> HIDE DEF e, h
  <1>10. 0 \in 0..n /\ \A i \in 1..n : i \in 0..n /\ i # 0
    BY <1>1
  <1>11. h[0] = 0 /\ \A i \in 1..n : h[i] = h[i - 1] + p[n - i] * CharToNumber(s[i])
    BY <1>8, <1>9, <1>10
  <1> QED
    BY <1>11 DEF h, n, p

\* The digits of a base as the loop sees them.
AllDigits(s, base) == \A i \in DOMAIN s : CharToNumber(s[i]) \in 0..(base - 1)

\* The loop of cflare_tointeger adds up what Horner's rule gives: after k digits
\* it has the value of these, times the power of the base that is left.
LEMMA DigitsAddUp ==
    ASSUME NEW s \in Seq(Nat), NEW base \in Nat
    PROVE  RetFun(s, base)[Len(s)] = Horner(s, base)
  <1> DEFINE n == Len(s)
             p == PowFun(Len(s), base)
             r == RetFun(s, base)
  <1>1. n \in Nat /\ \A i \in 1..n : CharToNumber(s[i]) \in Int
    BY CharTyped
  <1>2. p[0] = 1 /\ (\A b \in 1..n : p[b] = base * p[b - 1]) /\ \A b \in 0..n : p[b] \in Int
    BY <1>1, PowDefined
  <1>3. r[0] = 0 /\ \A i \in 1..n : r[i] = r[i - 1] + p[n - i] * CharToNumber(s[i])
    BY RetDefined
  <1>4. PICK v \in [0..n -> Int] :
              /\ v[0] = 0 /\ v[n] = Horner(s, base)
              /\ \A k \in 1..n : v[k] = base * v[k - 1] + CharToNumber(s[k])
    BY HornerSteps
  <1> HIDE DEF n, p, r
  <1> DEFINE P == {k \in 0..n : r[k] = v[k] * p[n - k]}
  <1>5. 0 \in P
    <2>1. p[n - 0] \in Int /\ 0 \in 0..n
      BY <1>1, <1>2
    <2>2. v[0] * p[n - 0] = 0
      BY <1>4, <2>1
    <2> QED
      BY <1>3, <2>1, <2>2
  <1>6. ASSUME NEW k \in 0..n, k \in P, k < n PROVE k + 1 \in P
    <2>1. k + 1 \in 1..n /\ k + 1 \in 0..n /\ k + 1 - 1 = k /\ n - k \in 1..n /\ n - k - 1 = n - (k + 1)
          /\ n - (k + 1) \in 0..n
      BY <1>1, <1>6
    <2>2. PICK h \in Int, q \in Int, c \in Int : h = v[k] /\ q = p[n - (k + 1)] /\ c = CharToNumber(s[k + 1])
      <3>1. v[k] \in Int /\ p[n - (k + 1)] \in Int /\ CharToNumber(s[k + 1]) \in Int
        BY <1>1, <1>2, <1>4, <2>1
      <3> QED
        BY <3>1
    <2>3. p[n - k] = base * q
      BY <1>2, <2>1, <2>2
    <2>4. r[k + 1] = h * (base * q) + q * c
      <3>1. r[k] = h * (base * q)
        BY <1>6, <2>2, <2>3
      <3>2. r[k + 1] = r[k] + q * c
        BY <1>3, <2>1, <2>2
      <3> QED
        BY <3>1, <3>2
    <2>5. v[k + 1] = base * h + c
      BY <1>4, <2>1, <2>2
    <2>6. h * (base * q) + q * c = (base * h + c) * q
      OBVIOUS
    <2>7. r[k + 1] = v[k + 1] * p[n - (k + 1)]
      BY <2>2, <2>4, <2>5, <2>6
    <2> QED
      BY <2>1, <2>7
  <1>7. 0..n \subseteq P
    <2> HIDE DEF P
    <2> QED
      BY <1>1, <1>5, <1>6, Induction
  <1>8. r[n] = v[n] * p[n - n] /\ n - n = 0 /\ v[n] \in Int
    BY <1>1, <1>4, <1>7
  <1>9. r[n] = v[n]
    BY <1>2, <1>8
  <1> QED
    BY <1>4, <1>9 DEF n, r

\* Power gives the members of one sequence of powers.
LEMMA PowersAgree ==
    ASSUME NEW base \in Nat, NEW n \in Nat, NEW m \in 0..n
    PROVE  \A b \in 0..m : PowFun(m, base)[b] = PowFun(n, base)[b]
  <1> DEFINE p == PowFun(m, base)
             q == PowFun(n, base)
             P == {b \in 0..m : p[b] = q[b]}
  <1>1. p[0] = 1 /\ \A b \in 1..m : p[b] = base * p[b - 1]
    BY PowDefined
  <1>2. q[0] = 1 /\ \A b \in 1..n : q[b] = base * q[b - 1]
    BY PowDefined
  <1> HIDE DEF p, q
  <1>3. 0 \in P
    BY <1>1, <1>2
  <1>4. ASSUME NEW b \in 0..m, b \in P, b < m PROVE b + 1 \in P
    <2>1. b + 1 \in 1..m /\ b + 1 \in 1..n /\ b + 1 \in 0..m /\ b + 1 - 1 = b
      BY <1>4
    <2>2. p[b + 1] = base * p[b] /\ q[b + 1] = base * q[b]
      BY <1>1, <1>2, <2>1
    <2> QED
      BY <1>4, <2>1, <2>2
  <1>5. 0..m \subseteq P
    <2> HIDE DEF P
    <2> QED
      BY <1>3, <1>4, Induction
  <1> QED
    BY <1>5 DEF p, q

LEMMA PowerIs ==
    ASSUME NEW base \in Nat \ {0}, NEW n \in Nat
    PROVE  /\ \A b \in 0..n : Power(base, b) = PowFun(n, base)[b] /\ Power(base, b) \in Nat
           /\ \A b \in 0..n : Power(base, b) <= Power(base, n)
  <1> DEFINE p == PowFun(n, base)
  <1>1. p[0] = 1 /\ \A b \in 1..n : p[b] = base * p[b - 1]
    BY PowDefined
  <1>2. ASSUME NEW b \in 0..n PROVE Power(base, b) = p[b]
    <2>1. Power(base, b) = PowFun(b, base)[b]
      BY Zenon DEF Power, PowFun
    <2>2. b \in 0..b
      OBVIOUS
    <2> QED
      BY <2>1, <2>2, PowersAgree
  <1> HIDE DEF p
  <1> DEFINE P == {b \in 0..n : p[b] \in Nat}
             Q == {c \in 0..n : \A b \in 0..c : p[b] <= p[c]}
  <1>3. 0..n \subseteq P
    <2>1. 0 \in P
      BY <1>1
    <2>2. ASSUME NEW b \in 0..n, b \in P, b < n PROVE b + 1 \in P
      <3>1. b + 1 \in 1..n /\ b + 1 \in 0..n /\ b + 1 - 1 = b
        BY <2>2
      <3>2. p[b + 1] = base * p[b]
        BY <1>1, <3>1
      <3> QED
        BY <2>2, <3>1, <3>2
    <2> HIDE DEF P
    <2> QED
      BY <2>1, <2>2, Induction
  <1>4. 0..n \subseteq Q
    <2>1. 0 \in Q
      BY <1>1
    <2>2. ASSUME NEW c \in 0..n, c \in Q, c < n PROVE c + 1 \in Q
      <3>1. c + 1 \in 1..n /\ c + 1 \in 0..n /\ c + 1 - 1 = c
        BY <2>2
      <3>2. p[c + 1] = base * p[c] /\ p[c] \in Nat
        BY <1>1, <1>3, <3>1
      <3>3. p[c] <= p[c + 1] /\ p[c + 1] \in Nat
        <4>1. \A x, y \in Nat : y # 0 => x <= y * x /\ y * x \in Nat
          OBVIOUS
        <4> QED
          BY <3>2, <4>1
      <3>4. ASSUME NEW b \in 0..(c + 1) PROVE p[b] <= p[c + 1]
        <4>1. CASE b = c + 1
          BY <3>3, <4>1
        <4>2. CASE b # c + 1
          <5>1. b \in 0..c /\ b \in 0..n
            BY <4>2
          <5>2. p[b] <= p[c] /\ p[b] \in Nat
            BY <1>3, <2>2, <5>1
          <5> QED
            BY <3>2, <3>3, <5>2
        <4> QED
          BY <4>1, <4>2
      <3> QED
        BY <3>1, <3>4
    <2> HIDE DEF Q
    <2> QED
      BY <2>1, <2>2, Induction
  <1>5. n \in 0..n
    OBVIOUS
  <1>6. \A b \in 0..n : p[b] <= p[n] /\ p[b] \in Nat
    BY <1>3, <1>4, <1>5
  <1> QED
    BY <1>2, <1>5, <1>6 DEF p

\* The exact sums do not fall, and none is below a term of it.
LEMMA SumsGrow ==
    ASSUME NEW s \in Seq(Nat), NEW base \in Nat \ {0}, AllDigits(s, base)
    PROVE  /\ \A i \in 0..Len(s) : RetFun(s, base)[i] \in Nat /\ RetFun(s, base)[i] <= RetFun(s, base)[Len(s)]
           /\ \A i \in 1..Len(s) :
                 RetFun(s, base)[i] = RetFun(s, base)[i - 1] + Power(base, Len(s) - i) * CharToNumber(s[i])
  <1> DEFINE n == Len(s)
             r == RetFun(s, base)
  <1>1. n \in Nat /\ \A i \in 1..n : CharToNumber(s[i]) \in Nat
    BY DEF AllDigits
  <1>2. \A b \in 0..n : Power(base, b) \in Nat /\ Power(base, b) = PowFun(n, base)[b]
    BY <1>1, PowerIs
  <1>3. r[0] = 0 /\ \A i \in 1..n : r[i] = r[i - 1] + PowFun(n, base)[n - i] * CharToNumber(s[i])
    BY RetDefined
  <1> HIDE DEF n, r
  <1>4. ASSUME NEW i \in 1..n
        PROVE  r[i] = r[i - 1] + Power(base, n - i) * CharToNumber(s[i]) /\ Power(base, n - i) * CharToNumber(s[i]) \in Nat
    <2>1. n - i \in 0..n
      BY <1>1
    <2>2. \A x, y \in Nat : x * y \in Nat
      OBVIOUS
    <2> QED
      BY <1>1, <1>2, <1>3, <2>1, <2>2
  <1> DEFINE P == {i \in 0..n : r[i] \in Nat}
             Q == {i \in 0..n : r[n - i] <= r[n]}
  <1>5. 0..n \subseteq P
    <2>1. 0 \in P
      BY <1>1, <1>3
    <2>2. ASSUME NEW i \in 0..n, i \in P, i < n PROVE i + 1 \in P
      <3>1. i + 1 \in 1..n /\ i + 1 \in 0..n /\ i + 1 - 1 = i
        BY <1>1, <2>2
      <3>2. PICK x \in Nat : r[i + 1] = r[i] + x
        BY <1>4, <3>1
      <3> QED
        BY <2>2, <3>1, <3>2
    <2> HIDE DEF P
    <2> QED
      BY <1>1, <2>1, <2>2, Induction
  <1>6. 0..n \subseteq Q
    <2>1. 0 \in Q
      BY <1>1, <1>5
    <2>2. ASSUME NEW i \in 0..n, i \in Q, i < n PROVE i + 1 \in Q
      <3>1. n - i \in 1..n /\ i + 1 \in 0..n /\ n - i - 1 = n - (i + 1) /\ n - (i + 1) \in 0..n /\ n - i \in 0..n
        BY <1>1, <2>2
      <3>2. PICK x \in Nat : r[n - i] = r[n - (i + 1)] + x
        BY <1>4, <3>1
      <3>3. r[n - (i + 1)] \in Nat /\ r[n] \in Nat /\ r[n - i] \in Nat
        BY <1>1, <1>5, <3>1
      <3>4. r[n - (i + 1)] <= r[n]
        BY <2>2, <3>2, <3>3
      <3> QED
        BY <3>1, <3>4
    <2> HIDE DEF Q
    <2> QED
      BY <1>1, <2>1, <2>2, Induction
  <1>7. ASSUME NEW i \in 0..n PROVE r[i] <= r[n]
    <2>1. n - i \in 0..n /\ n - (n - i) = i
      BY <1>1
    <2>2. n - i \in Q
      BY <1>6, <2>1
    <2> QED
      BY <2>1, <2>2
  <1> QED
    BY <1>4, <1>5, <1>7 DEF n, r

\* The sums of doubles, as the loop has them.
SumFun(s, base) ==
    CHOOSE r : r = [i \in 0..Len(s) |->
                      IF i = 0 THEN 0
                      ELSE Round(Round(r[i - 1]) + Round(Round(Power(base, Len(s) - i)) * CharToNumber(s[i])))]

\* A term and a sum that fit a double are exact.
LEMMA TermExact ==
    ASSUME NEW a \in Nat, NEW p \in Nat, NEW c \in Nat, a + p * c <= Exact, p <= Largest
    PROVE  Round(Round(a) + Round(Round(p) * c)) = a + p * c
  <1>1. PICK q \in Nat : q = p * c
    <2>1. \A x, y \in Nat : x * y \in Nat
      OBVIOUS
    <2> QED
      BY <2>1
  <1>2. a + q \in 0..Exact /\ a \in 0..Exact /\ q \in 0..Exact /\ p \in 0..Largest /\ 0 \in 0..Exact
    BY <1>1, ConversionAssumption
  <1>3. Round(a) = a /\ Round(a + q) = a + q /\ Round(q) = q /\ Round(0) = 0 /\ Round(p) \in Nat
    BY <1>2, ConversionAssumption
  <1>4. Round(Round(p) * c) = q
    <2>1. CASE c = 0
      <3>1. \A x \in Nat : x * 0 = 0
        OBVIOUS
      <3>2. Round(p) * c = 0 /\ q = 0
        BY <1>1, <1>3, <2>1, <3>1
      <3> QED
        BY <1>3, <3>2
    <2>2. CASE c # 0
      <3>1. \A x, y \in Nat : y # 0 => x <= x * y
        OBVIOUS
      <3>2. p <= q
        BY <1>1, <2>2, <3>1
      <3>3. p \in 0..Exact
        BY <1>2, <3>2, ConversionAssumption
      <3>4. Round(p) = p
        BY <3>3, ConversionAssumption
      <3> QED
        BY <1>1, <1>3, <3>4
    <2> QED
      BY <2>1, <2>2
  <1> QED
    BY <1>1, <1>3, <1>4

\* So the sums of a number that fits are exact.
LEMMA SumsExact ==
    ASSUME NEW s \in Seq(Nat), s # <<>>, NEW base \in Nat \ {0}, AllDigits(s, base),
           Horner(s, base) <= Exact, Power(base, Len(s) - 1) <= Largest
    PROVE  \A i \in 0..Len(s) : SumFun(s, base)[i] = RetFun(s, base)[i] /\ RetFun(s, base)[i] \in 0..Exact
  <1> DEFINE n == Len(s)
             r == RetFun(s, base)
             Step(x, i) == Round(Round(x) + Round(Round(Power(base, n - i)) * CharToNumber(s[i])))
             Equation(f) == f = [i \in 0..n |-> IF i = 0 THEN 0 ELSE Step(f[i - 1], i)]
             h == SumFun(s, base)
  <1>1. n \in Nat /\ n > 0 /\ \A i \in 1..n : CharToNumber(s[i]) \in Nat
    BY DEF AllDigits
  <1>2. ASSUME NEW i \in 1..n
        PROVE  Power(base, n - i) \in Nat /\ Power(base, n - i) <= Power(base, n - 1)
    <2>1. n - 1 \in Nat /\ n - i \in 0..(n - 1)
      BY <1>1
    <2> HIDE DEF n
    <2> QED
      BY <2>1, PowerIs
  <1>3. r[n] = Horner(s, base)
    BY DigitsAddUp
  <1>4. /\ \A i \in 0..n : r[i] \in Nat /\ r[i] <= r[n]
        /\ \A i \in 1..n : r[i] = r[i - 1] + Power(base, n - i) * CharToNumber(s[i])
    BY SumsGrow
  <1>5. r[0] = 0
    BY RetDefined
  <1>6. Exact \in Nat /\ Largest \in Nat /\ r[n] <= Exact
    BY <1>3, ConversionAssumption
  <1>7. h = CHOOSE f : Equation(f)
    BY Zenon DEF SumFun
  <1>8. Power(base, n - 1) <= Largest
    OBVIOUS
  <1> HIDE DEF n, r, h
  <1>9. \A i \in 0..n : r[i] \in 0..Exact
    <2> TAKE i \in 0..n
    <2>1. n \in 0..n
      BY <1>1
    <2>2. r[i] \in Nat /\ r[i] <= r[n] /\ r[n] \in Nat
      BY <1>4, <2>1
    <2> QED
      BY <1>6, <2>2
  <1>10. ASSUME NEW i \in 1..n PROVE Step(r[i - 1], i) = r[i] /\ i - 1 \in 0..n
    <2>1. i - 1 \in 0..n /\ i \in 0..n
      BY <1>1
    <2>2. PICK a \in Nat, p \in Nat, c \in Nat : a = r[i - 1] /\ p = Power(base, n - i) /\ c = CharToNumber(s[i])
      BY <1>1, <1>2, <1>4, <2>1
    <2>3. r[i] = a + p * c
      BY <1>4, <2>2
    <2>4. p <= Largest
      <3>1. p <= Power(base, n - 1) /\ Power(base, n - 1) \in Nat
        <4>1. 1 \in 1..n
          BY <1>1
        <4> QED
          BY <1>2, <2>2, <4>1
      <3> QED
        BY <1>6, <1>8, <3>1
    <2>5. a + p * c <= Exact
      BY <1>6, <1>9, <2>1, <2>3
    <2>6. Round(Round(a) + Round(Round(p) * c)) = a + p * c
      BY <2>4, <2>5, TermExact
    <2> QED
      BY <2>1, <2>2, <2>3, <2>6
  <1> HIDE DEF Step
  <1>11. \E f : Equation(f)
    <2> DEFINE f == [i \in 0..n |-> r[i]]
    <2>1. \A i \in 0..n : f[i] = IF i = 0 THEN 0 ELSE Step(f[i - 1], i)
      <3> TAKE i \in 0..n
      <3>1. CASE i = 0
        BY <1>5, <3>1
      <3>2. CASE i # 0
        <4>1. i \in 1..n
          BY <1>1, <3>2
        <4>2. Step(r[i - 1], i) = r[i] /\ f[i - 1] = r[i - 1]
          BY <1>10, <4>1
        <4> QED
          BY <3>2, <4>2
      <3> QED
        BY <3>1, <3>2
    <2>2. f = [i \in 0..n |-> f[i]]
      OBVIOUS
    <2> HIDE DEF f
    <2>3. Equation(f)
      BY <2>1, <2>2, Zenon
    <2> QED
      BY <2>3, Zenon
  <1>12. Equation(h)
    BY <1>7, <1>11, Zenon
  <1>13. \A i \in 0..n : h[i] = IF i = 0 THEN 0 ELSE Step(h[i - 1], i)
    <2> DEFINE e == [i \in 0..n |-> IF i = 0 THEN 0 ELSE Step(h[i - 1], i)]
    <2>1. h = e
      BY <1>12
    <2>2. \A i \in 0..n : e[i] = IF i = 0 THEN 0 ELSE Step(h[i - 1], i)
      OBVIOUS
    <2> HIDE DEF e
    <2> QED
      BY <2>1, <2>2
  <1> HIDE DEF Equation
  <1> DEFINE P == {i \in 0..n : h[i] = r[i]}
  <1>14. 0 \in P
    BY <1>1, <1>5, <1>13
  <1>15. ASSUME NEW i \in 0..n, i \in P, i < n PROVE i + 1 \in P
    <2>1. i + 1 \in 1..n /\ i + 1 \in 0..n /\ i + 1 - 1 = i /\ i + 1 # 0
      BY <1>1, <1>15
    <2>2. h[i + 1] = Step(h[i], i + 1)
      BY <1>13, <2>1
    <2>3. Step(r[i], i + 1) = r[i + 1]
      BY <1>10, <2>1
    <2> QED
      BY <1>15, <2>1, <2>2, <2>3
  <1>16. 0..n \subseteq P
    <2> HIDE DEF P
    <2> QED
      BY <1>1, <1>14, <1>15, Induction
  <1>17. \A i \in 0..n : h[i] = r[i] /\ r[i] \in 0..Exact
    BY <1>9, <1>16
  <1> QED
    BY <1>17 DEF n, h, r

\* A number is read as its digits say if it fits, and as something otherwise.
LEMMA DigitsValueIs ==
    ASSUME NEW s \in Seq(Nat), s # <<>>, NEW base \in Nat \ {0}
    PROVE  /\ AllDigits(s, base) => DigitsValue(s, base) = Undefined \/ \E v \in Nat : DigitsValue(s, base) = Gives(v)
           /\ AllDigits(s, base) /\ Horner(s, base) <= Exact /\ Power(base, Len(s) - 1) <= Largest =>
                 DigitsValue(s, base) = Gives(Horner(s, base))
           /\ ~AllDigits(s, base) =>
                 /\ DigitsValue(s, base) \in {Aborts, Fails}
                 /\ DigitsValue(s, base).out = "abort" => \E i \in DOMAIN s : CharToNumber(s[i]) = -1
  <1> DEFINE bad == {i \in DOMAIN s : CharToNumber(s[i]) \notin 0..(base - 1)}
             h == SumFun(s, base)
             sound == Power(base, Len(s) - 1) <= Largest /\ \A i \in DOMAIN s : h[i] \in 0..(Int64 - 1)
  <1>1. DigitsValue(s, base) = IF bad # {} THEN IF CharToNumber(s[Min(bad)]) < 0 THEN Aborts ELSE Fails
                               ELSE IF sound THEN Gives(h[Len(s)]) ELSE Undefined
    BY Zenon DEF DigitsValue, SumFun
  <1>2. bad = {} <=> AllDigits(s, base)
    BY DEF AllDigits
  <1>3. bad # {} => Min(bad) \in DOMAIN s
    <2>1. bad \in SUBSET Nat
      OBVIOUS
    <2> HIDE DEF bad
    <2>2. bad # {} => Min(bad) \in bad
      BY <2>1, Least
    <2> QED
      BY <2>2 DEF bad
  <1>4. Len(s) \in DOMAIN s /\ DOMAIN s = 1..Len(s) /\ Len(s) \in Nat /\ \A i \in DOMAIN s : i \in 0..Len(s)
    OBVIOUS
  <1> HIDE DEF bad, h
  <1>5. ASSUME bad # {}, CharToNumber(s[Min(bad)]) < 0 PROVE \E i \in DOMAIN s : CharToNumber(s[i]) = -1
    <2>1. s[Min(bad)] \in Nat
      BY <1>3, <1>5
    <2>2. CharToNumber(s[Min(bad)]) = -1
      <3>1. CharToNumber(s[Min(bad)]) \in Int /\ -1 <= CharToNumber(s[Min(bad)])
        BY <2>1, CharTyped
      <3> QED
        BY <1>5, <3>1
    <2> QED
      BY <1>3, <1>5, <2>2
  <1>6. ASSUME bad = {} PROVE DigitsValue(s, base) = Undefined \/ \E v \in Nat : DigitsValue(s, base) = Gives(v)
    <2>1. CASE sound
      <3>1. h[Len(s)] \in Nat
        BY <1>4, <2>1, ConversionAssumption
      <3>2. DigitsValue(s, base) = Gives(h[Len(s)])
        BY <1>1, <1>6, <2>1
      <3> QED
        BY <3>1, <3>2
    <2>2. CASE ~sound
      <3>1. DigitsValue(s, base) = Undefined
        BY <1>1, <1>6, <2>2
      <3> QED
        BY <3>1
    <2> QED
      BY <2>1, <2>2
  <1>7. ASSUME bad = {}, Horner(s, base) <= Exact, Power(base, Len(s) - 1) <= Largest
        PROVE  DigitsValue(s, base) = Gives(Horner(s, base))
    <2>1. \A i \in 0..Len(s) : h[i] = RetFun(s, base)[i] /\ RetFun(s, base)[i] \in 0..Exact
      BY <1>2, <1>7, SumsExact DEF h
    <2>2. \A x \in 0..Exact : x \in 0..(Int64 - 1)
      BY ConversionAssumption
    <2>3. sound
      BY <1>4, <1>7, <2>1, <2>2
    <2>4. h[Len(s)] = Horner(s, base)
      BY <1>4, <2>1, DigitsAddUp
    <2>5. DigitsValue(s, base) = Gives(h[Len(s)])
      BY <1>1, <1>7, <2>3
    <2> QED
      BY <2>4, <2>5
  <1> HIDE DEF sound
  <1>8. bad # {} => DigitsValue(s, base) \in {Aborts, Fails}
    BY <1>1
  <1>9. bad # {} /\ DigitsValue(s, base) = Aborts => CharToNumber(s[Min(bad)]) < 0
    BY <1>1 DEF Aborts, Fails
  <1>10. Aborts.out = "abort" /\ Fails.out = "false"
    BY DEF Aborts, Fails
  <1> QED
    BY <1>2, <1>5, <1>6, <1>7, <1>8, <1>9, <1>10

-----------------------------------------------------------------------------
\* The positions of a text as cflare_tointeger takes it apart: the characters of
\* the sign, the sign, the base and where the digits start.
SignLen(s) == IF s # <<>> /\ s[1] \in {Dash, Plus} THEN 1 ELSE 0
SignOf(s) == IF s # <<>> /\ s[1] = Dash THEN -1 ELSE 1
Denoted(s, c) == Len(s) >= SignLen(s) + 2 /\ s[SignLen(s) + 1] = Zero /\ s[SignLen(s) + 2] = c
BaseOf(s) == IF Denoted(s, LetterX) THEN 16 ELSE IF Denoted(s, LetterB) THEN 2 ELSE 10
Start(s) == SignLen(s) + (IF BaseOf(s) = 10 THEN 0 ELSE 2) + 1
DigitsOf(s) == SubSeq(s, Start(s), Len(s))

\* The end of a text.
LEMMA Rest ==
    ASSUME NEW T, NEW s \in Seq(T), NEW k \in 1..(Len(s) + 1)
    PROVE  /\ SubSeq(s, k, Len(s)) \in Seq(T)
           /\ Len(SubSeq(s, k, Len(s))) = Len(s) + 1 - k
           /\ \A i \in 1..(Len(s) + 1 - k) : SubSeq(s, k, Len(s))[i] = s[k + i - 1]
  <1>1. Len(s) \in Nat
    OBVIOUS
  <1>2. \A i \in k..Len(s) : s[i] \in T
    OBVIOUS
  <1> QED
    BY <1>1, <1>2, SubSeqProperties

LEMMA RestOfRest ==
    ASSUME NEW T, NEW s \in Seq(T), NEW a \in Nat, NEW r \in Seq(T), Len(r) = Len(s) - a,
           \A i \in 1..Len(r) : r[i] = s[a + i], NEW k \in 1..(Len(r) + 1)
    PROVE  SubSeq(r, k, Len(r)) = SubSeq(s, a + k, Len(s))
  <1> DEFINE x == SubSeq(r, k, Len(r))
             y == SubSeq(s, a + k, Len(s))
  <1>1. Len(s) \in Nat /\ Len(r) \in Nat /\ a + k \in 1..(Len(s) + 1) /\ Len(r) + 1 - k = Len(s) + 1 - (a + k)
    OBVIOUS
  <1>2. /\ x \in Seq(T) /\ Len(x) = Len(r) + 1 - k
        /\ \A i \in 1..(Len(r) + 1 - k) : x[i] = r[k + i - 1]
    BY Rest
  <1>3. /\ y \in Seq(T) /\ Len(y) = Len(s) + 1 - (a + k)
        /\ \A i \in 1..(Len(s) + 1 - (a + k)) : y[i] = s[a + k + i - 1]
    BY <1>1, Rest
  <1> HIDE DEF x, y
  <1>4. Len(x) = Len(y)
    BY <1>1, <1>2, <1>3
  <1>5. ASSUME NEW i \in 1..Len(x) PROVE x[i] = y[i]
    <2>1. i \in 1..(Len(r) + 1 - k) /\ i \in 1..(Len(s) + 1 - (a + k))
      BY <1>1, <1>2
    <2>2. k + i - 1 \in 1..Len(r) /\ a + (k + i - 1) = a + k + i - 1
      BY <1>1, <2>1
    <2> QED
      BY <1>2, <1>3, <2>1, <2>2
  <1>6. x = y
    BY <1>2, <1>3, <1>4, <1>5, SeqEqual
  <1> QED
    BY <1>6 DEF x, y

LEMMA ToIntegerIs ==
    ASSUME NEW s \in Seq(Nat)
    PROVE  /\ SignLen(s) \in {0, 1} /\ SignOf(s) \in {-1, 1} /\ BaseOf(s) \in {2, 10, 16}
           /\ Start(s) \in 1..(Len(s) + 1)
           /\ ToInteger(s) = IF Start(s) > Len(s) THEN Fails
                             ELSE IF SignOf(s) = -1 THEN [DigitsValue(DigitsOf(s), BaseOf(s)) EXCEPT !.value = -@]
                             ELSE DigitsValue(DigitsOf(s), BaseOf(s))
  <1> DEFINE signed == s # <<>> /\ s[1] \in {Dash, Plus}
             rest   == IF signed THEN Tail(s) ELSE s
             digits == IF Base(rest) = 10 THEN rest ELSE SubSeq(rest, 3, Len(rest))
             number == DigitsValue(digits, Base(rest))
  <1>1. ToInteger(s) = IF digits = <<>> THEN Fails
                       ELSE IF signed /\ s[1] = Dash THEN [number EXCEPT !.value = -@] ELSE number
    BY Zenon DEF ToInteger
  <1>2. /\ SignLen(s) \in {0, 1} /\ SignOf(s) \in {-1, 1} /\ BaseOf(s) \in {2, 10, 16}
        /\ SignLen(s) + 1 \in 1..(Len(s) + 1) /\ (signed => Len(s) > 0)
    BY DEF SignLen, SignOf, BaseOf
  <1>3. signed /\ s[1] = Dash <=> SignOf(s) = -1
    BY DEF SignOf
  <1>4. rest \in Seq(Nat) /\ Len(rest) = Len(s) - SignLen(s)
        /\ \A i \in 1..Len(rest) : rest[i] = s[SignLen(s) + i]
    <2>1. CASE signed
      <3>1. rest = Tail(s) /\ SignLen(s) = 1 /\ Len(s) \in Nat
        BY <2>1 DEF SignLen
      <3> QED
        BY <1>2, <2>1, <3>1
    <2>2. CASE ~signed
      <3>1. rest = s /\ SignLen(s) = 0
        BY <2>2 DEF SignLen
      <3> QED
        BY <3>1
    <2> QED
      BY <2>1, <2>2
  <1> HIDE DEF rest, signed
  <1>5. Base(rest) = BaseOf(s)
    <2>1. \A c : Len(rest) >= 2 /\ rest[1] = Zero /\ rest[2] = c <=> Denoted(s, c)
      <3> TAKE c
      <3>1. Len(rest) >= 2 <=> Len(s) >= SignLen(s) + 2
        BY <1>2, <1>4
      <3>2. Len(rest) >= 2 => rest[1] = s[SignLen(s) + 1] /\ rest[2] = s[SignLen(s) + 2]
        BY <1>4
      <3> QED
        BY <3>1, <3>2 DEF Denoted
    <2> QED
      BY <2>1 DEF Base, BaseOf, LetterX, LetterB
  <1>6. BaseOf(s) # 10 => Len(s) >= SignLen(s) + 2
    BY DEF BaseOf, Denoted
  <1>7. Start(s) \in 1..(Len(s) + 1) /\ Len(s) \in Nat
    BY <1>2, <1>6 DEF Start
  <1>8. DigitsOf(s) \in Seq(Nat) /\ Len(DigitsOf(s)) = Len(s) + 1 - Start(s)
    BY <1>7, Rest DEF DigitsOf
  <1>9. digits = DigitsOf(s)
    <2>1. SignLen(s) \in Nat /\ Len(rest) \in Nat
      BY <1>2, <1>4
    <2>2. CASE BaseOf(s) = 10
      <3>1. digits = rest /\ Start(s) = SignLen(s) + 1 /\ 1 \in 1..(Len(rest) + 1)
        BY <1>2, <1>5, <2>1, <2>2 DEF Start
      <3>2. SubSeq(rest, 1, Len(rest)) = SubSeq(s, SignLen(s) + 1, Len(s))
        BY <1>4, <2>1, <3>1, RestOfRest
      <3>3. SubSeq(rest, 1, Len(rest)) = rest
        BY <1>4, SubSeqFull
      <3> QED
        BY <3>1, <3>2, <3>3 DEF DigitsOf
    <2>3. CASE BaseOf(s) # 10
      <3>1. digits = SubSeq(rest, 3, Len(rest)) /\ Start(s) = SignLen(s) + 3
        BY <1>2, <1>5, <2>3 DEF Start
      <3>2. 3 \in 1..(Len(rest) + 1)
        <4> HIDE DEF digits
        <4> QED
          BY <1>2, <1>4, <1>6, <2>1, <2>3
      <3>3. SubSeq(rest, 3, Len(rest)) = SubSeq(s, SignLen(s) + 3, Len(s))
        BY <1>4, <2>1, <3>2, RestOfRest
      <3> QED
        BY <3>1, <3>3 DEF DigitsOf
    <2> QED
      BY <2>2, <2>3
  <1> HIDE DEF digits
  <1>10. digits = <<>> <=> Start(s) > Len(s)
    BY <1>7, <1>8, <1>9
  <1> QED
    BY <1>1, <1>2, <1>3, <1>5, <1>7, <1>9, <1>10

\* s is a numeral whose digits, of the base b, start at k behind the prefix.
Numeral(s, prefix, b, k) ==
    /\ k \in 1..Len(s) /\ SubSeq(s, 1, k - 1) = prefix
    /\ \A i \in k..Len(s) : CharToNumber(s[i]) \in 0..(b - 1)

Signs == {<<1, <<>>>>, <<1, <<Plus>>>>, <<-1, <<Dash>>>>}

\* What the members of Numerals are.
LEMMA NumeralsAre ==
    ASSUME NEW s, NEW x
    PROVE  x \in Numerals(s) <=>
              \E sign \in Signs, denote \in Denotes :
                 \E k : /\ Numeral(s, sign[2] \o denote[2], denote[1], k)
                        /\ x = [sign |-> sign[1], base |-> denote[1], digits |-> SubSeq(s, k, Len(s))]
  <1> DEFINE Taken(sign, denote, k) == [sign |-> sign[1], base |-> denote[1], digits |-> SubSeq(s, k, Len(s))]
             Starts(sign, denote) == {k \in 1..Len(s) :
                 /\ SubSeq(s, 1, k - 1) = sign[2] \o denote[2]
                 /\ \A i \in k..Len(s) : CharToNumber(s[i]) \in 0..(denote[1] - 1)}
             Of(sign, denote) == {Taken(sign, denote, k) : k \in Starts(sign, denote)}
  <1>1. Numerals(s) = UNION {Of(sign, denote) : sign \in Signs, denote \in Denotes}
    BY DEF Numerals, Signs
  <1>2. ASSUME NEW sign, NEW denote, NEW k
        PROVE  k \in Starts(sign, denote) <=> Numeral(s, sign[2] \o denote[2], denote[1], k)
    BY Zenon DEF Numeral
  <1> HIDE DEF Starts, Taken
  <1>3. ASSUME NEW sign, NEW denote
        PROVE  x \in Of(sign, denote) <=> \E k \in Starts(sign, denote) : x = Taken(sign, denote, k)
    OBVIOUS
  <1> HIDE DEF Of
  <1>4. x \in Numerals(s) <=> \E sign \in Signs, denote \in Denotes : x \in Of(sign, denote)
    BY <1>1
  <1>5. x \in Numerals(s) <=>
           \E sign \in Signs, denote \in Denotes :
              \E k : Numeral(s, sign[2] \o denote[2], denote[1], k) /\ x = Taken(sign, denote, k)
    BY <1>2, <1>3, <1>4, Zenon
  <1> QED
    BY <1>5, Zenon DEF Taken

\* Behind which characters the digits start.
LEMMA NumeralIs ==
    ASSUME NEW s \in Seq(Nat), NEW p \in Seq(Nat), NEW d \in Seq(Nat), NEW b, NEW k
    PROVE  Numeral(s, p \o d, b, k) <=>
              /\ k = Len(p) + Len(d) + 1 /\ k <= Len(s)
              /\ \A i \in 1..Len(p) : s[i] = p[i]
              /\ \A i \in 1..Len(d) : s[Len(p) + i] = d[i]
              /\ \A i \in k..Len(s) : CharToNumber(s[i]) \in 0..(b - 1)
  <1> DEFINE q == p \o d
             m == Len(p)
             n == Len(d)
             Same == (\A i \in 1..m : s[i] = p[i]) /\ (\A i \in 1..n : s[m + i] = d[i])
  <1>1. q \in Seq(Nat) /\ Len(q) = m + n /\ \A i \in 1..(m + n) : q[i] = IF i <= m THEN p[i] ELSE d[i - m]
    BY ConcatProperties
  <1>2. m \in Nat /\ n \in Nat /\ Len(s) \in Nat
    OBVIOUS
  <1> HIDE DEF q, m, n
  <1>3. ASSUME m + n <= Len(s) PROVE (\A i \in 1..(m + n) : s[i] = q[i]) <=> Same
    <2>1. ASSUME \A i \in 1..(m + n) : s[i] = q[i] PROVE Same
      <3>1. ASSUME NEW i \in 1..m PROVE s[i] = p[i]
        <4>1. i \in 1..(m + n) /\ i <= m
          BY <1>2
        <4> QED
          BY <1>1, <2>1, <4>1
      <3>2. ASSUME NEW i \in 1..n PROVE s[m + i] = d[i]
        <4>1. m + i \in 1..(m + n) /\ ~(m + i <= m) /\ m + i - m = i
          BY <1>2
        <4>2. q[m + i] = d[m + i - m]
          <5>1. PICK j \in 1..(m + n) : j = m + i
            BY <4>1
          <5>2. q[j] = IF j <= m THEN p[j] ELSE d[j - m]
            BY <1>1
          <5> QED
            BY <1>2, <4>1, <5>1, <5>2
        <4> QED
          BY <2>1, <4>1, <4>2
      <3> QED
        BY <3>1, <3>2
    <2>2. ASSUME Same PROVE \A i \in 1..(m + n) : s[i] = q[i]
      <3> TAKE i \in 1..(m + n)
      <3>1. CASE i <= m
        <4>1. i \in 1..m
          BY <1>2, <3>1
        <4> QED
          BY <1>1, <2>2, <3>1, <4>1
      <3>2. CASE ~(i <= m)
        <4>1. i - m \in 1..n /\ m + (i - m) = i
          BY <1>2, <3>2
        <4> QED
          BY <1>1, <2>2, <3>2, <4>1
      <3> QED
        BY <3>1, <3>2
    <2> QED
      BY <2>1, <2>2
  <1>4. ASSUME NEW j \in 1..Len(s) PROVE SubSeq(s, 1, j - 1) = q <=> j = m + n + 1 /\ \A i \in 1..(m + n) : s[i] = q[i]
    <2> DEFINE t == SubSeq(s, 1, j - 1)
    <2>1. j - 1 \in Int /\ 1 \in Int /\ \A i \in 1..(j - 1) : s[i] \in Nat
      BY <1>2
    <2>2. /\ t \in Seq(Nat) /\ Len(t) = IF 1 <= j - 1 THEN j - 1 - 1 + 1 ELSE 0
          /\ \A i \in 1..(j - 1 - 1 + 1) : t[i] = s[1 + i - 1]
      BY <2>1, SubSeqProperties
    <2>3. Len(t) = j - 1 /\ \A i \in 1..(j - 1) : t[i] = s[i]
      BY <1>2, <2>2
    <2> HIDE DEF t
    <2>4. ASSUME t = q PROVE j = m + n + 1 /\ \A i \in 1..(m + n) : s[i] = q[i]
      <3>1. j - 1 = m + n
        BY <1>1, <2>3, <2>4
      <3> QED
        BY <1>2, <2>3, <2>4, <3>1
    <2>5. ASSUME j = m + n + 1, \A i \in 1..(m + n) : s[i] = q[i] PROVE t = q
      <3>1. Len(t) = Len(q) /\ j - 1 = m + n
        BY <1>1, <1>2, <2>3, <2>5
      <3>2. \A i \in 1..Len(t) : t[i] = q[i]
        BY <2>3, <2>5, <3>1
      <3> QED
        BY <1>1, <2>2, <3>1, <3>2, SeqEqual
    <2> QED
      BY <2>4, <2>5 DEF t
  <1>5. Numeral(s, q, b, k) <=> /\ k \in 1..Len(s) /\ k = m + n + 1 /\ Same
                                /\ \A i \in k..Len(s) : CharToNumber(s[i]) \in 0..(b - 1)
    <2> HIDE DEF Same
    <2>1. k \in 1..Len(s) /\ k = m + n + 1 => m + n <= Len(s)
      BY <1>2
    <2> QED
      BY <1>3, <1>4, <2>1 DEF Numeral
  <1>6. k = m + n + 1 => (k \in 1..Len(s) <=> k <= Len(s))
    BY <1>2
  <1> QED
    BY <1>5, <1>6 DEF q, m, n

\* The signs, and the ways to denote a base.
LEMMA SignCases ==
    ASSUME NEW sign \in Signs
    PROVE  /\ sign[2] \in Seq(Nat)
           /\ \/ sign[1] = 1 /\ Len(sign[2]) = 0
              \/ sign[1] = 1 /\ Len(sign[2]) = 1 /\ sign[2][1] = Plus
              \/ sign[1] = -1 /\ Len(sign[2]) = 1 /\ sign[2][1] = Dash
  <1>1. Plus \in Nat /\ Dash \in Nat
    BY DEF Plus, Dash
  <1>2. CASE sign = <<1, <<>>>>
    <2>1. sign[1] = 1 /\ sign[2] = <<>>
      BY <1>2
    <2> QED
      BY <2>1, EmptySeq
  <1>3. CASE sign = <<1, <<Plus>>>>
    <2>1. sign[1] = 1 /\ sign[2] = <<Plus>>
      BY <1>3
    <2>2. <<Plus>> \in Seq(Nat) /\ Len(<<Plus>>) = 1 /\ <<Plus>>[1] = Plus
      BY <1>1
    <2> QED
      BY <2>1, <2>2, Zenon
  <1>4. CASE sign = <<-1, <<Dash>>>>
    <2>1. sign[1] = -1 /\ sign[2] = <<Dash>>
      BY <1>4
    <2>2. <<Dash>> \in Seq(Nat) /\ Len(<<Dash>>) = 1 /\ <<Dash>>[1] = Dash
      BY <1>1
    <2> QED
      BY <2>1, <2>2, Zenon
  <1> QED
    BY <1>2, <1>3, <1>4 DEF Signs

LEMMA DenoteCases ==
    ASSUME NEW denote \in Denotes
    PROVE  /\ denote[2] \in Seq(Nat)
           /\ \/ denote[1] = 10 /\ Len(denote[2]) = 0
              \/ denote[1] = 16 /\ Len(denote[2]) = 2 /\ denote[2][1] = Zero /\ denote[2][2] = LetterX
              \/ denote[1] = 2 /\ Len(denote[2]) = 2 /\ denote[2][1] = Zero /\ denote[2][2] = LetterB
  <1>1. Zero \in Nat /\ LetterX \in Nat /\ LetterB \in Nat
    BY DEF Zero, LetterX, LetterB
  <1>2. CASE denote = <<10, <<>>>>
    <2>1. denote[1] = 10 /\ denote[2] = <<>>
      BY <1>2
    <2> QED
      BY <2>1, EmptySeq
  <1>3. ASSUME NEW c \in Nat PROVE <<Zero, c>> \in Seq(Nat) /\ Len(<<Zero, c>>) = 2 /\ <<Zero, c>>[1] = Zero /\ <<Zero, c>>[2] = c
    BY <1>1
  <1>4. CASE denote = <<16, <<Zero, LetterX>>>>
    <2>1. denote[1] = 16 /\ denote[2] = <<Zero, LetterX>>
      BY <1>4
    <2> QED
      BY <1>1, <1>3, <2>1, Zenon
  <1>5. CASE denote = <<2, <<Zero, LetterB>>>>
    <2>1. denote[1] = 2 /\ denote[2] = <<Zero, LetterB>>
      BY <1>5
    <2> QED
      BY <1>1, <1>3, <2>1, Zenon
  <1> QED
    BY <1>2, <1>4, <1>5 DEF Denotes

\* Signs and letters as digits.
LEMMA NotDecimal ==
    /\ CharToNumber(Dash) = -1 /\ CharToNumber(Plus) = -1
    /\ CharToNumber(LetterX) = 33 /\ CharToNumber(LetterB) = 11
    /\ Dash # Plus /\ Dash # Zero /\ Plus # Zero /\ LetterX # LetterB
    /\ \A v \in 0..9 : v # -1 /\ v # 33 /\ v # 11
  BY DEF CharToNumber, Dash, Plus, Zero, LetterX, LetterB, DecimalDigit, Lower, Upper

\* A numeral is taken apart in the only way there is.
LEMMA OneReading ==
    ASSUME NEW s \in Seq(Nat), NEW sign \in Signs, NEW denote \in Denotes, NEW k,
           Numeral(s, sign[2] \o denote[2], denote[1], k)
    PROVE  k = Start(s) /\ k <= Len(s) /\ sign[1] = SignOf(s) /\ denote[1] = BaseOf(s)
  <1>1. PICK p \in Seq(Nat), d \in Seq(Nat) : p = sign[2] /\ d = denote[2]
    BY SignCases, DenoteCases
  <1>2. /\ k = Len(p) + Len(d) + 1 /\ k <= Len(s)
        /\ \A i \in 1..Len(p) : s[i] = p[i]
        /\ \A i \in 1..Len(d) : s[Len(p) + i] = d[i]
        /\ \A i \in k..Len(s) : CharToNumber(s[i]) \in 0..(denote[1] - 1)
    <2>1. Numeral(s, p \o d, denote[1], k)
      BY <1>1
    <2> QED
      BY <2>1, NumeralIs
  <1>3. /\ \/ sign[1] = 1 /\ Len(p) = 0
           \/ sign[1] = 1 /\ Len(p) = 1 /\ p[1] = Plus
           \/ sign[1] = -1 /\ Len(p) = 1 /\ p[1] = Dash
        /\ \/ denote[1] = 10 /\ Len(d) = 0
           \/ denote[1] = 16 /\ Len(d) = 2 /\ d[1] = Zero /\ d[2] = LetterX
           \/ denote[1] = 2 /\ Len(d) = 2 /\ d[1] = Zero /\ d[2] = LetterB
    BY <1>1, SignCases, DenoteCases
  <1>4. Len(s) \in Nat /\ s # <<>> /\ Len(p) \in {0, 1} /\ Len(d) \in {0, 2}
    BY <1>2, <1>3, SMTT(20)
  <1>5. Len(d) = 0 => \A i \in k..Len(s) : s[i] \notin {Dash, Plus, LetterX, LetterB}
    <2>1. Len(d) = 0 => denote[1] - 1 = 9
      BY <1>3
    <2> QED
      BY <1>2, <2>1, NotDecimal
  <1>6. SignLen(s) = Len(p) /\ SignOf(s) = sign[1]
    <2>1. CASE sign[1] = 1 /\ Len(p) = 0
      <3>1. s[1] \notin {Dash, Plus}
        <4>1. CASE Len(d) = 0
          BY <1>2, <1>4, <1>5, <2>1, <4>1
        <4>2. CASE Len(d) = 2
          <5>1. s[Len(p) + 1] = d[1] /\ Len(p) + 1 = 1 /\ d[1] = Zero
            BY <1>2, <1>3, <2>1, <4>2
          <5> QED
            BY <5>1, NotDecimal
        <4> QED
          BY <1>4, <4>1, <4>2
      <3> QED
        BY <2>1, <3>1 DEF SignLen, SignOf
    <2>2. CASE sign[1] = 1 /\ Len(p) = 1 /\ p[1] = Plus
      <3>1. s[1] = Plus
        BY <1>2, <2>2
      <3> QED
        BY <1>4, <2>2, <3>1, NotDecimal DEF SignLen, SignOf
    <2>3. CASE sign[1] = -1 /\ Len(p) = 1 /\ p[1] = Dash
      <3>1. s[1] = Dash
        BY <1>2, <2>3
      <3> QED
        BY <1>4, <2>3, <3>1, NotDecimal DEF SignLen, SignOf
    <2> QED
      BY <1>3, <2>1, <2>2, <2>3
  <1>7. BaseOf(s) = denote[1] /\ (BaseOf(s) = 10 <=> Len(d) = 0)
    <2>1. CASE denote[1] = 10 /\ Len(d) = 0
      <3>1. Len(s) >= SignLen(s) + 2 => SignLen(s) + 2 \in k..Len(s)
        BY <1>2, <1>4, <1>6, <2>1
      <3>2. ~Denoted(s, LetterX) /\ ~Denoted(s, LetterB)
        BY <1>5, <2>1, <3>1 DEF Denoted
      <3> QED
        BY <2>1, <3>2 DEF BaseOf
    <2>2. CASE Len(d) = 2 /\ d[1] = Zero
      <3>1. s[SignLen(s) + 1] = Zero /\ s[SignLen(s) + 2] = d[2] /\ Len(s) >= SignLen(s) + 2
        BY <1>2, <1>4, <1>6, <2>2
      <3>2. \A c : Denoted(s, c) <=> d[2] = c
        BY <3>1 DEF Denoted
      <3>3. CASE denote[1] = 16 /\ d[2] = LetterX
        BY <2>2, <3>2, <3>3 DEF BaseOf
      <3>4. CASE denote[1] = 2 /\ d[2] = LetterB
        BY <2>2, <3>2, <3>4, NotDecimal DEF BaseOf
      <3> QED
        BY <1>3, <2>2, <3>3, <3>4
    <2> QED
      BY <1>3, <2>1, <2>2
  <1>8. k = Start(s)
    BY <1>2, <1>4, <1>6, <1>7 DEF Start
  <1> QED
    BY <1>2, <1>6, <1>7, <1>8

\* And if what is left are digits of the base, it is a numeral.
LEMMA IsNumeral ==
    ASSUME NEW s \in Seq(Nat), Start(s) <= Len(s),
           \A i \in Start(s)..Len(s) : CharToNumber(s[i]) \in 0..(BaseOf(s) - 1)
    PROVE  \E sign \in Signs, denote \in Denotes :
              /\ sign[1] = SignOf(s) /\ denote[1] = BaseOf(s)
              /\ Numeral(s, sign[2] \o denote[2], denote[1], Start(s))
  <1>1. SignLen(s) \in {0, 1} /\ Start(s) \in 1..Len(s) /\ Len(s) \in Nat /\ BaseOf(s) \in {2, 10, 16}
    BY ToIntegerIs
  <1>2. PICK sign \in Signs : /\ sign[1] = SignOf(s) /\ Len(sign[2]) = SignLen(s)
                              /\ SignLen(s) = 1 => sign[2][1] = s[1]
    <2> DEFINE p == <<1, <<>>>>
               q == <<1, <<Plus>>>>
               m == <<-1, <<Dash>>>>
    <2>1. p \in Signs /\ q \in Signs /\ m \in Signs
      BY DEF Signs
    <2>2. /\ p[1] = 1 /\ Len(p[2]) = 0 /\ q[1] = 1 /\ Len(q[2]) = 1 /\ q[2][1] = Plus
          /\ m[1] = -1 /\ Len(m[2]) = 1 /\ m[2][1] = Dash
      OBVIOUS
    <2> HIDE DEF p, q, m
    <2>3. CASE SignLen(s) = 0
      <3>1. SignOf(s) = 1
        BY <2>3, NotDecimal DEF SignLen, SignOf
      <3> QED
        BY <2>1, <2>2, <2>3, <3>1
    <2>4. CASE SignLen(s) = 1 /\ s[1] = Dash
      <3>1. SignOf(s) = -1
        BY <2>4, NotDecimal DEF SignLen, SignOf
      <3> QED
        BY <2>1, <2>2, <2>4, <3>1
    <2>5. CASE SignLen(s) = 1 /\ s[1] # Dash
      <3>1. SignOf(s) = 1 /\ s[1] = Plus
        BY <2>5, NotDecimal DEF SignLen, SignOf
      <3> QED
        BY <2>1, <2>2, <2>5, <3>1
    <2> QED
      BY <1>1, <2>3, <2>4, <2>5
  <1>3. PICK denote \in Denotes :
           /\ denote[1] = BaseOf(s) /\ Start(s) = SignLen(s) + Len(denote[2]) + 1
           /\ Len(denote[2]) = 0 \/ (/\ Len(denote[2]) = 2
                                     /\ denote[2][1] = s[SignLen(s) + 1] /\ denote[2][2] = s[SignLen(s) + 2])
    <2> DEFINE d == <<10, <<>>>>
               x == <<16, <<Zero, LetterX>>>>
               b == <<2, <<Zero, LetterB>>>>
    <2>1. d \in Denotes /\ x \in Denotes /\ b \in Denotes
      BY DEF Denotes
    <2>2. /\ d[1] = 10 /\ Len(d[2]) = 0 /\ x[1] = 16 /\ Len(x[2]) = 2 /\ x[2][1] = Zero /\ x[2][2] = LetterX
          /\ b[1] = 2 /\ Len(b[2]) = 2 /\ b[2][1] = Zero /\ b[2][2] = LetterB
      OBVIOUS
    <2> HIDE DEF d, x, b
    <2>3. CASE BaseOf(s) = 10
      <3>1. Start(s) = SignLen(s) + 0 + 1
        BY <1>1, <2>3 DEF Start
      <3> QED
        BY <2>1, <2>2, <2>3, <3>1
    <2>4. CASE BaseOf(s) = 16
      <3>1. Start(s) = SignLen(s) + 2 + 1 /\ Denoted(s, LetterX)
        BY <1>1, <2>4 DEF Start, BaseOf
      <3>2. s[SignLen(s) + 1] = Zero /\ s[SignLen(s) + 2] = LetterX
        BY <3>1 DEF Denoted
      <3> QED
        BY <2>1, <2>2, <2>4, <3>1, <3>2
    <2>5. CASE BaseOf(s) = 2
      <3>1. Start(s) = SignLen(s) + 2 + 1 /\ Denoted(s, LetterB)
        BY <1>1, <2>5 DEF Start, BaseOf
      <3>2. s[SignLen(s) + 1] = Zero /\ s[SignLen(s) + 2] = LetterB
        BY <3>1 DEF Denoted
      <3> QED
        BY <2>1, <2>2, <2>5, <3>1, <3>2
    <2> QED
      BY <1>1, <2>3, <2>4, <2>5
  <1>4. PICK p \in Seq(Nat), d \in Seq(Nat) : p = sign[2] /\ d = denote[2]
    BY SignCases, DenoteCases
  <1>5. \A i \in 1..Len(p) : s[i] = p[i]
    BY <1>1, <1>2, <1>4
  <1>6. \A i \in 1..Len(d) : s[Len(p) + i] = d[i]
    <2>1. Len(d) = 0 \/ (Len(d) = 2 /\ d[1] = s[Len(p) + 1] /\ d[2] = s[Len(p) + 2])
      BY <1>2, <1>3, <1>4
    <2>2. ASSUME NEW i \in 1..Len(d) PROVE s[Len(p) + i] = d[i]
      <3>1. Len(d) # 0
        OBVIOUS
      <3>2. i \in 1..2
        BY <2>1, <3>1
      <3>3. CASE i = 1
        BY <2>1, <3>1, <3>3
      <3>4. CASE i = 2
        BY <2>1, <3>1, <3>4
      <3> QED
        BY <3>2, <3>3, <3>4
    <2> QED
      BY <2>2
  <1>7. Numeral(s, p \o d, BaseOf(s), Start(s))
    <2>1. Start(s) = Len(p) + Len(d) + 1
      BY <1>2, <1>3, <1>4
    <2> QED
      BY <1>5, <1>6, <2>1, NumeralIs
  <1> QED
    BY <1>2, <1>3, <1>4, <1>7

\* The only numeral that a text can be.
TheNumeral(s) == [sign |-> SignOf(s), base |-> BaseOf(s), digits |-> DigitsOf(s)]
IsOne(s) == Start(s) <= Len(s) /\ AllDigits(DigitsOf(s), BaseOf(s))

\* Where the digits of a text are.
LEMMA DigitsAre ==
    ASSUME NEW s \in Seq(Nat)
    PROVE  /\ DigitsOf(s) \in Seq(Nat) /\ (Start(s) <= Len(s) => DigitsOf(s) # <<>>)
           /\ \A i \in DOMAIN DigitsOf(s) :
                 /\ DigitsOf(s)[i] = s[Start(s) + i - 1]
                 /\ Start(s) + i - 1 \in Start(s)..Len(s) /\ Start(s) + i - 1 \in DOMAIN s
           /\ AllDigits(DigitsOf(s), BaseOf(s)) <=>
                 \A i \in Start(s)..Len(s) : CharToNumber(s[i]) \in 0..(BaseOf(s) - 1)
           /\ Horner(DigitsOf(s), BaseOf(s)) \in Int
  <1> DEFINE d == DigitsOf(s)
             b == BaseOf(s)
  <1>1. b \in {2, 10, 16} /\ Start(s) \in 1..(Len(s) + 1) /\ Len(s) \in Nat /\ b \in Nat
    BY ToIntegerIs
  <1>2. /\ d \in Seq(Nat) /\ Len(d) = Len(s) + 1 - Start(s)
        /\ \A i \in 1..(Len(s) + 1 - Start(s)) : d[i] = s[Start(s) + i - 1]
    BY <1>1, Rest, SMTT(20) DEF DigitsOf
  <1>3. Start(s) <= Len(s) => d # <<>>
    <2> HIDE DEF d
    <2> QED
      BY <1>1, <1>2
  <1>4. ASSUME NEW i \in DOMAIN d
        PROVE  /\ d[i] = s[Start(s) + i - 1]
               /\ Start(s) + i - 1 \in Start(s)..Len(s) /\ Start(s) + i - 1 \in DOMAIN s
    <2> HIDE DEF d
    <2>1. i \in 1..(Len(s) + 1 - Start(s))
      BY <1>2
    <2>2. Start(s) + i - 1 \in Start(s)..Len(s) /\ Start(s) + i - 1 \in 1..Len(s)
      <3>1. \A n \in Nat : \A k \in 1..(n + 1) : \A j \in 1..(n + 1 - k) : k + j - 1 \in k..n /\ k + j - 1 \in 1..n
        OBVIOUS
      <3> QED
        BY <1>1, <2>1, <3>1, Zenon
    <2> QED
      BY <1>2, <2>1, <2>2
  <1>5. AllDigits(d, b) <=> \A i \in Start(s)..Len(s) : CharToNumber(s[i]) \in 0..(b - 1)
    <2>1. ASSUME AllDigits(d, b), NEW i \in Start(s)..Len(s) PROVE CharToNumber(s[i]) \in 0..(b - 1)
      <3>1. i - Start(s) + 1 \in 1..(Len(s) + 1 - Start(s)) /\ Start(s) + (i - Start(s) + 1) - 1 = i
        BY <1>1, SMTT(20)
      <3>2. d[i - Start(s) + 1] = s[i] /\ i - Start(s) + 1 \in DOMAIN d
        BY <1>2, <3>1
      <3> QED
        BY <2>1, <3>2 DEF AllDigits
    <2>2. ASSUME \A i \in Start(s)..Len(s) : CharToNumber(s[i]) \in 0..(b - 1) PROVE AllDigits(d, b)
      BY <1>4, <2>2 DEF AllDigits
    <2> QED
      BY <2>1, <2>2
  <1>6. Horner(d, b) \in Int
    <2>1. PICK v \in [0..Len(d) -> Int] : v[Len(d)] = Horner(d, b)
      BY <1>1, <1>2, HornerSteps
    <2>2. Len(d) \in 0..Len(d)
      BY <1>2
    <2> QED
      BY <2>1, <2>2
  <1> HIDE DEF d, b
  <1>7. /\ d \in Seq(Nat) /\ (Start(s) <= Len(s) => d # <<>>)
        /\ \A i \in DOMAIN d : /\ d[i] = s[Start(s) + i - 1]
                               /\ Start(s) + i - 1 \in Start(s)..Len(s) /\ Start(s) + i - 1 \in DOMAIN s
        /\ AllDigits(d, b) <=> \A i \in Start(s)..Len(s) : CharToNumber(s[i]) \in 0..(b - 1)
        /\ Horner(d, b) \in Int
    BY <1>2, <1>3, <1>4, <1>5, <1>6, Zenon
  <1> QED
    BY <1>7, Zenon DEF d, b

LEMMA NumeralsOf ==
    ASSUME NEW s \in Seq(Nat), NEW x
    PROVE  x \in Numerals(s) <=> IsOne(s) /\ x = TheNumeral(s)
  <1> DEFINE d == DigitsOf(s)
             b == BaseOf(s)
             g == SignOf(s)
  <1>1. AllDigits(d, b) <=> \A i \in Start(s)..Len(s) : CharToNumber(s[i]) \in 0..(b - 1)
    BY DigitsAre
  <1>2. ASSUME x \in Numerals(s) PROVE IsOne(s) /\ x = TheNumeral(s)
    <2>1. PICK sign \in Signs, denote \in Denotes :
             \E k : /\ Numeral(s, sign[2] \o denote[2], denote[1], k)
                    /\ x = [sign |-> sign[1], base |-> denote[1], digits |-> SubSeq(s, k, Len(s))]
      BY <1>2, NumeralsAre
    <2>2. PICK k : /\ Numeral(s, sign[2] \o denote[2], denote[1], k)
                   /\ x = [sign |-> sign[1], base |-> denote[1], digits |-> SubSeq(s, k, Len(s))]
      BY <2>1
    <2>3. k = Start(s) /\ k <= Len(s) /\ sign[1] = g /\ denote[1] = b
      BY <2>2, OneReading
    <2>4. \A i \in k..Len(s) : CharToNumber(s[i]) \in 0..(denote[1] - 1)
      BY <2>2 DEF Numeral
    <2>5. IsOne(s)
      BY <1>1, <2>3, <2>4 DEF IsOne
    <2>6. SubSeq(s, k, Len(s)) = d
      BY <2>3 DEF DigitsOf
    <2> QED
      BY <2>2, <2>3, <2>5, <2>6, Zenon DEF TheNumeral
  <1>3. ASSUME IsOne(s), x = TheNumeral(s) PROVE x \in Numerals(s)
    <2>1. Start(s) <= Len(s) /\ \A i \in Start(s)..Len(s) : CharToNumber(s[i]) \in 0..(b - 1)
      BY <1>1, <1>3 DEF IsOne
    <2>2. PICK sign \in Signs, denote \in Denotes :
             /\ sign[1] = g /\ denote[1] = b
             /\ Numeral(s, sign[2] \o denote[2], denote[1], Start(s))
      BY <2>1, IsNumeral
    <2>3. x = [sign |-> sign[1], base |-> denote[1], digits |-> SubSeq(s, Start(s), Len(s))]
      BY <1>3, <2>2, Zenon DEF TheNumeral, DigitsOf
    <2> QED
      BY <2>2, <2>3, NumeralsAre
  <1> QED
    BY <1>2, <1>3

\* What cflare_tointeger returns, whatever the text.
LEMMA ToIntegerTyped ==
    ASSUME NEW s \in Seq(Nat)
    PROVE  /\ ToInteger(s).out \in {"true", "undefined", "false", "abort"} /\ ToInteger(s).value \in Int
           /\ ToInteger(s).out \in {"true", "undefined"} <=> Numerals(s) # {}
           /\ \A n \in Numerals(s) : /\ Numerals(s) = {n} /\ Meaning(n) \in Int
                                     /\ Fits(n) => ToInteger(s) = Gives(Meaning(n))
           /\ ToInteger(s).out = "abort" => \E i \in DOMAIN s : CharToNumber(s[i]) = -1
  <1> DEFINE d == DigitsOf(s)
             b == BaseOf(s)
             g == SignOf(s)
             number == DigitsValue(d, b)
             r == ToInteger(s)
             Read == [out : {"true", "undefined", "false", "abort"}, value : Int]
  <1>1. /\ g \in {-1, 1} /\ b \in Nat \ {0} /\ Start(s) \in 1..(Len(s) + 1) /\ Len(s) \in Nat
        /\ r = IF Start(s) > Len(s) THEN Fails
               ELSE IF g = -1 THEN [number EXCEPT !.value = -@] ELSE number
    <2>1. \A x \in {2, 10, 16} : x \in Nat \ {0}
      OBVIOUS
    <2> QED
      BY <2>1, ToIntegerIs
  <1>2. d \in Seq(Nat) /\ (Start(s) <= Len(s) => d # <<>>) /\ Horner(d, b) \in Int
    BY DigitsAre
  <1>3. (\E i \in DOMAIN d : CharToNumber(d[i]) = -1) => \E i \in DOMAIN s : CharToNumber(s[i]) = -1
    BY DigitsAre
  <1>4. \A x : x \in Numerals(s) <=> IsOne(s) /\ x = TheNumeral(s)
    BY NumeralsOf
  <1>5. IsOne(s) <=> Start(s) <= Len(s) /\ AllDigits(d, b)
    BY DEF IsOne
  <1>6. \A n \in Numerals(s) : /\ Meaning(n) = g * Horner(d, b)
                               /\ Fits(n) <=> Horner(d, b) <= Exact /\ Power(b, Len(d) - 1) <= Largest
    <2>1. TheNumeral(s).sign = g /\ TheNumeral(s).base = b /\ TheNumeral(s).digits = d
      BY DEF TheNumeral
    <2> QED
      BY <1>4, <2>1, Zenon DEF Meaning, Fits
  <1>7. g * Horner(d, b) \in Int
    BY <1>1, <1>2
  <1> HIDE DEF d, b, g, number, r
  <1>8. d # <<>> =>
           /\ AllDigits(d, b) => number = Undefined \/ \E v \in Nat : number = Gives(v)
           /\ AllDigits(d, b) /\ Horner(d, b) <= Exact /\ Power(b, Len(d) - 1) <= Largest =>
                 number = Gives(Horner(d, b))
           /\ ~AllDigits(d, b) =>
                 /\ number \in {Aborts, Fails}
                 /\ number.out = "abort" => \E i \in DOMAIN d : CharToNumber(d[i]) = -1
    BY <1>1, <1>2, DigitsValueIs DEF number
  <1>9. CASE IsOne(s)
    <2>1. Start(s) <= Len(s) /\ ~(Start(s) > Len(s)) /\ AllDigits(d, b) /\ d # <<>>
      BY <1>1, <1>2, <1>5, <1>9
    <2>2. number = Undefined \/ \E v \in Nat : number = Gives(v)
      BY <1>8, <2>1
    <2>3. number \in [out : {"true", "undefined"}, value : Nat]
      BY <2>2 DEF Undefined, Gives
    <2>4. r = IF g = -1 THEN [number EXCEPT !.value = -@] ELSE number
      BY <1>1, <2>1
    <2>5. r \in [out : {"true", "undefined"}, value : Int]
      <3>1. number \in [out : {"true", "undefined"}, value : Int]
        BY <2>3
      <3>2. [number EXCEPT !.value = -@] \in [out : {"true", "undefined"}, value : Int]
        BY <2>3
      <3> QED
        BY <2>4, <3>1, <3>2
    <2>6. ASSUME Horner(d, b) <= Exact, Power(b, Len(d) - 1) <= Largest PROVE r = Gives(g * Horner(d, b))
      <3>1. number = [out |-> "true", value |-> Horner(d, b)]
        BY <1>8, <2>1, <2>6 DEF Gives
      <3>2. PICK h \in Int : h = Horner(d, b)
        BY <1>2
      <3>3. CASE g = -1
        <4>1. [number EXCEPT !.value = -@] = [out |-> "true", value |-> -h]
          BY <3>1, <3>2
        <4>2. -h = g * h
          BY <3>3
        <4>3. r = [number EXCEPT !.value = -@]
          BY <2>4, <3>3
        <4> QED
          BY <3>2, <4>1, <4>2, <4>3 DEF Gives
      <3>4. CASE g = 1
        <4>1. g * h = h
          BY <3>4
        <4>2. r = number
          BY <2>4, <3>4
        <4> QED
          BY <3>1, <3>2, <4>1, <4>2 DEF Gives
      <3> QED
        BY <1>1, <3>3, <3>4
    <2>7. Numerals(s) = {TheNumeral(s)}
      BY <1>4, <1>9
    <2>8. r.out \in {"true", "undefined"} /\ r.out # "abort" /\ r.value \in Int
      BY <2>5
    <2>9. \A n \in Numerals(s) : /\ Numerals(s) = {n} /\ Meaning(n) \in Int
                                 /\ Fits(n) => r = Gives(Meaning(n))
      BY <1>6, <1>7, <2>6, <2>7, Zenon
    <2>10. /\ r.out \in {"true", "undefined", "false", "abort"} /\ r.value \in Int
           /\ r.out \in {"true", "undefined"} <=> Numerals(s) # {}
           /\ r.out = "abort" => \E i \in DOMAIN s : CharToNumber(s[i]) = -1
      BY <2>7, <2>8
    <2> QED
      BY <2>9, <2>10, Zenon DEF r
  <1>10. CASE ~IsOne(s)
    <2>1. Numerals(s) = {}
      BY <1>4, <1>10
    <2>2. CASE Start(s) > Len(s)
      <3>1. r = Fails
        BY <1>1, <2>2
      <3>2. r.out = "false" /\ r.value = 0
        BY <3>1 DEF Fails
      <3> QED
        BY <2>1, <3>2 DEF r
    <2>3. CASE ~(Start(s) > Len(s))
      <3>1. d # <<>> /\ ~AllDigits(d, b)
        BY <1>1, <1>2, <1>5, <1>10, <2>3
      <3>2. number \in {Aborts, Fails}
        BY <1>8, <3>1
      <3>3. number.out \in {"false", "abort"} /\ number.value = 0
        BY <3>2 DEF Aborts, Fails
      <3>4. [number EXCEPT !.value = -@].out = number.out /\ [number EXCEPT !.value = -@].value = 0
        BY <3>2 DEF Aborts, Fails
      <3>5. r.out = number.out /\ r.value = 0
        BY <1>1, <2>3, <3>3, <3>4
      <3>6. r.out = "abort" => \E i \in DOMAIN s : CharToNumber(s[i]) = -1
        BY <1>3, <1>8, <3>1, <3>5
      <3>7. r.out \in {"false", "abort"} /\ r.value = 0
        BY <3>3, <3>5
      <3> QED
        BY <2>1, <3>6, <3>7 DEF r
    <2> QED
      BY <2>2, <2>3
  <1> QED
    BY <1>9, <1>10

\* cflare_tointeger accepts exactly the numerals, whatever the text, and gives what
\* they mean where a double can hold it.
THEOREM ToIntegerReadsNumerals == \A s \in Seq(Nat) : ReadsNumerals(s)
  <1> TAKE s \in Seq(Nat)
  <1> QED
    BY ToIntegerTyped, Zenon DEF ReadsNumerals

-----------------------------------------------------------------------------
\* The inputs are texts of the parts of their kind.
TextInv ==
    /\ kind \in {"number", "query", "options", "status", "head"}
    /\ input \in Seq(Parts[kind])

\* An input stays one.
LEMMA TextInvInductive == Spec => []TextInv
  <1>1. Init => TextInv
    BY EmptySeq DEF Init, TextInv, Parts
  <1>2. TextInv /\ [Next]_<<kind, input>> => TextInv'
    <2>1. SUFFICES ASSUME TextInv, [Next]_<<kind, input>> PROVE TextInv'
      OBVIOUS
    <2>2. CASE UNCHANGED <<kind, input>>
      BY <2>1, <2>2 DEF TextInv
    <2>3. CASE Next
      <3>1. PICK p \in Parts[kind] : input' = Append(input, p)
        BY <2>3 DEF Next
      <3>2. kind' = kind
        BY <2>3 DEF Next
      <3>3. input' \in Seq(Parts[kind])
        BY <2>1, <3>1, AppendProperties DEF TextInv
      <3> QED
        BY <2>1, <3>2, <3>3 DEF TextInv
    <2> QED
      BY <2>1, <2>2, <2>3
  <1> QED
    BY <1>1, <1>2, PTL DEF Spec

\* Whatever number text the run is given, cflare_tointeger reads it so.
THEOREM NumbersRead == Spec => []ToIntegerCorrect
  <1>1. TextInv => ToIntegerCorrect
    <2> SUFFICES ASSUME TextInv, kind = "number" PROVE ReadsNumerals(input)
      BY DEF ToIntegerCorrect
    <2>1. Parts["number"] = NumberChars /\ NumberChars \subseteq Nat
      BY DEF Parts, NumberChars
    <2>2. input \in Seq(NumberChars)
      BY <2>1 DEF TextInv
    <2>3. input \in Seq(Nat)
      BY <2>1, <2>2, SeqMonotonic
    <2> QED
      BY <2>3, ToIntegerReadsNumerals
  <1> QED
    BY <1>1, TextInvInductive, PTL

-----------------------------------------------------------------------------
\* A header line with any characters behind its colon and behind itself, and a
\* request.  The names are those the code tells apart, "other" stands for the rest.
HeaderNames == {"host", "connection", "content-length", "other", "none"}
Line ==
    [is : {"header", "unknown", "folded", "plain"}, name : HeaderNames, text : Seq(Nat), behind : Seq(Nat)]
Request ==
    [out : {"go", "400", "413", "abort", "undefined"}, count : Nat, host : {"none", "text", "wrapped", "authority"},
     path : {"given", "null"}, keepalive : BOOLEAN, length : Int]

\* What the value of a line says: a length, which is sure to be read as it is
\* meant if it fits, and whether to keep the connection.
Meant(line) == {Meaning(n) : n \in Numerals(Value(line))}
Sure(line) == \A n \in Numerals(Value(line)) : Fits(n)
Kept(line) == KeepAlive \in ToSet(Value(line))
HostOf(line) == IF line.text = <<>> THEN "wrapped" ELSE "text"

LEMMA ValueTyped == \A line \in Line : Value(line) \in Seq(Nat)
  <1> TAKE line \in Line
  <1>1. line.text \in Seq(Nat) /\ line.behind \in Seq(Nat)
    BY DEF Line
  <1>2. line.text # <<>> => Tail(line.text) \in Seq(Nat)
    BY <1>1, HeadTailProperties
  <1> QED
    BY <1>1, <1>2 DEF Value

\* What a header that finds room makes of r.
Stores(r, line, t) ==
    /\ t \in Request /\ t.count = r.count + 1 /\ t.path = r.path
    /\ line.name # "content-length" => t.out = "go" /\ t.length = r.length
    /\ line.name = "content-length" /\ Sure(line) => /\ t.out = "go" <=> Meant(line) # {}
                                                     /\ t.out = "go" => t.length \in Meant(line)
    /\ t.host = IF line.name = "host" THEN HostOf(line) ELSE r.host
    /\ t.keepalive <=> IF line.name = "connection" THEN Kept(line) ELSE r.keepalive

\* What a turn of the loop over the lines does to a request that goes on: r
\* becomes t.
Turns(r, line, t) ==
    /\ t \in Request
    /\ r.out # "go" => t = r
    /\ r.out = "go" /\ line.is \in {"folded", "plain"} => t.out # "go" /\ t.count = r.count
    /\ r.out = "go" /\ line.is = "unknown" => t = r
    /\ r.out = "go" /\ line.is = "header" /\ r.count >= MaxHeaders => t.out # "go" /\ t.count = r.count
    /\ r.out = "go" /\ line.is = "header" /\ r.count < MaxHeaders => Stores(r, line, t)

LEMMA StoredIs ==
    ASSUME NEW r \in Request, NEW line \in Line, r.out = "go"
    PROVE  Stores(r, line, Stored(r, line))
  <1> DEFINE q == [r EXCEPT !.count = @ + 1]
             t == Stored(r, line)
  <1>1. /\ q \in Request /\ q.count = r.count + 1 /\ q.out = r.out /\ q.host = r.host
        /\ q.keepalive = r.keepalive /\ q.length = r.length /\ q.path = r.path
    BY DEF Request
  <1>2. t = CASE line.name = "host" -> [q EXCEPT !.host = IF line.text = <<>> THEN "wrapped" ELSE "text"]
              [] line.name = "connection" -> [q EXCEPT !.keepalive = KeepAlive \in ToSet(Value(line))]
              [] line.name = "content-length" -> ContentLength(q, Value(line))
              [] OTHER -> q
    BY Zenon DEF Stored
  <1> HIDE DEF q, t
  <1>3. CASE line.name = "host"
    <2>1. PICK h \in {"text", "wrapped"} : h = HostOf(line)
      BY DEF HostOf
    <2>2. t = [q EXCEPT !.host = h]
      BY <1>2, <1>3, <2>1, Zenon DEF HostOf
    <2>3. /\ t \in Request /\ t.host = h /\ t.count = q.count /\ t.out = q.out
          /\ t.keepalive = q.keepalive /\ t.length = q.length /\ t.path = q.path
      BY <1>1, <2>2 DEF Request
    <2> QED
      BY <1>1, <1>3, <2>1, <2>3 DEF t, Stores
  <1>4. CASE line.name = "connection"
    <2>1. t = [q EXCEPT !.keepalive = KeepAlive \in ToSet(Value(line))]
      BY <1>2, <1>4
    <2>2. PICK yes \in BOOLEAN : yes = (KeepAlive \in ToSet(Value(line)))
      <3>1. CASE KeepAlive \in ToSet(Value(line))
        <4>1. TRUE = (KeepAlive \in ToSet(Value(line)))
          BY <3>1, Zenon
        <4> QED
          BY <4>1, Zenon
      <3>2. CASE KeepAlive \notin ToSet(Value(line))
        <4>1. FALSE = (KeepAlive \in ToSet(Value(line)))
          BY <3>2
        <4> QED
          BY <4>1, Zenon
      <3> QED
        BY <3>1, <3>2
    <2>3. t = [q EXCEPT !.keepalive = yes]
      BY <2>1, <2>2
    <2>4. /\ t \in Request /\ t.keepalive = yes /\ t.count = q.count /\ t.out = q.out
          /\ t.host = q.host /\ t.length = q.length /\ t.path = q.path
      BY <1>1, <2>3 DEF Request
    <2>5. t.keepalive <=> Kept(line)
      BY <2>2, <2>4 DEF Kept
    <2> QED
      BY <1>1, <1>4, <2>4, <2>5 DEF t, Stores
  <1>5. CASE line.name = "content-length"
    <2> DEFINE n == ToInteger(Value(line))
               o == [true |-> "go", undefined |-> "undefined", false |-> "400", abort |-> "abort"][n.out]
               l == IF n.out = "true" THEN n.value ELSE q.length
    <2>1. t = ContentLength(q, Value(line))
      BY <1>2, <1>5
    <2>2. Value(line) \in Seq(Nat)
      BY ValueTyped
    <2>3. /\ n.out \in {"true", "undefined", "false", "abort"} /\ n.value \in Int
          /\ n.out \in {"true", "undefined"} <=> Numerals(Value(line)) # {}
          /\ \A m \in Numerals(Value(line)) : Fits(m) => n = Gives(Meaning(m))
      BY <2>2, ToIntegerTyped
    <2>4. t = [q EXCEPT !.length = l, !.out = o]
      BY <2>1 DEF ContentLength
    <2> HIDE DEF n
    <2>5. o \in {"go", "400", "abort", "undefined"} /\ (o = "go" <=> n.out = "true")
      BY <2>3
    <2>6. l \in Int /\ (n.out = "true" => l = n.value)
      BY <1>1, <2>3 DEF Request
    <2> HIDE DEF o, l
    <2>7. /\ t \in Request /\ t.length = l /\ t.out = o /\ t.count = q.count /\ t.host = q.host
          /\ t.keepalive = q.keepalive /\ t.path = q.path
      BY <1>1, <2>4, <2>5, <2>6 DEF Request
    <2>8. ASSUME Sure(line) PROVE /\ n.out = "true" <=> Meant(line) # {}
                                  /\ n.out = "true" => n.value \in Meant(line)
      <3>1. CASE Numerals(Value(line)) = {}
        <4>1. n.out # "true" /\ Meant(line) = {}
          BY <2>3, <3>1 DEF Meant
        <4> QED
          BY <4>1
      <3>2. CASE Numerals(Value(line)) # {}
        <4>1. PICK m : m \in Numerals(Value(line))
          BY <3>2
        <4>2. n = Gives(Meaning(m)) /\ Meaning(m) \in Meant(line)
          BY <2>3, <2>8, <4>1 DEF Sure, Meant
        <4>3. n.out = "true" /\ n.value = Meaning(m)
          BY <4>2 DEF Gives
        <4> QED
          BY <4>2, <4>3
      <3> QED
        BY <3>1, <3>2
    <2> QED
      BY <1>1, <1>5, <2>5, <2>6, <2>7, <2>8 DEF t, Stores
  <1>6. CASE line.name \notin {"host", "connection", "content-length"}
    <2>1. t = q
      BY <1>2, <1>6
    <2> QED
      BY <1>1, <1>6, <2>1 DEF t, Stores
  <1> QED
    BY <1>3, <1>4, <1>5, <1>6

LEMMA HeaderLineIs ==
    ASSUME NEW r \in Request, NEW line \in Line
    PROVE  Turns(r, line, HeaderLine(r, line))
  <1> DEFINE t == HeaderLine(r, line)
  <1>1. t = IF r.out # "go" THEN r
            ELSE CASE line.is \in {"folded", "plain"} -> [r EXCEPT !.out = "400"]
                   [] line.is = "unknown" -> r
                   [] line.is = "header" /\ r.count >= MaxHeaders -> [r EXCEPT !.out = "413"]
                   [] line.is = "header" /\ r.count < MaxHeaders -> Stored(r, line)
    BY Zenon DEF HeaderLine
  <1>2. MaxHeaders \in Nat /\ r.count \in Nat /\ line.is \in {"header", "unknown", "folded", "plain"}
    BY RequestHeadAssumption DEF Request, Line
  <1>3. r.count < MaxHeaders <=> ~(r.count >= MaxHeaders)
    BY <1>2
  <1>4. ASSUME NEW o \in {"400", "413"}
        PROVE  /\ [r EXCEPT !.out = o] \in Request /\ [r EXCEPT !.out = o].out # "go"
               /\ [r EXCEPT !.out = o].count = r.count
    BY DEF Request
  <1> HIDE DEF t
  <1>5. CASE r.out # "go"
    BY <1>1, <1>5 DEF Turns, t
  <1>6. CASE r.out = "go" /\ line.is \in {"folded", "plain"}
    <2>1. t = [r EXCEPT !.out = "400"]
      BY <1>1, <1>6
    <2>2. t \in Request /\ t.out # "go" /\ t.count = r.count
      BY <1>4, <2>1
    <2> QED
      BY <1>6, <2>2 DEF Turns, t
  <1>7. CASE r.out = "go" /\ line.is = "unknown"
    BY <1>1, <1>7 DEF Turns, t
  <1>8. CASE r.out = "go" /\ line.is = "header" /\ r.count >= MaxHeaders
    <2>1. t = [r EXCEPT !.out = "413"]
      BY <1>1, <1>3, <1>8
    <2>2. t \in Request /\ t.out # "go" /\ t.count = r.count
      BY <1>4, <2>1
    <2>3. ~(r.count < MaxHeaders) /\ line.is \notin {"folded", "plain", "unknown"}
      BY <1>3, <1>8
    <2> QED
      BY <1>8, <2>2, <2>3, Zenon DEF Turns, t
  <1>9. CASE r.out = "go" /\ line.is = "header" /\ r.count < MaxHeaders
    <2>1. t = Stored(r, line)
      BY <1>1, <1>3, <1>9
    <2>2. Stores(r, line, t) /\ t \in Request
      <3>1. Stores(r, line, t)
        BY <1>9, <2>1, StoredIs
      <3> QED
        BY <3>1 DEF Stores
    <2>3. ~(r.count >= MaxHeaders) /\ line.is \notin {"folded", "plain", "unknown"}
      BY <1>3, <1>9
    <2> QED
      BY <1>9, <2>2, <2>3, Zenon DEF Turns, t
  <1> QED
    BY <1>2, <1>3, <1>5, <1>6, <1>7, <1>8, <1>9

\* The loop over the lines of a head.
LEMMA HeadSteps ==
    ASSUME NEW lines \in Seq(Line)
    PROVE  \E f \in [0..Len(lines) -> Request] :
              /\ f[0] = Fresh /\ f[Len(lines)] = FoldLeft(HeaderLine, Fresh, lines)
              /\ \A k \in 1..Len(lines) : f[k] = HeaderLine(f[k - 1], lines[k])
  <1> DEFINE N == Len(lines)
             step == [k \in 1..N |-> [r \in Request |-> HeaderLine(r, lines[k])]]
             Equation(g) == g = [S \in SUBSET (1..N) |->
                                   IF S = {} THEN Fresh ELSE HeaderLine(g[S \ {Max(S)}], lines[Max(S)])]
             h == CHOOSE g : Equation(g)
  <1>1. N \in Nat /\ DOMAIN lines = 1..N /\ \A k \in 1..N : lines[k] \in Line
    OBVIOUS
  <1>2. \A r \in Request, line \in Line : HeaderLine(r, line) \in Request
    BY HeaderLineIs DEF Turns
  <1>3. Fresh \in Request
    BY DEF Fresh, Request
  <1>4. step \in [1..N -> [Request -> Request]]
    BY <1>1, <1>2
  <1>5. \A k \in 1..N, r \in Request : step[k][r] = HeaderLine(r, lines[k])
    OBVIOUS
  <1> HIDE DEF N, step
  <1>6. PICK g : FoldedBy(g, N, Request, Fresh, step)
    BY <1>1, <1>3, <1>4, FoldExists
  <1>7. ASSUME NEW S \in SUBSET (1..N)
        PROVE  g[S] = IF S = {} THEN Fresh ELSE HeaderLine(g[S \ {Max(S)}], lines[Max(S)])
    <2>1. CASE S = {}
      BY <1>6, <2>1 DEF FoldedBy
    <2>2. CASE S # {}
      <3>1. S \in SUBSET (0..N)
        BY <1>1
      <3>2. Max(S) \in 1..N
        BY <1>1, <2>2, <3>1, Greatest
      <3>3. S \ {Max(S)} \in SUBSET (1..N)
        OBVIOUS
      <3>4. g[S \ {Max(S)}] \in Request
        BY <1>6, <3>3 DEF FoldedBy
      <3>5. g[S] = step[Max(S)][g[S \ {Max(S)}]]
        BY <1>6, <2>2 DEF FoldedBy
      <3> QED
        BY <1>5, <2>2, <3>2, <3>4, <3>5
    <2> QED
      BY <2>1, <2>2
  <1>8. Equation(g)
    <2>1. g = [S \in SUBSET (1..N) |-> g[S]]
      BY <1>6 DEF FoldedBy
    <2> QED
      BY <1>7, <2>1, Zenon
  <1>9. Equation(h)
    BY <1>8, Zenon
  <1>10. FoldLeft(HeaderLine, Fresh, lines) = h[1..N]
    BY <1>1, Zenon DEF FoldLeft, MapThenFoldSet
  <1>11. \A S \in SUBSET (1..N) :
            h[S] = IF S = {} THEN Fresh ELSE HeaderLine(h[S \ {Max(S)}], lines[Max(S)])
    <2> DEFINE e == [S \in SUBSET (1..N) |->
                       IF S = {} THEN Fresh ELSE HeaderLine(h[S \ {Max(S)}], lines[Max(S)])]
    <2>1. h = e
      BY <1>9
    <2>2. \A S \in SUBSET (1..N) :
             e[S] = IF S = {} THEN Fresh ELSE HeaderLine(h[S \ {Max(S)}], lines[Max(S)])
      OBVIOUS
    <2> HIDE DEF e, h
    <2> QED
      BY <2>1, <2>2
  <1> HIDE DEF h
  <1> DEFINE f == [k \in 0..N |-> h[1..k]]
  <1>12. \A k \in 0..N : f[k] = h[1..k] /\ 1..k \in SUBSET (1..N)
    BY <1>1
  <1>13. f[0] = Fresh
    <2>1. 1..0 = {} /\ 0 \in 0..N
      BY <1>1
    <2> QED
      BY <1>11, <1>12, <2>1
  <1> HIDE DEF f
  <1>14. ASSUME NEW k \in 1..N PROVE f[k] = HeaderLine(f[k - 1], lines[k])
    <2>1. k \in 0..N /\ k - 1 \in 0..N /\ k \in Nat /\ k # 0
      BY <1>1
    <2>2. Max(1..k) = k /\ (1..k) \ {k} = 1..(k - 1) /\ 1..k # {}
      BY <2>1, PrefixEnd
    <2>3. h[1..k] = HeaderLine(h[1..(k - 1)], lines[k])
      BY <1>11, <1>12, <2>1, <2>2
    <2> QED
      BY <1>12, <2>1, <2>3
  <1>15. \A k \in 0..N : f[k] \in Request
    <2> DEFINE P == {k \in 0..N : f[k] \in Request}
    <2>1. 0 \in P
      BY <1>1, <1>3, <1>13
    <2>2. ASSUME NEW k \in 0..N, k \in P, k < N PROVE k + 1 \in P
      <3>1. k + 1 \in 1..N /\ k + 1 \in 0..N /\ k + 1 - 1 = k
        BY <1>1, <2>2
      <3>2. f[k + 1] = HeaderLine(f[k], lines[k + 1])
        BY <1>14, <3>1
      <3>3. f[k + 1] \in Request
        BY <1>1, <1>2, <2>2, <3>1, <3>2
      <3> QED
        BY <3>1, <3>3
    <2>3. 0..N \subseteq P
      <3> HIDE DEF P
      <3> QED
        BY <1>1, <2>1, <2>2, Induction
    <2> QED
      BY <2>3
  <1>16. f \in [0..N -> Request] /\ f[N] = FoldLeft(HeaderLine, Fresh, lines)
    <2>1. f \in [0..N -> Request]
      BY <1>15 DEF f
    <2>2. N \in 0..N
      BY <1>1
    <2> QED
      BY <1>10, <1>12, <2>1, <2>2
  <1> QED
    BY <1>13, <1>14, <1>16 DEF N

\* The known headers, and those of a name, among the first k lines.
KnownTo(lines, name, k) == {i \in 1..k : lines[i].is = "header" /\ lines[i].name = name}
AllTo(lines, k) == {i \in 1..k : lines[i].is = "header"}

\* The first k lines are accepted; all lengths among them are sure.
Accepted(lines, k) ==
    /\ \A i \in 1..k : lines[i].is \in {"header", "unknown"}
    /\ Cardinality(AllTo(lines, k)) <= MaxHeaders
    /\ \A i \in KnownTo(lines, "content-length", k) : Meant(lines[i]) # {}

AllSure(lines, k) == \A i \in KnownTo(lines, "content-length", k) : Sure(lines[i])

\* What the first k lines make of a request r.
After(lines, k, r) ==
    /\ AllSure(lines, k) =>
          /\ r.out = "go" <=> Accepted(lines, k)
          /\ r.out = "go" =>
                /\ r.count = Cardinality(AllTo(lines, k)) /\ r.path = "given"
                /\ r.host = IF KnownTo(lines, "host", k) = {} THEN "none"
                            ELSE HostOf(lines[Max(KnownTo(lines, "host", k))])
                /\ r.keepalive <=> (KnownTo(lines, "connection", k) # {} =>
                                      Kept(lines[Max(KnownTo(lines, "connection", k))]))
                /\ r.length \in IF KnownTo(lines, "content-length", k) = {} THEN {0}
                                ELSE Meant(lines[Max(KnownTo(lines, "content-length", k))])
    /\ r.count <= MaxHeaders

\* One line more: it is the last header of its name.
LEMMA KnownGrows ==
    ASSUME NEW lines \in Seq(Line), NEW k \in Nat, k < Len(lines), NEW name
    PROVE  /\ lines[k + 1].is = "header" /\ lines[k + 1].name = name =>
                 /\ KnownTo(lines, name, k + 1) = KnownTo(lines, name, k) \cup {k + 1}
                 /\ KnownTo(lines, name, k + 1) # {} /\ Max(KnownTo(lines, name, k + 1)) = k + 1
           /\ ~(lines[k + 1].is = "header" /\ lines[k + 1].name = name) =>
                 KnownTo(lines, name, k + 1) = KnownTo(lines, name, k)
  <1> DEFINE S == KnownTo(lines, name, k + 1)
  <1>1. \A i : i \in 1..(k + 1) <=> i \in 1..k \/ i = k + 1
    OBVIOUS
  <1>2. ~(lines[k + 1].is = "header" /\ lines[k + 1].name = name) => S = KnownTo(lines, name, k)
    BY <1>1, Zenon DEF KnownTo
  <1>3. ASSUME lines[k + 1].is = "header", lines[k + 1].name = name
        PROVE  S = KnownTo(lines, name, k) \cup {k + 1} /\ S # {} /\ Max(S) = k + 1
    <2>1. S = KnownTo(lines, name, k) \cup {k + 1}
      BY <1>1, <1>3, Zenon DEF KnownTo
    <2>2. k + 1 \in S /\ S \in SUBSET (0..(k + 1)) /\ k + 1 \in Nat
      BY <2>1 DEF KnownTo
    <2> HIDE DEF S
    <2>3. Max(S) \in S /\ \A y \in S : y <= Max(S)
      BY <2>2, Greatest
    <2>4. Max(S) \in 0..(k + 1) /\ k + 1 <= Max(S)
      BY <2>2, <2>3
    <2>5. Max(S) = k + 1
      BY <2>4
    <2> QED
      BY <2>1, <2>2, <2>5
  <1> QED
    BY <1>2, <1>3

LEMMA AllGrows ==
    ASSUME NEW lines \in Seq(Line), NEW k \in Nat, k < Len(lines)
    PROVE  /\ Cardinality(AllTo(lines, k)) \in Nat
           /\ lines[k + 1].is = "header" => Cardinality(AllTo(lines, k + 1)) = Cardinality(AllTo(lines, k)) + 1
           /\ lines[k + 1].is # "header" => AllTo(lines, k + 1) = AllTo(lines, k)
  <1>1. \A i : i \in 1..(k + 1) <=> i \in 1..k \/ i = k + 1
    OBVIOUS
  <1>2. lines[k + 1].is # "header" => AllTo(lines, k + 1) = AllTo(lines, k)
    BY <1>1, Zenon DEF AllTo
  <1>3. lines[k + 1].is = "header" => AllTo(lines, k + 1) = AllTo(lines, k) \cup {k + 1}
    BY <1>1, Zenon DEF AllTo
  <1>4. IsFiniteSet(1..k)
    BY FS_Interval
  <1>5. AllTo(lines, k) \subseteq 1..k
    BY DEF AllTo
  <1>6. IsFiniteSet(AllTo(lines, k))
    BY <1>4, <1>5, FS_Subset
  <1>7. Cardinality(AllTo(lines, k)) \in Nat
    BY <1>6, FS_CardinalityType
  <1>8. k + 1 \notin AllTo(lines, k)
    BY DEF AllTo
  <1>9. Cardinality(AllTo(lines, k) \cup {k + 1}) = Cardinality(AllTo(lines, k)) + 1
    BY <1>6, <1>8, FS_AddElement
  <1> QED
    BY <1>2, <1>3, <1>7, <1>9

LEMMA AcceptedStep ==
    ASSUME NEW lines \in Seq(Line), NEW k \in Nat, k < Len(lines)
    PROVE  Accepted(lines, k + 1) <=>
              /\ Accepted(lines, k)
              /\ lines[k + 1].is \in {"header", "unknown"}
              /\ lines[k + 1].is = "header" =>
                    /\ Cardinality(AllTo(lines, k)) < MaxHeaders
                    /\ lines[k + 1].name = "content-length" => Meant(lines[k + 1]) # {}
  <1> DEFINE c == Cardinality(AllTo(lines, k))
             d == Cardinality(AllTo(lines, k + 1))
             K == KnownTo(lines, "content-length", k)
             L == KnownTo(lines, "content-length", k + 1)
             line == lines[k + 1]
  <1>1. MaxHeaders \in Nat /\ line.is \in {"header", "unknown", "folded", "plain"}
    <2>1. k + 1 \in 1..Len(lines)
      OBVIOUS
    <2>2. line \in Line
      BY <2>1
    <2> HIDE DEF line
    <2> QED
      BY <2>2, RequestHeadAssumption DEF Line
  <1>2. c \in Nat /\ (line.is = "header" => d = c + 1) /\ (line.is # "header" => d = c)
    BY AllGrows
  <1>3. /\ line.is = "header" /\ line.name = "content-length" => L = K \cup {k + 1}
        /\ ~(line.is = "header" /\ line.name = "content-length") => L = K
    BY KnownGrows
  <1>4. \A i : i \in 1..(k + 1) <=> i \in 1..k \/ i = k + 1
    OBVIOUS
  <1> DEFINE F(n) == \A i \in 1..n : lines[i].is \in {"header", "unknown"}
             G(S) == \A i \in S : Meant(lines[i]) # {}
  <1>5. F(k + 1) <=> F(k) /\ line.is \in {"header", "unknown"}
    BY <1>4
  <1>6. G(L) <=> G(K) /\ (line.is = "header" /\ line.name = "content-length" => Meant(line) # {})
    <2> HIDE DEF K, L
    <2> QED
      BY <1>3
  <1>7. /\ line.is = "header" => (d <= MaxHeaders <=> c < MaxHeaders)
        /\ line.is # "header" => (d <= MaxHeaders <=> c <= MaxHeaders)
        /\ c < MaxHeaders => c <= MaxHeaders
    <2> HIDE DEF c, d
    <2> QED
      BY <1>1, <1>2
  <1>8. Accepted(lines, k + 1) <=> F(k + 1) /\ d <= MaxHeaders /\ G(L)
    BY DEF Accepted
  <1>9. Accepted(lines, k) <=> F(k) /\ c <= MaxHeaders /\ G(K)
    BY DEF Accepted
  <1> HIDE DEF F, G, c, d, K, L
  <1>10. Accepted(lines, k + 1) <=>
              /\ Accepted(lines, k)
              /\ line.is \in {"header", "unknown"}
              /\ line.is = "header" =>
                    /\ c < MaxHeaders
                    /\ line.name = "content-length" => Meant(line) # {}
    BY <1>5, <1>6, <1>7, <1>8, <1>9
  <1> QED
    BY <1>10 DEF c

LEMMA AfterStep ==
    ASSUME NEW lines \in Seq(Line), NEW k \in Nat, k < Len(lines), NEW r \in Request, After(lines, k, r),
           NEW t, Turns(r, lines[k + 1], t)
    PROVE  After(lines, k + 1, t)
  <1> DEFINE c(n) == Cardinality(AllTo(lines, n))
             K(name, n) == KnownTo(lines, name, n)
             line == lines[k + 1]
             Keeps(n) == K("connection", n) # {} => Kept(lines[Max(K("connection", n))])
             Said(n) == IF K("content-length", n) = {} THEN {0}
                           ELSE Meant(lines[Max(K("content-length", n))])
             Held(n) == IF K("host", n) = {} THEN "none" ELSE HostOf(lines[Max(K("host", n))])
             Is(n, q) == /\ q.count = c(n) /\ q.path = "given" /\ q.host = Held(n) /\ (q.keepalive <=> Keeps(n))
                         /\ q.length \in Said(n)
             Right(n, q) == (q.out = "go" <=> Accepted(lines, n)) /\ (q.out = "go" => Is(n, q))
  <1>1. \A n, q : After(lines, n, q) <=> (AllSure(lines, n) => Right(n, q)) /\ q.count <= MaxHeaders
    BY Zenon DEF After
  <1>2. /\ MaxHeaders \in Nat /\ line.is \in {"header", "unknown", "folded", "plain"}
        /\ r.count \in Nat /\ r.keepalive \in BOOLEAN /\ t.count \in Nat /\ t.keepalive \in BOOLEAN
    <2>1. k + 1 \in 1..Len(lines)
      OBVIOUS
    <2>2. line \in Line
      BY <2>1
    <2>3. line.is \in {"header", "unknown", "folded", "plain"}
      <3> HIDE DEF line
      <3> QED
        BY <2>2 DEF Line
    <2>4. t \in Request
      BY DEF Turns
    <2> QED
      BY <2>3, <2>4, RequestHeadAssumption DEF Request
  <1>3. Accepted(lines, k + 1) <=>
              /\ Accepted(lines, k)
              /\ line.is \in {"header", "unknown"}
              /\ line.is = "header" =>
                    /\ c(k) < MaxHeaders
                    /\ line.name = "content-length" => Meant(line) # {}
    BY AcceptedStep
  <1>4. \A name : /\ line.is = "header" /\ line.name = name =>
                        /\ K(name, k + 1) = K(name, k) \cup {k + 1}
                        /\ K(name, k + 1) # {} /\ Max(K(name, k + 1)) = k + 1
                  /\ ~(line.is = "header" /\ line.name = name) => K(name, k + 1) = K(name, k)
    BY KnownGrows
  <1>5. line.is = "header" => c(k + 1) = c(k) + 1
    BY AllGrows
  <1>6. line.is # "header" => c(k + 1) = c(k)
    BY AllGrows
  <1>7. t.count <= MaxHeaders
    <2>1. r.count <= MaxHeaders
      BY <1>1
    <2>2. t.count = r.count \/ (t.count = r.count + 1 /\ r.count < MaxHeaders)
      <3>1. r.count >= MaxHeaders \/ r.count < MaxHeaders
        BY <1>2
      <3> QED
        BY <1>2, <3>1 DEF Turns, Stores
    <2> QED
      BY <1>2, <2>1, <2>2
  <1>8. SUFFICES ASSUME AllSure(lines, k + 1) PROVE Right(k + 1, t)
    <2> HIDE DEF Right
    <2> QED
      BY <1>1, <1>7
  <1>9. AllSure(lines, k) /\ (line.is = "header" /\ line.name = "content-length" => Sure(line))
    <2> DEFINE L == K("content-length", k)
               M == K("content-length", k + 1)
    <2>1. /\ line.is = "header" /\ line.name = "content-length" => M = L \cup {k + 1}
          /\ ~(line.is = "header" /\ line.name = "content-length") => M = L
      BY <1>4
    <2>2. \A i \in M : Sure(lines[i])
      BY <1>8 DEF AllSure
    <2>3. L \subseteq M /\ (line.is = "header" /\ line.name = "content-length" => k + 1 \in M)
      <3> HIDE DEF L, M
      <3> QED
        BY <2>1
    <2> HIDE DEF M
    <2>4. \A i \in L : Sure(lines[i])
      BY <2>2, <2>3
    <2> QED
      BY <2>2, <2>3, <2>4 DEF AllSure
  <1>10. (r.out = "go" <=> Accepted(lines, k)) /\ (r.out = "go" => Is(k, r))
    BY <1>1, <1>9
  <1>11. line.is # "header" => (Keeps(k + 1) <=> Keeps(k)) /\ Said(k + 1) = Said(k) /\ Held(k + 1) = Held(k)
    <2> HIDE DEF K
    <2> QED
      BY <1>4
  <1>12. line.is = "header" =>
           /\ Keeps(k + 1) <=> IF line.name = "connection" THEN Kept(line) ELSE Keeps(k)
           /\ Said(k + 1) = IF line.name = "content-length" THEN Meant(line) ELSE Said(k)
           /\ Held(k + 1) = IF line.name = "host" THEN HostOf(line) ELSE Held(k)
    <2> HIDE DEF K
    <2> QED
      BY <1>4
  <1> HIDE DEF Keeps, Said, Held, c, K
  <1>13. CASE r.out # "go"
    <2>1. t = r
      BY <1>13 DEF Turns
    <2> QED
      BY <1>3, <1>10, <1>13, <2>1
  <1>14. CASE r.out = "go" /\ line.is \in {"folded", "plain"}
    <2>1. t.out # "go"
      BY <1>14 DEF Turns
    <2>2. ~Accepted(lines, k + 1)
      BY <1>3, <1>14
    <2> QED
      BY <2>1, <2>2
  <1>15. CASE r.out = "go" /\ line.is = "unknown"
    <2>1. t = r
      BY <1>15 DEF Turns
    <2>2. Accepted(lines, k + 1) <=> Accepted(lines, k)
      BY <1>3, <1>15
    <2>3. Is(k + 1, r)
      BY <1>6, <1>10, <1>11, <1>15
    <2> QED
      BY <1>10, <2>1, <2>2, <2>3
  <1>16. CASE r.out = "go" /\ line.is = "header" /\ r.count >= MaxHeaders
    <2>1. t.out # "go"
      BY <1>16 DEF Turns
    <2>2. ~(c(k) < MaxHeaders)
      BY <1>2, <1>10, <1>16
    <2>3. ~Accepted(lines, k + 1)
      BY <1>3, <1>16, <2>2
    <2> QED
      BY <2>1, <2>3
  <1>17. CASE r.out = "go" /\ line.is = "header" /\ r.count < MaxHeaders
    <2>1. /\ t.count = r.count + 1 /\ t.path = r.path
          /\ t.out = "go" <=> line.name # "content-length" \/ Meant(line) # {}
          /\ t.host = IF line.name = "host" THEN HostOf(line) ELSE r.host
          /\ t.keepalive <=> IF line.name = "connection" THEN Kept(line) ELSE r.keepalive
          /\ line.name = "content-length" /\ t.out = "go" => t.length \in Meant(line)
          /\ line.name # "content-length" => t.length = r.length
      <3>1. Stores(r, line, t)
        BY <1>17 DEF Turns
      <3> HIDE DEF line
      <3>2. line.name = "content-length" => Sure(line)
        BY <1>9, <1>17
      <3> QED
        BY <3>1, <3>2 DEF Stores
    <2>2. t.count = c(k + 1) /\ c(k) < MaxHeaders /\ t.path = "given"
      BY <1>2, <1>5, <1>10, <1>17, <2>1
    <2>3. t.out = "go" <=> Accepted(lines, k + 1)
      BY <1>3, <1>10, <1>17, <2>1, <2>2
    <2>4. t.host = Held(k + 1)
      BY <1>10, <1>12, <1>17, <2>1
    <2>5. t.keepalive <=> Keeps(k + 1)
      BY <1>10, <1>12, <1>17, <2>1
    <2>6. t.out = "go" => t.length \in Said(k + 1)
      BY <1>10, <1>12, <1>17, <2>1
    <2> QED
      BY <2>2, <2>3, <2>4, <2>5, <2>6
  <1>18. r.count >= MaxHeaders \/ r.count < MaxHeaders
    BY <1>2
  <1> QED
    BY <1>2, <1>13, <1>14, <1>15, <1>16, <1>17, <1>18

\* After the loop over all the lines.
LEMMA LoopDone ==
    ASSUME NEW lines \in Seq(Line)
    PROVE  /\ FoldLeft(HeaderLine, Fresh, lines) \in Request
           /\ After(lines, Len(lines), FoldLeft(HeaderLine, Fresh, lines))
  <1> DEFINE N == Len(lines)
  <1>1. N \in Nat /\ \A k \in 1..N : lines[k] \in Line
    OBVIOUS
  <1>2. PICK f \in [0..N -> Request] :
              /\ f[0] = Fresh /\ f[N] = FoldLeft(HeaderLine, Fresh, lines)
              /\ \A k \in 1..N : f[k] = HeaderLine(f[k - 1], lines[k])
    BY HeadSteps
  <1> HIDE DEF N
  <1> DEFINE P == {k \in 0..N : After(lines, k, f[k])}
  <1>3. 0 \in P
    <2>1. AllTo(lines, 0) = {} /\ \A name : KnownTo(lines, name, 0) = {}
      BY DEF AllTo, KnownTo
    <2>2. Cardinality(AllTo(lines, 0)) = 0
      BY <2>1, FS_EmptySet
    <2>3. Fresh = [out |-> "go", count |-> 0, host |-> "none", path |-> "given", keepalive |-> TRUE, length |-> 0]
      BY DEF Fresh
    <2>4. After(lines, 0, Fresh)
      BY <2>1, <2>2, <2>3, RequestHeadAssumption DEF After, Accepted
    <2>5. 0 \in 0..N
      BY <1>1
    <2> QED
      BY <1>2, <2>4, <2>5
  <1>4. ASSUME NEW k \in 0..N, k \in P, k < N PROVE k + 1 \in P
    <2>1. k + 1 \in 1..N /\ k + 1 \in 0..N /\ k + 1 - 1 = k /\ k \in Nat
      BY <1>1, <1>4
    <2>2. f[k + 1] = HeaderLine(f[k], lines[k + 1]) /\ f[k] \in Request /\ lines[k + 1] \in Line
      <3>1. f[k] \in Request
        BY <1>2
      <3>2. lines[k + 1] \in Line
        BY <1>1, <2>1
      <3>3. f[k + 1] = HeaderLine(f[k + 1 - 1], lines[k + 1])
        BY <1>2, <2>1
      <3> QED
        BY <2>1, <3>1, <3>2, <3>3
    <2>3. Turns(f[k], lines[k + 1], f[k + 1])
      BY <2>2, HeaderLineIs
    <2>4. After(lines, k, f[k]) /\ k < Len(lines)
      BY <1>4 DEF N
    <2>5. After(lines, k + 1, f[k + 1])
      BY <2>1, <2>2, <2>3, <2>4, AfterStep
    <2> QED
      BY <2>1, <2>5
  <1>5. 0..N \subseteq P
    <2> HIDE DEF P
    <2> QED
      BY <1>1, <1>3, <1>4, Induction
  <1>6. N \in 0..N
    BY <1>1
  <1> QED
    BY <1>2, <1>5, <1>6 DEF N

\* What the version does to a request.
VersionIs(r, a, b, authority, v) ==
    /\ v \in Request /\ v.count = r.count /\ v.length = r.length
    /\ (a = 1 /\ b = 2 /\ authority # "none" => r.host # "wrapped") =>
          /\ v.out = "go" <=> r.out = "go" /\ a = 1 /\ (b = 1 => r.host # "none")
          /\ v.out = "go" => /\ v.keepalive <=> b \in {1, 2} /\ r.keepalive
                             /\ v.path = IF b = 2 /\ authority = "bare" THEN "null" ELSE r.path

LEMMA VersionDone ==
    ASSUME NEW r \in Request, NEW a \in Nat, NEW b \in Nat, NEW authority \in {"none", "path", "bare"}
    PROVE  VersionIs(r, a, b, authority, Version(r, <<a, b>>, authority))
  <1> DEFINE v == Version(r, <<a, b>>, authority)
             u == Authority(r, authority)
  <1>1. v = IF r.out # "go" THEN r
            ELSE CASE <<a, b>>[1] # 1 -> [r EXCEPT !.out = "400"]
                   [] <<a, b>> = <<1, 1>> -> [r EXCEPT !.out = IF r.host = "none" THEN "400" ELSE @]
                   [] <<a, b>> = <<1, 2>> -> u
                   [] OTHER -> [r EXCEPT !.keepalive = FALSE]
    BY Zenon DEF Version
  <1>2. /\ <<a, b>>[1] = a
        /\ <<a, b>> = <<1, 1>> <=> a = 1 /\ b = 1
        /\ <<a, b>> = <<1, 2>> <=> a = 1 /\ b = 2
    OBVIOUS
  <1>3. u = CASE authority = "none" -> r
              [] authority # "none" /\ r.host = "wrapped" -> [r EXCEPT !.out = "undefined"]
              [] authority # "none" /\ r.host # "wrapped" ->
                    [r EXCEPT !.host = "authority", !.path = IF authority = "bare" THEN "null" ELSE @]
    BY Zenon DEF Authority
  <1> HIDE DEF v, u
  <1>4. CASE r.out # "go"
    <2>1. v = r
      BY <1>1, <1>4
    <2> QED
      BY <1>4, <2>1 DEF VersionIs, v
  <1>5. CASE r.out = "go" /\ a # 1
    <2>1. v = [r EXCEPT !.out = "400"]
      BY <1>1, <1>2, <1>5
    <2>2. v \in Request /\ v.count = r.count /\ v.length = r.length /\ v.out = "400"
      BY <2>1 DEF Request
    <2> QED
      BY <1>5, <2>2 DEF VersionIs, v
  <1>6. CASE r.out = "go" /\ a = 1 /\ b = 1
    <2>1. PICK o \in {"go", "400"} : o = IF r.host = "none" THEN "400" ELSE r.out
      BY <1>6
    <2>2. v = [r EXCEPT !.out = o]
      BY <1>1, <1>2, <1>6, <2>1 DEF Request
    <2>3. /\ v \in Request /\ v.count = r.count /\ v.length = r.length /\ v.out = o
          /\ v.keepalive = r.keepalive /\ v.path = r.path
      BY <2>2 DEF Request
    <2>4. o = "go" <=> r.host # "none"
      BY <1>6, <2>1
    <2> QED
      BY <1>6, <2>3, <2>4 DEF VersionIs, v
  <1>7. CASE r.out = "go" /\ a = 1 /\ b = 2
    <2>1. v = u
      BY <1>1, <1>2, <1>7
    <2>2. CASE authority = "none"
      <3>1. v = r
        BY <1>3, <2>1, <2>2
      <3> QED
        BY <1>7, <2>2, <3>1 DEF VersionIs, v
    <2>3. CASE authority # "none" /\ r.host = "wrapped"
      <3>1. v = [r EXCEPT !.out = "undefined"]
        BY <1>3, <2>1, <2>3
      <3>2. v \in Request /\ v.count = r.count /\ v.length = r.length
        BY <3>1 DEF Request
      <3> QED
        BY <1>7, <2>3, <3>2 DEF VersionIs, v
    <2>4. CASE authority # "none" /\ r.host # "wrapped"
      <3>1. PICK p \in {"given", "null"} : p = IF authority = "bare" THEN "null" ELSE r.path
        BY DEF Request
      <3>2. v = [r EXCEPT !.host = "authority", !.path = p]
        BY <1>3, <2>1, <2>4, <3>1 DEF Request
      <3>3. /\ v \in Request /\ v.count = r.count /\ v.length = r.length /\ v.out = r.out
            /\ v.keepalive = r.keepalive /\ v.path = p
        BY <3>2 DEF Request
      <3> QED
        BY <1>7, <3>1, <3>3 DEF VersionIs, v
    <2> QED
      BY <2>2, <2>3, <2>4
  <1>8. CASE r.out = "go" /\ a = 1 /\ b \notin {1, 2}
    <2>1. v = [r EXCEPT !.keepalive = FALSE]
      BY <1>1, <1>2, <1>8
    <2>2. /\ v \in Request /\ v.count = r.count /\ v.length = r.length /\ v.out = r.out
          /\ v.keepalive = FALSE /\ v.path = r.path
      BY <2>1 DEF Request
    <2> QED
      BY <1>8, <2>2 DEF VersionIs, v
  <1> QED
    BY <1>4, <1>5, <1>6, <1>7, <1>8

\* The parsing of a head accepts the right ones and settles what follows from the
\* values as they are cut out of the lines, for every head, every version and every
\* number of headers, as long as C defines what happens.
THEOREM HeadsRead ==
    \A lines \in Seq(Line), version \in Nat \X Nat, authority \in {"none", "path", "bare"} :
       ReadsHead(lines, version, authority)
  <1> TAKE lines \in Seq(Line), version \in Nat \X Nat, authority \in {"none", "path", "bare"}
  <1> DEFINE N == Len(lines)
             r == FoldLeft(HeaderLine, Fresh, lines)
             v == Version(r, version, authority)
             req == ProcessHead(lines, version, authority)
             lengths == Known(lines, "content-length")
             hosts == Known(lines, "host")
  <1>1. r \in Request /\ After(lines, N, r)
    BY LoopDone
  <1>2. req = [v EXCEPT !.length = @ % Size]
    BY Zenon DEF ProcessHead
  <1>3. PICK a \in Nat, b \in Nat : version = <<a, b>> /\ version[1] = a /\ version[2] = b
    OBVIOUS
  <1> HIDE DEF r
  <1>4. VersionIs(r, a, b, authority, v)
    BY <1>1, <1>3, VersionDone
  <1> HIDE DEF v, req
  <1>5. /\ req.out = v.out /\ req.count = v.count /\ req.keepalive = v.keepalive /\ req.path = v.path
        /\ req.length = r.length % Size
    BY <1>2, <1>4 DEF Request, VersionIs
  <1>6. req.count <= MaxHeaders
    BY <1>1, <1>4, <1>5 DEF After, VersionIs
  <1>7. DOMAIN lines = 1..N
    OBVIOUS
  <1> HIDE DEF N
  <1>8. AllKnown(lines) = AllTo(lines, N) /\ \A name : Known(lines, name) = KnownTo(lines, name, N)
    BY <1>7, Zenon DEF AllKnown, Known, AllTo, KnownTo
  <1>9. ASSUME Definite(lines, version, authority)
        PROVE  /\ req.out = "go" <=>
                    /\ \A i \in DOMAIN lines : lines[i].is \in {"header", "unknown"}
                    /\ Cardinality(AllKnown(lines)) <= MaxHeaders
                    /\ \A i \in lengths : Numerals(Value(lines[i])) # {}
                    /\ version[1] = 1 /\ (version[2] = 1 => hosts # {})
               /\ req.out = "go" =>
                    /\ req.count = Cardinality(AllKnown(lines))
                    /\ req.keepalive <=>
                          /\ version[2] \in {1, 2}
                          /\ Known(lines, "connection") # {} =>
                                KeepAlive \in ToSet(LastValue(lines, "connection"))
                    /\ req.length \in IF lengths = {} THEN {0}
                                      ELSE {Meaning(n) % Size : n \in Numerals(LastValue(lines, "content-length"))}
                    /\ req.path = "null" <=> version[2] = 2 /\ authority = "bare"
    <2>1. AllSure(lines, N)
      BY <1>8, <1>9, Zenon DEF Definite, AllSure, Sure
    <2>2. a = 1 /\ b = 2 /\ authority # "none" /\ hosts # {} => lines[Max(hosts)].text # <<>>
      BY <1>3, <1>9 DEF Definite
    <2> DEFINE K(name) == KnownTo(lines, name, N)
    <2>3. r.out = "go" <=> Accepted(lines, N)
      BY <1>1, <2>1 DEF After
    <2>4. r.out = "go" =>
             /\ r.count = Cardinality(AllTo(lines, N)) /\ r.path = "given"
             /\ r.host = IF hosts = {} THEN "none" ELSE HostOf(lines[Max(hosts)])
             /\ r.keepalive <=> (Known(lines, "connection") # {} => Kept(lines[Max(Known(lines, "connection"))]))
             /\ r.length \in IF lengths = {} THEN {0} ELSE Meant(lines[Max(lengths)])
      BY <1>1, <1>8, <2>1 DEF After
    <2>5. Accepted(lines, N) <=> /\ \A i \in DOMAIN lines : lines[i].is \in {"header", "unknown"}
                                 /\ Cardinality(AllKnown(lines)) <= MaxHeaders
                                 /\ \A i \in lengths : Numerals(Value(lines[i])) # {}
      <3>1. \A i : Meant(lines[i]) # {} <=> Numerals(Value(lines[i])) # {}
        BY DEF Meant
      <3> QED
        BY <1>7, <1>8, <3>1, Zenon DEF Accepted
    <2> HIDE DEF lengths, hosts
    <2>6. r.out = "go" => /\ r.host # "none" <=> hosts # {}
                          /\ a = 1 /\ b = 2 /\ authority # "none" => r.host # "wrapped"
      <3>1. \A i : HostOf(lines[i]) # "none" /\ (lines[i].text # <<>> => HostOf(lines[i]) # "wrapped")
        BY DEF HostOf
      <3> QED
        BY <2>2, <2>4, <3>1
    <2>7. r.out # "go" => v.out # "go"
      <3>1. CASE a = 1 /\ b = 2 /\ authority # "none" /\ r.host = "wrapped"
        BY <3>1, <1>3 DEF v, Version
      <3>2. CASE ~(a = 1 /\ b = 2 /\ authority # "none" /\ r.host = "wrapped")
        BY <3>2, <1>4 DEF VersionIs
      <3> QED
        BY <3>1, <3>2
    <2>8. v.out = "go" <=> r.out = "go" /\ a = 1 /\ (b = 1 => hosts # {})
      BY <1>4, <2>6, <2>7 DEF VersionIs
    <2>9. v.out = "go" => /\ v.keepalive <=> b \in {1, 2} /\ r.keepalive
                          /\ v.path = IF b = 2 /\ authority = "bare" THEN "null" ELSE r.path
      BY <1>4, <2>6, <2>7 DEF VersionIs
    <2>10. req.out = "go" <=>
                    /\ \A i \in DOMAIN lines : lines[i].is \in {"header", "unknown"}
                    /\ Cardinality(AllKnown(lines)) <= MaxHeaders
                    /\ \A i \in lengths : Numerals(Value(lines[i])) # {}
                    /\ version[1] = 1 /\ (version[2] = 1 => hosts # {})
      BY <1>3, <1>5, <2>3, <2>5, <2>8
    <2>11. ASSUME req.out = "go"
           PROVE  /\ req.count = Cardinality(AllKnown(lines))
                  /\ req.keepalive <=>
                        /\ version[2] \in {1, 2}
                        /\ Known(lines, "connection") # {} => KeepAlive \in ToSet(LastValue(lines, "connection"))
                  /\ req.length \in IF lengths = {} THEN {0}
                                    ELSE {Meaning(n) % Size : n \in Numerals(LastValue(lines, "content-length"))}
                  /\ req.path = "null" <=> version[2] = 2 /\ authority = "bare"
      <3>1. v.out = "go" /\ r.out = "go"
        BY <1>5, <2>8, <2>11
      <3>2. req.count = Cardinality(AllKnown(lines))
        BY <1>4, <1>5, <1>8, <2>4, <3>1 DEF VersionIs
      <3>3. r.keepalive <=> (Known(lines, "connection") # {} => KeepAlive \in ToSet(LastValue(lines, "connection")))
        BY <2>4, <3>1 DEF Kept, LastValue
      <3>4. req.keepalive <=> b \in {1, 2} /\ r.keepalive
        BY <1>5, <2>9, <3>1
      <3>5. req.path = "null" <=> b = 2 /\ authority = "bare"
        BY <1>5, <2>4, <2>9, <3>1
      <3>6. req.length \in IF lengths = {} THEN {0}
                           ELSE {Meaning(n) % Size : n \in Numerals(LastValue(lines, "content-length"))}
        <4>1. CASE lengths = {}
          <5>1. 0 % Size = 0
            BY RequestHeadAssumption
          <5>2. r.length = 0
            BY <2>4, <3>1, <4>1
          <5> QED
            BY <1>5, <4>1, <5>1, <5>2
        <4>2. CASE lengths # {}
          <5>1. r.length \in Meant(lines[Max(lengths)])
            BY <2>4, <3>1, <4>2
          <5>2. PICK n \in Numerals(LastValue(lines, "content-length")) : r.length = Meaning(n)
            BY <5>1 DEF Meant, LastValue, lengths
          <5>3. req.length = Meaning(n) % Size
            BY <1>5, <5>2
          <5> QED
            BY <4>2, <5>3
        <4> QED
          BY <4>1, <4>2
      <3> QED
        BY <1>3, <3>2, <3>3, <3>4, <3>5, <3>6
    <2> QED
      BY <2>10, <2>11
  <1> QED
    BY <1>6, <1>9, Zenon DEF ReadsHead, req, lengths, hosts

\* Whatever head the run is given, its parsing is right.
THEOREM HeadsParsed == Spec => []HeadCorrect
  <1>1. TextInv => HeadCorrect
    <2> SUFFICES ASSUME TextInv, kind = "head", NEW version \in {<<1, 0>>, <<1, 1>>, <<1, 2>>, <<1, 3>>, <<2, 0>>},
                        NEW authority \in {"none", "path", "bare"}
                 PROVE  ReadsHead(input, version, authority)
      BY DEF HeadCorrect
    <2>1. HeaderLines \subseteq Line
      <3> DEFINE Of(is, names, texts, ends) == [is : is, name : names, text : texts, behind : ends]
                 connections == {<<32, 107>>, <<107>>, <<32, 99>>}
                 values == {<<32, 53>>, <<32, 45, 49>>, <<32, 48, 120, 102>>, <<32, 53, 122>>, <<32, 53, 32>>,
                            <<32, 57, 57, 57>>, <<32, 57, 57, 57, 57>>, <<52, 50>>, <<53>>}
      <3>1. \A is \in SUBSET {"header", "unknown", "folded", "plain"}, names \in SUBSET HeaderNames,
               texts \in SUBSET Seq(Nat), ends \in SUBSET Seq(Nat) : Of(is, names, texts, ends) \subseteq Line
        BY DEF Line
      <3>2. {<<>>} \in SUBSET Seq(Nat) /\ {<<32>>, <<>>} \in SUBSET Seq(Nat) /\ {<<55>>, <<10>>} \in SUBSET Seq(Nat)
        <4>1. <<>> \in Seq(Nat) /\ <<32>> \in Seq(Nat) /\ <<55>> \in Seq(Nat) /\ <<10>> \in Seq(Nat)
          OBVIOUS
        <4> QED
          BY <4>1, Zenon
      <3>3. connections \in SUBSET Seq(Nat)
        <4>1. <<32, 107>> \in Seq(Nat) /\ <<107>> \in Seq(Nat) /\ <<32, 99>> \in Seq(Nat)
          OBVIOUS
        <4> QED
          BY <4>1, Zenon
      <3>4. values \in SUBSET Seq(Nat)
        <4>1. <<32, 53>> \in Seq(Nat) /\ <<32, 45, 49>> \in Seq(Nat) /\ <<32, 48, 120, 102>> \in Seq(Nat)
          OBVIOUS
        <4>2. <<32, 53, 122>> \in Seq(Nat) /\ <<32, 53, 32>> \in Seq(Nat) /\ <<32, 57, 57, 57>> \in Seq(Nat)
          OBVIOUS
        <4>3. <<32, 57, 57, 57, 57>> \in Seq(Nat) /\ <<52, 50>> \in Seq(Nat) /\ <<53>> \in Seq(Nat)
          OBVIOUS
        <4> QED
          BY <4>1, <4>2, <4>3, ZenonT(30)
      <3>5. HeaderLines =
                Of({"header"}, {"host", "other"}, {<<32>>, <<>>}, {<<>>}) \cup Of({"header"}, {"connection"}, connections, {<<>>})
                \cup Of({"header"}, {"content-length"}, values, {<<>>})
                \cup Of({"header"}, {"content-length"}, {<<>>}, {<<55>>, <<10>>})
                \cup Of({"unknown", "folded", "plain"}, {"none"}, {<<>>}, {<<>>})
        BY Zenon DEF HeaderLines
      <3> HIDE DEF Of, connections, values
      <3>6. /\ {"header"} \in SUBSET {"header", "unknown", "folded", "plain"}
            /\ {"unknown", "folded", "plain"} \in SUBSET {"header", "unknown", "folded", "plain"}
            /\ {"host", "other"} \in SUBSET HeaderNames /\ {"connection"} \in SUBSET HeaderNames
            /\ {"content-length"} \in SUBSET HeaderNames /\ {"none"} \in SUBSET HeaderNames
        BY DEF HeaderNames
      <3>7. Of({"header"}, {"host", "other"}, {<<32>>, <<>>}, {<<>>}) \subseteq Line
        BY <3>1, <3>2, <3>6, Zenon
      <3>8. Of({"header"}, {"connection"}, connections, {<<>>}) \subseteq Line
        BY <3>1, <3>2, <3>3, <3>6, Zenon
      <3>9. Of({"header"}, {"content-length"}, values, {<<>>}) \subseteq Line
        BY <3>1, <3>2, <3>4, <3>6, Zenon
      <3>10. Of({"header"}, {"content-length"}, {<<>>}, {<<55>>, <<10>>}) \subseteq Line
        BY <3>1, <3>2, <3>6, Zenon
      <3>11. Of({"unknown", "folded", "plain"}, {"none"}, {<<>>}, {<<>>}) \subseteq Line
        BY <3>1, <3>2, <3>6, Zenon
      <3> QED
        BY <3>5, <3>7, <3>8, <3>9, <3>10, <3>11, Zenon
    <2>2. Parts["head"] = HeaderLines /\ HeaderLines \subseteq Line
      BY <2>1 DEF Parts
    <2>3. input \in Seq(Line)
      BY <2>2, SeqMonotonic DEF TextInv
    <2>4. version \in Nat \X Nat
      OBVIOUS
    <2> QED
      BY <2>3, <2>4, HeadsRead
  <1> QED
    BY <1>1, TextInvInductive, PTL

-----------------------------------------------------------------------------
\* A piece of a text.
LEMMA Piece ==
    ASSUME NEW T, NEW s \in Seq(T), NEW a \in Int, NEW b \in Int, 1 <= a, b <= Len(s), a <= b + 1
    PROVE  /\ SubSeq(s, a, b) \in Seq(T)
           /\ Len(SubSeq(s, a, b)) = b - a + 1
           /\ \A i \in 1..(b - a + 1) : SubSeq(s, a, b)[i] = s[a + i - 1]
  <1>1. Len(s) \in Nat
    OBVIOUS
  <1>2. \A i \in a..b : s[i] \in T
    BY <1>1
  <1> QED
    BY <1>1, <1>2, SubSeqProperties

\* The first n characters.
LEMMA FirstPiece ==
    ASSUME NEW T, NEW s \in Seq(T), NEW n \in Nat, n <= Len(s)
    PROVE  /\ SubSeq(s, 1, n) \in Seq(T) /\ Len(SubSeq(s, 1, n)) = n
           /\ \A i \in 1..n : SubSeq(s, 1, n)[i] = s[i]
  <1>1. PICK a \in Int, b \in Int : a = 1 /\ b = n
    OBVIOUS
  <1>2. 1 <= a /\ b <= Len(s) /\ a <= b + 1
    BY <1>1
  <1>3. PICK p : p = SubSeq(s, a, b)
    OBVIOUS
  <1>4. p \in Seq(T) /\ Len(p) = b - a + 1 /\ \A i \in 1..(b - a + 1) : p[i] = s[a + i - 1]
    BY <1>2, <1>3, Piece
  <1>5. b - a + 1 = n /\ \A i \in 1..n : a + i - 1 = i
    BY <1>1
  <1>6. p \in Seq(T) /\ Len(p) = n /\ \A i \in 1..n : p[i] = s[i]
    BY <1>4, <1>5, Zenon
  <1> QED
    BY <1>1, <1>3, <1>6, Zenon

\* A piece of a piece.
LEMMA PieceOfPiece ==
    ASSUME NEW T, NEW s \in Seq(T), NEW a \in Int, NEW b \in Int, 1 <= a, b <= Len(s), a <= b + 1,
           NEW c \in Int, NEW d \in Int, 1 <= c, d <= b - a + 1, c <= d + 1
    PROVE  SubSeq(SubSeq(s, a, b), c, d) = SubSeq(s, a + c - 1, a + d - 1)
  <1> DEFINE t == SubSeq(s, a, b)
             x == SubSeq(t, c, d)
             y == SubSeq(s, a + c - 1, a + d - 1)
             m == a + c - 1
             n == a + d - 1
  <1>1. Len(s) \in Nat
    OBVIOUS
  <1>2. t \in Seq(T) /\ Len(t) = b - a + 1 /\ \A i \in 1..(b - a + 1) : t[i] = s[a + i - 1]
    BY Piece
  <1> HIDE DEF t
  <1>3. x \in Seq(T) /\ Len(x) = d - c + 1 /\ \A i \in 1..(d - c + 1) : x[i] = t[c + i - 1]
    <2>1. d <= Len(t)
      BY <1>2
    <2> QED
      BY <1>2, <2>1, Piece
  <1>4. m \in Int /\ n \in Int /\ 1 <= m /\ n <= Len(s) /\ m <= n + 1 /\ n - m + 1 = d - c + 1
    BY <1>1
  <1>5. y = SubSeq(s, m, n)
    OBVIOUS
  <1> HIDE DEF y
  <1>6. y \in Seq(T) /\ Len(y) = n - m + 1 /\ \A i \in 1..(n - m + 1) : y[i] = s[m + i - 1]
    <2> HIDE DEF m, n
    <2> QED
      BY <1>4, <1>5, Piece
  <1> HIDE DEF x
  <1>7. Len(x) = Len(y)
    BY <1>3, <1>4, <1>6
  <1>8. ASSUME NEW i \in 1..Len(x) PROVE x[i] = y[i]
    <2>1. i \in 1..(d - c + 1) /\ i \in 1..(n - m + 1)
      BY <1>3, <1>4
    <2>2. c + i - 1 \in 1..(b - a + 1) /\ a + (c + i - 1) - 1 = m + i - 1
      BY <2>1
    <2>3. x[i] = t[c + i - 1] /\ t[c + i - 1] = s[a + (c + i - 1) - 1]
      BY <1>2, <1>3, <2>1, <2>2
    <2>4. y[i] = s[m + i - 1]
      BY <1>6, <2>1
    <2> HIDE DEF m
    <2> QED
      BY <2>2, <2>3, <2>4
  <1>9. x = y
    BY <1>3, <1>6, <1>7, <1>8, SeqEqual
  <1> QED
    BY <1>9 DEF x, y, t

\* The first and the last character that is not in a set.
LEMMA FirstNotIs ==
    ASSUME NEW s \in Seq(Nat), NEW chars
    PROVE  /\ FirstNot(s, chars) \in 1..(Len(s) + 1)
           /\ \A i \in 1..(FirstNot(s, chars) - 1) : s[i] \in chars
           /\ FirstNot(s, chars) <= Len(s) => s[FirstNot(s, chars)] \notin chars
  <1> DEFINE S == {i \in DOMAIN s : s[i] \notin chars} \cup {Len(s) + 1}
  <1>1. FirstNot(s, chars) = Min(S)
    BY DEF FirstNot
  <1>2. S \in SUBSET Nat /\ S # {} /\ Len(s) \in Nat /\ Len(s) + 1 \in S
    OBVIOUS
  <1>3. \A i \in S : i \in 1..(Len(s) + 1) /\ (i <= Len(s) => s[i] \notin chars)
    OBVIOUS
  <1>4. \A i \in 1..Len(s) : s[i] \notin chars => i \in S
    OBVIOUS
  <1> HIDE DEF S
  <1>5. Min(S) \in S /\ \A y \in S : Min(S) <= y
    BY <1>2, Least
  <1>6. Min(S) \in 1..(Len(s) + 1)
    BY <1>3, <1>5
  <1>7. ASSUME NEW i \in 1..(Min(S) - 1) PROVE s[i] \in chars
    <2>1. i \in 1..Len(s) /\ ~(Min(S) <= i)
      BY <1>2, <1>6
    <2> QED
      BY <1>4, <1>5, <2>1
  <1> QED
    BY <1>1, <1>3, <1>5, <1>6, <1>7

LEMMA LastNotIs ==
    ASSUME NEW s \in Seq(Nat), NEW chars
    PROVE  /\ LastNot(s, chars) \in 0..Len(s)
           /\ \A i \in (LastNot(s, chars) + 1)..Len(s) : s[i] \in chars
           /\ LastNot(s, chars) > 0 => s[LastNot(s, chars)] \notin chars
  <1> DEFINE S == {i \in DOMAIN s : s[i] \notin chars} \cup {0}
  <1>1. LastNot(s, chars) = Max(S)
    BY DEF LastNot
  <1>2. S \in SUBSET (0..Len(s)) /\ S # {} /\ Len(s) \in Nat
    OBVIOUS
  <1>3. \A i \in S : i > 0 => s[i] \notin chars
    OBVIOUS
  <1>4. \A i \in 1..Len(s) : s[i] \notin chars => i \in S
    OBVIOUS
  <1> HIDE DEF S
  <1>5. Max(S) \in S /\ \A y \in S : y <= Max(S)
    BY <1>2, Greatest
  <1>6. Max(S) \in 0..Len(s)
    BY <1>2, <1>5
  <1>7. ASSUME NEW i \in (Max(S) + 1)..Len(s) PROVE s[i] \in chars
    <2>1. i \in 1..Len(s) /\ ~(i <= Max(S))
      BY <1>2, <1>6
    <2> QED
      BY <1>4, <1>5, <2>1
  <1> QED
    BY <1>1, <1>3, <1>5, <1>6, <1>7

\* Where parse_line is in a line: the comment starts at h, the code at f, the
\* character behind it is at e, and the reason ends at l.
Found(line, h, f, e, l) ==
    /\ h \in 1..(Len(line) + 1) /\ f \in 1..h /\ e \in f..h
    /\ \A i \in 1..(h - 1) : line[i] # Hash
    /\ h <= Len(line) => line[h] = Hash
    /\ \A i \in 1..(f - 1) : line[i] \in White
    /\ f < h => line[f] \notin White
    /\ \A i \in f..(e - 1) : line[i] \in DecimalDigit
    /\ e < h => /\ line[e] \notin DecimalDigit
                /\ l \in e..(h - 1)
                /\ \A i \in (l + 1)..(h - 1) : line[i] \in White
                /\ l > e => line[l] \notin White

\* The statement that starts at f and so on, and what parse_line makes of it.
Statement(line, f, e, l) ==
    [number |-> [sign |-> 1, base |-> 10, digits |-> SubSeq(line, f, e - 1)], reason |-> SubSeq(line, e + 1, l)]
Taken(line, f, e, l) ==
    [code |-> ToInteger(SubSeq(line, f, e - 1)).value % Width, reason |-> SubSeq(line, e + 1, l)]

\* A text of decimal digits is read as their value, if that fits.
LEMMA DecimalRead ==
    ASSUME NEW s \in Seq(Nat), s # <<>>, \A i \in DOMAIN s : s[i] \in DecimalDigit,
           Horner(s, 10) <= Exact, Power(10, Len(s) - 1) <= Largest
    PROVE  ToInteger(s).value = Horner(s, 10)
  <1>1. Len(s) \in Nat /\ Len(s) > 0 /\ DOMAIN s = 1..Len(s)
    OBVIOUS
  <1>2. \A x \in DecimalDigit : x \notin {Dash, Plus, LetterX, LetterB} /\ CharToNumber(x) \in 0..9
    <2> TAKE x \in DecimalDigit
    <2>1. x \in Nat /\ x >= 48 /\ x <= 57
      BY DEF DecimalDigit
    <2>2. x \notin {Dash, Plus, LetterX, LetterB}
      BY <2>1 DEF Dash, Plus, LetterX, LetterB
    <2>3. x \notin Lower /\ x \notin Upper
      BY <2>1 DEF Lower, Upper
    <2>4. CharToNumber(x) = x - 48
      BY <2>3, Zenon DEF CharToNumber
    <2> QED
      BY <2>1, <2>2, <2>4
  <1>3. SignLen(s) = 0 /\ SignOf(s) = 1
    BY <1>1, <1>2, NotDecimal DEF SignLen, SignOf
  <1>4. ~Denoted(s, LetterX) /\ ~Denoted(s, LetterB)
    <2>1. Len(s) >= 2 => s[2] \in DecimalDigit
      BY <1>1
    <2> QED
      BY <1>2, <1>3, <2>1 DEF Denoted
  <1>5. BaseOf(s) = 10
    BY <1>4 DEF BaseOf
  <1>6. Start(s) = 1
    BY <1>3, <1>5 DEF Start
  <1>7. DigitsOf(s) = s
    BY <1>6, SubSeqFull DEF DigitsOf
  <1>8. AllDigits(s, 10)
    BY <1>1, <1>2 DEF AllDigits
  <1>9. DigitsValue(s, 10) = Gives(Horner(s, 10))
    <2>1. 10 \in Nat \ {0}
      OBVIOUS
    <2> QED
      BY <1>8, <2>1, DigitsValueIs
  <1>10. ToInteger(s) = DigitsValue(s, 10)
    <2>1. ~(Start(s) > Len(s)) /\ SignOf(s) # -1
      BY <1>1, <1>3, <1>6
    <2> QED
      BY <1>5, <1>7, <2>1, ToIntegerIs
  <1> QED
    BY <1>9, <1>10 DEF Gives

\* parse_line finds these places and takes the statement, if it has a code and a
\* reason of two characters at least.
LEMMA LineParsed ==
    ASSUME NEW line \in Seq(Nat)
    PROVE  \E h, f, e, l : /\ Found(line, h, f, e, l)
                           /\ ParseLine(line) = IF e = f \/ e = h \/ l <= e + 1 THEN {}
                                                ELSE {Taken(line, f, e, l)}
  <1> DEFINE H == {i \in DOMAIN line : line[i] = Hash} \cup {Len(line) + 1}
             h == Min(H)
             text == Uncommented(line)
             f == FirstNot(text, White)
             rest == SubSeq(text, f, Len(text))
             d == FirstNot(rest, DecimalDigit) - 1
             reason == SubSeq(rest, d + 2, Len(rest))
             last == LastNot(reason, White)
             e == f + d
             l == e + last
  <1>1. ParseLine(line) = IF d = 0 \/ d = Len(rest) \/ last <= 1 THEN {}
                          ELSE {[code |-> ToInteger(SubSeq(rest, 1, d)).value % Width, reason |-> SubSeq(reason, 1, last)]}
    BY Zenon DEF ParseLine
  <1>2. /\ h \in 1..(Len(line) + 1) /\ Len(line) \in Nat
        /\ \A i \in 1..(h - 1) : line[i] # Hash
        /\ h <= Len(line) => line[h] = Hash
    <2>1. H \in SUBSET Nat /\ H # {} /\ Len(line) \in Nat
      OBVIOUS
    <2>2. \A i \in H : i \in 1..(Len(line) + 1) /\ (i <= Len(line) => line[i] = Hash)
      OBVIOUS
    <2>3. \A i \in 1..Len(line) : line[i] = Hash => i \in H
      OBVIOUS
    <2> HIDE DEF H
    <2>4. Min(H) \in H /\ \A y \in H : Min(H) <= y
      BY <2>1, Least
    <2>5. Min(H) \in 1..(Len(line) + 1)
      BY <2>2, <2>4
    <2>6. ASSUME NEW i \in 1..(Min(H) - 1) PROVE line[i] # Hash
      <3>1. i \in 1..Len(line) /\ ~(Min(H) <= i)
        BY <2>1, <2>5
      <3> QED
        BY <2>3, <2>4, <3>1
    <2> QED
      BY <2>1, <2>2, <2>4, <2>5, <2>6
  <1>3. text = SubSeq(line, 1, h - 1)
    BY DEF Uncommented
  <1> HIDE DEF h, text
  <1>4. text \in Seq(Nat) /\ Len(text) = h - 1 /\ \A i \in 1..(h - 1) : text[i] = line[i]
    <2>1. /\ SubSeq(line, 1, h - 1) \in Seq(Nat) /\ Len(SubSeq(line, 1, h - 1)) = h - 1 - 1 + 1
          /\ \A i \in 1..(h - 1 - 1 + 1) : SubSeq(line, 1, h - 1)[i] = line[1 + i - 1]
      <3>1. 1 \in Int /\ h - 1 \in Int /\ 1 <= 1 /\ h - 1 <= Len(line) /\ 1 <= h - 1 + 1
        BY <1>2
      <3> QED
        BY <3>1, Piece
    <2>2. h - 1 - 1 + 1 = h - 1 /\ \A i \in 1..(h - 1) : 1 + i - 1 = i
      BY <1>2
    <2> QED
      BY <1>3, <2>1, <2>2
  <1>5. /\ f \in 1..h /\ \A i \in 1..(f - 1) : line[i] \in White
        /\ f < h => line[f] \notin White
    <2>1. /\ f \in 1..(Len(text) + 1) /\ (\A i \in 1..(f - 1) : text[i] \in White)
          /\ f <= Len(text) => text[f] \notin White
      BY <1>4, FirstNotIs
    <2> HIDE DEF f
    <2>2. f \in 1..h
      BY <1>2, <1>4, <2>1
    <2>3. \A i \in 1..(f - 1) : i \in 1..(h - 1)
      BY <1>2, <2>2
    <2>4. f < h => f \in 1..(h - 1) /\ f <= Len(text)
      BY <1>2, <1>4, <2>2
    <2> QED
      BY <1>4, <2>1, <2>2, <2>3, <2>4
  <1> HIDE DEF f
  <1>6. /\ rest = SubSeq(line, f, h - 1) /\ rest \in Seq(Nat) /\ Len(rest) = h - f
        /\ \A i \in 1..(h - f) : rest[i] = line[f + i - 1]
    <2>1. rest = SubSeq(line, f, h - 1)
      <3>1. /\ 1 \in Int /\ h - 1 \in Int /\ 1 <= 1 /\ h - 1 <= Len(line) /\ 1 <= h - 1 + 1
            /\ f \in Int /\ Len(text) \in Int /\ 1 <= f /\ Len(text) <= h - 1 - 1 + 1 /\ f <= Len(text) + 1
            /\ 1 + f - 1 = f /\ 1 + Len(text) - 1 = h - 1
        BY <1>2, <1>4, <1>5
      <3>2. SubSeq(SubSeq(line, 1, h - 1), f, Len(text)) = SubSeq(line, 1 + f - 1, 1 + Len(text) - 1)
        BY <3>1, PieceOfPiece
      <3> QED
        BY <1>3, <3>1, <3>2
    <2>2. f \in Int /\ h - 1 \in Int /\ 1 <= f /\ h - 1 <= Len(line) /\ f <= h - 1 + 1 /\ h - 1 - f + 1 = h - f
      BY <1>2, <1>5
    <2> HIDE DEF rest
    <2>3. PICK b \in Int : b = h - 1
      BY <2>2
    <2>4. 1 <= f /\ b <= Len(line) /\ f <= b + 1 /\ b - f + 1 = h - f
      BY <2>2, <2>3
    <2>5. /\ SubSeq(line, f, b) \in Seq(Nat) /\ Len(SubSeq(line, f, b)) = b - f + 1
          /\ \A i \in 1..(b - f + 1) : SubSeq(line, f, b)[i] = line[f + i - 1]
      BY <2>2, <2>4, Piece, SMTT(20)
    <2> QED
      BY <2>1, <2>3, <2>4, <2>5
  <1> HIDE DEF rest
  <1>7. /\ d \in 0..(h - f) /\ \A i \in f..(e - 1) : line[i] \in DecimalDigit
        /\ d < h - f => line[e] \notin DecimalDigit
    <2>1. PICK n : n = FirstNot(rest, DecimalDigit)
      OBVIOUS
    <2>2. /\ n \in 1..(Len(rest) + 1) /\ (\A i \in 1..(n - 1) : rest[i] \in DecimalDigit)
          /\ n <= Len(rest) => rest[n] \notin DecimalDigit
      BY <1>6, <2>1, FirstNotIs
    <2>3. d \in 0..(h - f) /\ d \in Int /\ d = n - 1 /\ n = d + 1 /\ n - 1 = d
      BY <1>2, <1>5, <1>6, <2>1, <2>2, SMTT(20)
    <2> HIDE DEF d
    <2>4. ASSUME NEW i \in f..(e - 1) PROVE line[i] \in DecimalDigit
      <3>1. i - f + 1 \in 1..(n - 1) /\ i - f + 1 \in 1..(h - f) /\ f + (i - f + 1) - 1 = i
        BY <1>2, <1>5, <2>3
      <3>2. rest[i - f + 1] = line[f + (i - f + 1) - 1]
        BY <1>6, <3>1
      <3> QED
        BY <2>2, <3>1, <3>2
    <2>5. ASSUME d < h - f PROVE line[e] \notin DecimalDigit
      <3>1. n <= h - f /\ 1 <= n /\ n \in Int /\ f + n - 1 = e
        BY <1>2, <1>5, <2>3, <2>5, SMTT(20)
      <3>3. n \in 1..(h - f) /\ n <= Len(rest)
        BY <1>2, <1>6, <3>1, SMTT(20)
      <3>2. rest[n] = line[f + n - 1]
        BY <1>6, <3>3
      <3> QED
        BY <2>2, <3>1, <3>2, <3>3
    <2> QED
      BY <2>3, <2>4, <2>5
  <1> HIDE DEF d
  <1>8. /\ e \in f..h /\ (d < h - f <=> e < h) /\ (e = f <=> d = 0) /\ (e = h <=> d = Len(rest))
        /\ h \in Int /\ f \in Int /\ d \in Int /\ e \in Int
    <2>1. h \in Int /\ f \in Int /\ d \in 0..(h - f)
      BY <1>2, <1>5, <1>7, SMTT(20)
    <2>2. PICK m \in Nat : m = Len(rest) /\ m = h - f
      BY <1>6, SMTT(20)
    <2>3. /\ e \in f..h /\ (d < h - f <=> e < h) /\ (e = f <=> d = 0) /\ (e = h <=> d = m)
          /\ d \in Int /\ e \in Int
      BY <2>1, <2>2, SMTT(20)
    <2> QED
      BY <2>1, <2>2, <2>3, Zenon
  <1>9. ASSUME e < h
        PROVE  /\ reason = SubSeq(line, e + 1, h - 1) /\ reason \in Seq(Nat) /\ Len(reason) = h - 1 - e
               /\ \A i \in 1..(h - 1 - e) : reason[i] = line[e + i]
    <2>1. reason = SubSeq(line, e + 1, h - 1)
      <3>1. /\ f \in Int /\ h - 1 \in Int /\ 1 <= f /\ h - 1 <= Len(line) /\ f <= h - 1 + 1
            /\ d + 2 \in Int /\ Len(rest) \in Int /\ 1 <= d + 2 /\ Len(rest) <= h - 1 - f + 1 /\ d + 2 <= Len(rest) + 1
            /\ f + (d + 2) - 1 = e + 1 /\ f + Len(rest) - 1 = h - 1
        BY <1>2, <1>5, <1>6, <1>7, <1>8, <1>9
      <3>2. SubSeq(SubSeq(line, f, h - 1), d + 2, Len(rest)) = SubSeq(line, f + (d + 2) - 1, f + Len(rest) - 1)
        <4>1. PICK b \in Int, c \in Int, n \in Int : b = h - 1 /\ c = d + 2 /\ n = Len(rest)
          BY <3>1
        <4>2. 1 <= f /\ b <= Len(line) /\ f <= b + 1 /\ 1 <= c /\ n <= b - f + 1 /\ c <= n + 1
          BY <3>1, <4>1
        <4>3. SubSeq(SubSeq(line, f, b), c, n) = SubSeq(line, f + c - 1, f + n - 1)
          BY <3>1, <4>2, PieceOfPiece
        <4> HIDE DEF e
        <4> QED
          BY <4>1, <4>3
      <3> QED
        BY <1>6, <3>1, <3>2
    <2>2. PICK a \in Int, b \in Int : a = e + 1 /\ b = h - 1
      BY <1>8
    <2>3. 1 <= a /\ b <= Len(line) /\ a <= b + 1 /\ b - a + 1 = h - 1 - e
      BY <1>2, <1>5, <1>8, <1>9, <2>2
    <2>4. /\ SubSeq(line, a, b) \in Seq(Nat) /\ Len(SubSeq(line, a, b)) = b - a + 1
          /\ \A i \in 1..(b - a + 1) : SubSeq(line, a, b)[i] = line[a + i - 1]
      BY <2>3, Piece
    <2>5. \A i \in 1..(h - 1 - e) : a + i - 1 = e + i
      BY <1>8, <2>2
    <2> HIDE DEF reason, e
    <2> QED
      BY <2>1, <2>2, <2>3, <2>4, <2>5
  <1> HIDE DEF reason
  <1>10. ASSUME e < h
         PROVE  /\ last \in Int /\ l \in e..(h - 1) /\ (last <= 1 <=> l <= e + 1)
                /\ \A i \in (l + 1)..(h - 1) : line[i] \in White
                /\ l > e => line[l] \notin White
    <2>1. /\ last \in 0..Len(reason) /\ (\A i \in (last + 1)..Len(reason) : reason[i] \in White)
          /\ last > 0 => reason[last] \notin White
      BY <1>9, <1>10, LastNotIs
    <2> HIDE DEF last
    <2>2. last \in 0..(h - 1 - e) /\ last \in Int
      BY <1>8, <1>9, <1>10, <2>1
    <2>3. l \in e..(h - 1) /\ (last <= 1 <=> l <= e + 1) /\ (l > e <=> last > 0) /\ (last > 0 => last \in 1..(h - 1 - e))
      <3> HIDE DEF e
      <3> QED
        BY <1>8, <1>10, <2>2
    <2>4. ASSUME NEW i \in (l + 1)..(h - 1) PROVE line[i] \in White
      <3> HIDE DEF e
      <3>1. i - e \in (last + 1)..Len(reason) /\ i - e \in 1..(h - 1 - e) /\ e + (i - e) = i
        BY <1>8, <1>9, <1>10, <2>2
      <3> QED
        BY <1>9, <1>10, <2>1, <3>1
    <2>5. l > e => line[l] \notin White
      <3> HIDE DEF e
      <3>1. last > 0 => reason[last] = line[e + last]
        BY <1>9, <1>10, <2>3
      <3> QED
        BY <2>1, <2>3, <3>1
    <2> QED
      BY <2>2, <2>3, <2>4, <2>5
  <1>11. Found(line, h, f, e, l)
    <2> HIDE DEF e, l
    <2> QED
      BY <1>2, <1>5, <1>7, <1>8, <1>10 DEF Found
  <1>12. ParseLine(line) = IF e = f \/ e = h \/ l <= e + 1 THEN {} ELSE {Taken(line, f, e, l)}
    <2>1. CASE e = f \/ e = h
      BY <1>1, <1>8, <2>1
    <2>2. CASE e # f /\ e # h /\ l <= e + 1
      <3>1. e < h
        BY <1>8, <2>2
      <3>2. last <= 1
        BY <1>10, <2>2, <3>1
      <3> QED
        BY <1>1, <2>2, <3>2
    <2>3. CASE e # f /\ e # h /\ ~(l <= e + 1)
      <3>1. e < h
        BY <1>8, <2>3
      <3>2. ~(last <= 1) /\ d # 0 /\ d # Len(rest) /\ last \in Int
        BY <1>8, <1>10, <2>3, <3>1
      <3>3. SubSeq(rest, 1, d) = SubSeq(line, f, e - 1)
        <4>1. /\ f \in Int /\ h - 1 \in Int /\ 1 <= f /\ h - 1 <= Len(line) /\ f <= h - 1 + 1
              /\ 1 \in Int /\ d \in Int /\ 1 <= 1 /\ d <= h - 1 - f + 1 /\ 1 <= d + 1
              /\ f + 1 - 1 = f /\ f + d - 1 = e - 1
          BY <1>2, <1>5, <1>7, <1>8
        <4>2. SubSeq(SubSeq(line, f, h - 1), 1, d) = SubSeq(line, f + 1 - 1, f + d - 1)
          BY <4>1, PieceOfPiece
        <4> QED
          BY <1>6, <4>1, <4>2
      <3>4. SubSeq(reason, 1, last) = SubSeq(line, e + 1, l)
        <4>1. PICK a \in Int, b \in Int : a = e + 1 /\ b = h - 1
          BY <1>8
        <4>2. /\ 1 <= a /\ b <= Len(line) /\ a <= b + 1
              /\ 1 \in Int /\ 1 <= 1 /\ last <= b - a + 1 /\ 1 <= last + 1
              /\ a + 1 - 1 = e + 1 /\ a + last - 1 = l
          <5> HIDE DEF last, e
          <5>1. l \in e..(h - 1) /\ l = e + last
            BY <1>10, <3>1
          <5> QED
            BY <1>2, <1>5, <1>8, <3>1, <3>2, <4>1, <5>1
        <4>3. SubSeq(SubSeq(line, a, b), 1, last) = SubSeq(line, a + 1 - 1, a + last - 1)
          <5> HIDE DEF last, e, l
          <5> QED
            BY <3>2, <4>2, PieceOfPiece
        <4>4. reason = SubSeq(line, a, b)
          BY <1>9, <3>1, <4>1
        <4> HIDE DEF last, e, l
        <4> QED
          BY <4>2, <4>3, <4>4
      <3> HIDE DEF last, e, l
      <3>5. ParseLine(line) = {[code |-> ToInteger(SubSeq(rest, 1, d)).value % Width, reason |-> SubSeq(reason, 1, last)]}
        BY <1>1, <3>2
      <3>6. ParseLine(line) = {Taken(line, f, e, l)}
        BY <3>3, <3>4, <3>5 DEF Taken
      <3> QED
        BY <2>3, <3>6
    <2> QED
      BY <2>1, <2>2, <2>3
  <1> QED
    BY <1>11, <1>12

\* The places that Says looks for.
Layout(line, a, b, c) ==
    /\ a \in 1..Len(line) /\ b \in 1..Len(line) /\ c \in 1..Len(line)
    /\ a < b /\ b + 1 < c
    /\ \A i \in 1..(a - 1) : line[i] \in White
    /\ \A i \in a..(b - 1) : line[i] \in DecimalDigit
    /\ line[b] \notin DecimalDigit /\ line[c] \notin White
    /\ \A i \in b..c : line[i] # Hash
    /\ \A i \in (c + 1)..Len(line) : line[i] \in White \/ \E j \in (c + 1)..i : line[j] = Hash

LEMMA SaysIs ==
    ASSUME NEW line, NEW s
    PROVE  s \in Says(line) <=> \E a, b, c : Layout(line, a, b, c) /\ s = Statement(line, a, b, c)
  <1> DEFINE Range3 == (1..Len(line)) \X (1..Len(line)) \X (1..Len(line))
             Of(p) == Statement(line, p[1], p[2], p[3])
             Places == {p \in Range3 : Layout(line, p[1], p[2], p[3])}
  <1>1. Says(line) = {Of(p) : p \in Places}
    <2> DEFINE Is(p) == /\ p[1] < p[2] /\ p[2] + 1 < p[3]
                        /\ \A i \in 1..(p[1] - 1) : line[i] \in White
                        /\ \A i \in p[1]..(p[2] - 1) : line[i] \in DecimalDigit
                        /\ line[p[2]] \notin DecimalDigit /\ line[p[3]] \notin White
                        /\ \A i \in p[2]..p[3] : line[i] # Hash
                        /\ \A i \in (p[3] + 1)..Len(line) :
                              line[i] \in White \/ \E j \in (p[3] + 1)..i : line[j] = Hash
    <2>1. Says(line) = {Of(p) : p \in {p \in Range3 : Is(p)}}
      BY Zenon DEF Says, Statement
    <2>2. ASSUME NEW p \in Range3 PROVE Is(p) <=> Layout(line, p[1], p[2], p[3])
      <3>1. p[1] \in 1..Len(line) /\ p[2] \in 1..Len(line) /\ p[3] \in 1..Len(line)
        OBVIOUS
      <3> QED
        BY <3>1, Zenon DEF Layout
    <2> HIDE DEF Is, Of, Range3
    <2>3. {p \in Range3 : Is(p)} = Places
      BY <2>2
    <2> QED
      BY <2>1, <2>3
  <1>2. ASSUME NEW a, NEW b, NEW c, Layout(line, a, b, c) PROVE Statement(line, a, b, c) \in Says(line)
    <2>1. PICK p : p = <<a, b, c>>
      OBVIOUS
    <2>2. p \in Range3 /\ p[1] = a /\ p[2] = b /\ p[3] = c
      BY <1>2, <2>1 DEF Layout
    <2>3. p \in Places /\ Of(p) = Statement(line, a, b, c)
      BY <1>2, <2>2
    <2> HIDE DEF Places, Of
    <2> QED
      BY <1>1, <2>3
  <1>3. ASSUME s \in Says(line) PROVE \E a, b, c : Layout(line, a, b, c) /\ s = Statement(line, a, b, c)
    <2>1. PICK p \in Places : s = Of(p)
      <3> HIDE DEF Places, Of
      <3> QED
        BY <1>1, <1>3
    <2>2. Layout(line, p[1], p[2], p[3]) /\ s = Statement(line, p[1], p[2], p[3])
      BY <2>1
    <2> QED
      BY <2>2
  <1> QED
    BY <1>2, <1>3

\* "#" is no white space and no digit.
LEMMA HashIsNone == Hash \notin White /\ Hash \notin DecimalDigit /\ \A x \in DecimalDigit : x \notin White
  BY DEF Hash, White, DecimalDigit

\* parse_line finds the statement of every line, and states it if the number fits.
LEMMA LineSays ==
    ASSUME NEW line \in Seq(Nat), \A s \in Says(line) : Fits(s.number)
    PROVE  ParseLine(line) = States(line)
  <1>1. PICK h, f, e, l : /\ Found(line, h, f, e, l)
                          /\ ParseLine(line) = IF e = f \/ e = h \/ l <= e + 1 THEN {}
                                               ELSE {Taken(line, f, e, l)}
    BY LineParsed
  <1>2. /\ Len(line) \in Nat /\ h \in 1..(Len(line) + 1) /\ f \in 1..h /\ e \in f..h
        /\ h \in Int /\ f \in Int /\ e \in Int
        /\ e < h => l \in e..(h - 1) /\ l \in Int
    BY <1>1 DEF Found
  <1>3. ASSUME NEW a, NEW b, NEW c, Layout(line, a, b, c)
        PROVE  /\ a = f /\ b = e /\ c = l
               /\ e # f /\ e # h /\ ~(l <= e + 1)
    <2>1. /\ a \in 1..Len(line) /\ b \in 1..Len(line) /\ c \in 1..Len(line) /\ a < b /\ b + 1 < c
          /\ a \in Int /\ b \in Int /\ c \in Int
      BY <1>3 DEF Layout
    <2>2. \A i \in 1..c : line[i] # Hash
      <3> TAKE i \in 1..c
      <3>1. CASE i < a
        <4>1. i \in 1..(a - 1)
          BY <2>1, <3>1
        <4> QED
          BY <1>3, <4>1, HashIsNone DEF Layout
      <3>2. CASE ~(i < a) /\ i < b
        <4>1. i \in a..(b - 1)
          BY <2>1, <3>2
        <4> QED
          BY <1>3, <4>1, HashIsNone DEF Layout
      <3>3. CASE ~(i < b)
        <4>1. i \in b..c
          BY <2>1, <3>3
        <4> QED
          BY <1>3, <4>1 DEF Layout
      <3> QED
        BY <3>1, <3>2, <3>3
    <2>3. c < h
      <3>1. ASSUME ~(c < h) PROVE FALSE
        <4>1. h \in 1..c /\ h <= Len(line)
          BY <1>2, <2>1, <3>1
        <4>2. line[h] = Hash
          BY <1>1, <4>1 DEF Found
        <4> QED
          BY <2>2, <4>1, <4>2
      <3> QED
        BY <3>1
    <2>4. line[a] \notin White
      <3>1. a \in a..(b - 1)
        BY <2>1
      <3>2. line[a] \in DecimalDigit
        BY <1>3, <3>1 DEF Layout
      <3> QED
        BY <3>2, HashIsNone
    <2>5. a = f
      <3>1. ASSUME a < f PROVE FALSE
        <4>1. a \in 1..(f - 1)
          BY <1>2, <2>1, <3>1
        <4>2. line[a] \in White
          BY <1>1, <4>1 DEF Found
        <4> QED
          BY <2>4, <4>2
      <3>2. ASSUME f < a PROVE FALSE
        <4>1. f \in 1..(a - 1) /\ f < h
          BY <1>2, <2>1, <2>3, <3>2
        <4>2. line[f] \in White
          BY <1>3, <4>1 DEF Layout
        <4>3. line[f] \notin White
          BY <1>1, <4>1 DEF Found
        <4> QED
          BY <4>2, <4>3
      <3> QED
        BY <1>2, <2>1, <3>1, <3>2
    <2>6. b = e
      <3>1. ASSUME e < b PROVE FALSE
        <4>1. e \in a..(b - 1) /\ e < h
          BY <1>2, <2>1, <2>3, <2>5, <3>1
        <4>2. line[e] \in DecimalDigit
          BY <1>3, <4>1 DEF Layout
        <4>3. line[e] \notin DecimalDigit
          BY <1>1, <4>1 DEF Found
        <4> QED
          BY <4>2, <4>3
      <3>2. ASSUME b < e PROVE FALSE
        <4>1. b \in f..(e - 1)
          BY <1>2, <2>1, <2>5, <3>2
        <4>2. line[b] \in DecimalDigit
          BY <1>1, <4>1 DEF Found
        <4>3. line[b] \notin DecimalDigit
          BY <1>3 DEF Layout
        <4> QED
          BY <4>2, <4>3
      <3> QED
        BY <1>2, <2>1, <3>1, <3>2
    <2>7. e < h /\ l \in e..(h - 1) /\ l \in Int
      BY <1>2, <2>1, <2>3, <2>6
    <2>8. c = l
      <3>1. ASSUME l < c PROVE FALSE
        <4>1. c \in (l + 1)..(h - 1)
          BY <1>2, <2>1, <2>3, <2>7, <3>1
        <4>2. line[c] \in White
          BY <1>1, <2>7, <4>1 DEF Found
        <4>3. line[c] \notin White
          BY <1>3 DEF Layout
        <4> QED
          BY <4>2, <4>3
      <3>2. ASSUME c < l PROVE FALSE
        <4>1. l \in (c + 1)..Len(line) /\ l > e
          BY <1>2, <2>1, <2>6, <2>7, <3>2
        <4>2. \A j \in (c + 1)..l : line[j] # Hash
          <5> TAKE j \in (c + 1)..l
          <5>1. j \in 1..(h - 1)
            BY <1>2, <2>1, <2>7
          <5> QED
            BY <1>1, <5>1 DEF Found
        <4>3. line[l] \in White
          BY <1>3, <4>1, <4>2 DEF Layout
        <4>4. line[l] \notin White
          BY <1>1, <2>7, <4>1 DEF Found
        <4> QED
          BY <4>3, <4>4
      <3> QED
        BY <2>1, <2>7, <3>1, <3>2
    <2> QED
      BY <1>2, <2>1, <2>5, <2>6, <2>7, <2>8
  <1>4. ASSUME e # f, e # h, ~(l <= e + 1) PROVE Layout(line, f, e, l)
    <2>1. e < h
      BY <1>2, <1>4
    <2>2. l \in e..(h - 1) /\ l \in Int
      BY <1>2, <2>1
    <2>3. f \in 1..Len(line) /\ e \in 1..Len(line) /\ l \in 1..Len(line) /\ f < e /\ e + 1 < l /\ l > e /\ f < h
      BY <1>2, <1>4, <2>1, <2>2
    <2>4. \A i \in e..l : line[i] # Hash
      <3> TAKE i \in e..l
      <3>1. i \in 1..(h - 1)
        BY <1>2, <2>2, <2>3
      <3> QED
        BY <1>1, <3>1 DEF Found
    <2>5. ASSUME NEW i \in (l + 1)..Len(line) PROVE line[i] \in White \/ \E j \in (l + 1)..i : line[j] = Hash
      <3>1. CASE i < h
        <4>1. i \in (l + 1)..(h - 1)
          BY <1>2, <2>2, <3>1
        <4> QED
          BY <1>1, <2>1, <4>1 DEF Found
      <3>2. CASE ~(i < h)
        <4>1. h \in (l + 1)..i /\ h <= Len(line)
          BY <1>2, <2>2, <3>2
        <4>2. line[h] = Hash
          BY <1>1, <4>1 DEF Found
        <4> QED
          BY <4>1, <4>2
      <3> QED
        BY <3>1, <3>2
    <2>6. /\ \A i \in 1..(f - 1) : line[i] \in White
          /\ \A i \in f..(e - 1) : line[i] \in DecimalDigit
          /\ line[e] \notin DecimalDigit /\ line[l] \notin White
      BY <1>1, <2>1, <2>3 DEF Found
    <2> QED
      BY <2>3, <2>4, <2>5, <2>6 DEF Layout
  <1>5. ASSUME NEW s PROVE s \in Says(line) <=> ~(e = f \/ e = h \/ l <= e + 1) /\ s = Statement(line, f, e, l)
    <2>1. ASSUME s \in Says(line) PROVE ~(e = f \/ e = h \/ l <= e + 1) /\ s = Statement(line, f, e, l)
      <3>1. PICK a, b, c : Layout(line, a, b, c) /\ s = Statement(line, a, b, c)
        BY <2>1, SaysIs
      <3>2. a = f /\ b = e /\ c = l /\ e # f /\ e # h /\ ~(l <= e + 1)
        BY <1>3, <3>1
      <3> QED
        BY <3>1, <3>2
    <2>2. ASSUME e # f, e # h, ~(l <= e + 1), s = Statement(line, f, e, l) PROVE s \in Says(line)
      BY <1>4, <2>2, SaysIs
    <2> QED
      BY <2>1, <2>2
  <1> DEFINE none == e = f \/ e = h \/ l <= e + 1
             d == SubSeq(line, f, e - 1)
             st == Statement(line, f, e, l)
  <1>6. CASE none
    <2>1. Says(line) = {}
      BY <1>5, <1>6
    <2> QED
      BY <1>1, <1>6, <2>1 DEF States
  <1>7. CASE ~none
    <2>1. Says(line) = {st}
      <3> HIDE DEF st, none
      <3> QED
        BY <1>5, <1>7 DEF st, none
    <2>2. st.number = [sign |-> 1, base |-> 10, digits |-> d] /\ st.reason = SubSeq(line, e + 1, l)
      BY DEF Statement
    <2>3. Horner(d, 10) <= Exact /\ Power(10, Len(d) - 1) <= Largest
      <3>1. Fits(st.number)
        BY <2>1
      <3> HIDE DEF st, d
      <3> QED
        BY <2>2, <3>1 DEF Fits
    <2>4. d \in Seq(Nat) /\ d # <<>> /\ \A i \in DOMAIN d : d[i] \in DecimalDigit
      <3>1. PICK b \in Int : b = e - 1
        BY <1>2
      <3>2. f \in Int /\ 1 <= f /\ b <= Len(line) /\ f <= b + 1 /\ b - f + 1 > 0
        BY <1>2, <1>7, <3>1
      <3>3. /\ SubSeq(line, f, b) \in Seq(Nat) /\ Len(SubSeq(line, f, b)) = b - f + 1
            /\ \A i \in 1..(b - f + 1) : SubSeq(line, f, b)[i] = line[f + i - 1]
        BY <3>2, Piece
      <3>4. d = SubSeq(line, f, b)
        BY <3>1
      <3> HIDE DEF d
      <3>5. d \in Seq(Nat) /\ DOMAIN d = 1..(b - f + 1) /\ d # <<>>
        BY <3>2, <3>3, <3>4
      <3>6. ASSUME NEW i \in 1..(b - f + 1) PROVE d[i] \in DecimalDigit
        <4>1. f + i - 1 \in f..(e - 1)
          BY <1>2, <3>1, <3>2
        <4> QED
          BY <1>1, <3>3, <3>4, <4>1 DEF Found
      <3> QED
        BY <3>5, <3>6
    <2> HIDE DEF d, st
    <2>5. ToInteger(d).value = Horner(d, 10)
      BY <2>3, <2>4, DecimalRead
    <2>6. Horner(d, 10) \in Int
      <3>1. PICK v \in [0..Len(d) -> Int] : v[Len(d)] = Horner(d, 10)
        <4>1. 10 \in Nat
          OBVIOUS
        <4> QED
          BY <2>4, <4>1, HornerSteps
      <3>2. Len(d) \in 0..Len(d)
        BY <2>4
      <3> QED
        BY <3>1, <3>2
    <2>7. Meaning(st.number) = 1 * Horner(d, 10)
      BY <2>2 DEF Meaning
    <2>8. Meaning(st.number) = ToInteger(d).value
      BY <2>5, <2>6, <2>7
    <2>9. States(line) = {[code |-> Meaning(st.number) % Width, reason |-> st.reason]}
      BY <2>1, Zenon DEF States
    <2>10. Taken(line, f, e, l) = [code |-> Meaning(st.number) % Width, reason |-> st.reason]
      BY <2>2, <2>8 DEF Taken, d
    <2> QED
      BY <1>1, <1>7, <2>9, <2>10
  <1> QED
    BY <1>6, <1>7

-----------------------------------------------------------------------------
\* Setting a key of a table.
LEMMA TableSetIs ==
    ASSUME NEW A, NEW B, NEW t \in [A -> B], NEW key, NEW v \in B
    PROVE  /\ TableSet(t, key, v) \in [A \cup {key} -> B]
           /\ TableSet(t, key, v)[key] = v
           /\ \A x \in A : x # key => TableSet(t, key, v)[x] = t[x]
  <1> DEFINE u == [k \in A \cup {key} |-> IF k = key THEN v ELSE t[k]]
  <1>1. TableSet(t, key, v) = u
    BY DEF TableSet
  <1>2. \A k \in A \cup {key} : u[k] = (IF k = key THEN v ELSE t[k]) /\ u[k] \in B
    OBVIOUS
  <1>3. u \in [A \cup {key} -> B]
    BY <1>2
  <1> HIDE DEF u
  <1> QED
    BY <1>1, <1>2, <1>3

\* T is a table in which each position n of D up to k has set key[n] to val[n].
Latest(T, D, key, val, k) ==
    /\ DOMAIN T = {key[n] : n \in {n \in D : n <= k}}
    /\ \A n \in D : n <= k /\ (\A m \in D : n < m /\ m <= k => key[m] # key[n]) => T[key[n]] = val[n]
    /\ \A x \in DOMAIN T : \E n \in D : n <= k /\ key[n] = x /\ val[n] = T[x]

LEMMA LatestSkips ==
    ASSUME NEW T, NEW D \in SUBSET Nat, NEW key, NEW val, NEW k \in Nat, k + 1 \notin D, Latest(T, D, key, val, k)
    PROVE  Latest(T, D, key, val, k + 1)
  <1>1. \A n \in D : n <= k + 1 <=> n <= k
    OBVIOUS
  <1>2. {n \in D : n <= k + 1} = {n \in D : n <= k}
    BY <1>1
  <1> QED
    BY <1>1, <1>2 DEF Latest

LEMMA LatestSets ==
    ASSUME NEW A, NEW B, NEW T \in [A -> B], NEW D \in SUBSET Nat, NEW key, NEW val, NEW k \in Nat, k + 1 \in D,
           val[k + 1] \in B, Latest(T, D, key, val, k)
    PROVE  Latest(TableSet(T, key[k + 1], val[k + 1]), D, key, val, k + 1)
  <1> DEFINE U == TableSet(T, key[k + 1], val[k + 1])
             j == k + 1
  <1>1. /\ DOMAIN T = A /\ DOMAIN U = A \cup {key[j]} /\ U[key[j]] = val[j]
        /\ \A x \in A : x # key[j] => U[x] = T[x]
    <2> DEFINE x == key[k + 1]
    <2>1. PICK v \in B : v = val[j]
      OBVIOUS
    <2> HIDE DEF x
    <2> HIDE DEF U, j
    <2>2. /\ TableSet(T, x, v) \in [A \cup {x} -> B] /\ TableSet(T, x, v)[x] = v
          /\ \A y \in A : y # x => TableSet(T, x, v)[y] = T[y]
      <3>1. DOMAIN T = A
        OBVIOUS
      <3>2. TableSet(T, x, v) = [y \in A \cup {x} |-> IF y = x THEN v ELSE T[y]]
        BY <3>1, Zenon DEF TableSet
      <3> QED
        BY <3>2
    <2>3. U = TableSet(T, x, v) /\ x = key[j]
      BY <2>1 DEF x, U, j
    <2> QED
      BY <2>1, <2>2, <2>3
  <1>2. \A n \in D : (n <= j <=> n <= k \/ n = j) /\ (n <= k => n < j)
    OBVIOUS
  <1> HIDE DEF U, j
  <1>3. j \in D /\ j \in Nat /\ j <= j
    BY DEF j
  <1>4. DOMAIN U = {key[n] : n \in {n \in D : n <= j}}
    <2>1. {n \in D : n <= j} = {n \in D : n <= k} \cup {j}
      BY <1>2, <1>3
    <2>2. A = {key[n] : n \in {n \in D : n <= k}}
      BY <1>1 DEF Latest
    <2>3. {key[n] : n \in {n \in D : n <= k} \cup {j}} = {key[n] : n \in {n \in D : n <= k}} \cup {key[j]}
      BY Zenon
    <2> QED
      BY <1>1, <2>1, <2>2, <2>3, Zenon
  <1>5. ASSUME NEW n \in D, n <= j, \A m \in D : n < m /\ m <= j => key[m] # key[n]
        PROVE  U[key[n]] = val[n]
    <2>1. CASE n = j
      BY <1>1, <2>1
    <2>2. CASE n # j
      <3>1. n <= k /\ n < j
        BY <1>2, <1>5, <2>2
      <3>2. key[j] # key[n]
        BY <1>3, <1>5, <3>1
      <3>3. key[n] \in A
        BY <1>1, <3>1 DEF Latest
      <3>4. \A m \in D : n < m /\ m <= k => key[m] # key[n]
        BY <1>2, <1>5
      <3>5. T[key[n]] = val[n]
        BY <3>1, <3>4 DEF Latest
      <3> QED
        BY <1>1, <3>2, <3>3, <3>5
    <2> QED
      BY <2>1, <2>2
  <1>6. ASSUME NEW x \in DOMAIN U PROVE \E n \in D : n <= j /\ key[n] = x /\ val[n] = U[x]
    <2>1. CASE x = key[j]
      BY <1>1, <1>3, <2>1
    <2>2. CASE x # key[j]
      <3>1. x \in A /\ U[x] = T[x]
        BY <1>1, <2>2
      <3>2. PICK n \in D : n <= k /\ key[n] = x /\ val[n] = T[x]
        BY <1>1, <3>1 DEF Latest
      <3> QED
        BY <1>2, <3>1, <3>2
    <2> QED
      BY <2>1, <2>2
  <1>7. Latest(U, D, key, val, j)
    BY <1>4, <1>5, <1>6 DEF Latest
  <1> QED
    BY <1>7 DEF U, j

\* The tables of codes and reasons.
Spellings == {NormalizeStatus(r) : r \in Seq(Nat)}
Tables ==
    [toString : UNION {[A -> Seq(Nat)] : A \in SUBSET Int},
     toCode : UNION {[A -> Int] : A \in SUBSET Spellings}]

\* A line gives one status at most.
LEMMA LineOne ==
    ASSUME NEW line \in Seq(Nat), ParseLine(line) # {}
    PROVE  \E s : /\ ParseLine(line) = {s} /\ s = [code |-> s.code, reason |-> s.reason]
                  /\ s.code \in Int /\ s.reason \in Seq(Nat)
  <1>1. PICK h, f, e, l : /\ Found(line, h, f, e, l)
                          /\ ParseLine(line) = IF e = f \/ e = h \/ l <= e + 1 THEN {}
                                               ELSE {Taken(line, f, e, l)}
    BY LineParsed
  <1>2. SUFFICES /\ Taken(line, f, e, l).code \in Int /\ Taken(line, f, e, l).reason \in Seq(Nat)
                 /\ Taken(line, f, e, l) = [code |-> Taken(line, f, e, l).code, reason |-> Taken(line, f, e, l).reason]
    BY <1>1
  <1>3. e # f /\ e # h /\ ~(l <= e + 1)
    BY <1>1
  <1>4. /\ Len(line) \in Nat /\ h \in 1..(Len(line) + 1) /\ f \in 1..h /\ e \in f..h
        /\ h \in Int /\ f \in Int /\ e \in Int
        /\ e < h => l \in e..(h - 1) /\ l \in Int
    BY <1>1 DEF Found
  <1>5. e < h
    BY <1>3, <1>4
  <1>6. l \in e..(h - 1) /\ l \in Int
    BY <1>4, <1>5
  <1>7. PICK a \in Int, b \in Int : a = e + 1 /\ b = e - 1
    BY <1>4
  <1>8. 1 <= f /\ b <= Len(line) /\ f <= b + 1
    BY <1>4, <1>7
  <1>9. 1 <= a /\ l <= Len(line) /\ a <= l + 1
    BY <1>4, <1>6, <1>7
  <1>10. SubSeq(line, f, b) \in Seq(Nat)
    BY <1>4, <1>8, Piece
  <1>11. SubSeq(line, a, l) \in Seq(Nat)
    BY <1>6, <1>9, Piece
  <1>12. ToInteger(SubSeq(line, f, b)).value % Width \in Int
    <2>1. PICK v \in Int : v = ToInteger(SubSeq(line, f, b)).value
      BY <1>10, ToIntegerTyped
    <2>2. v % Width \in Int
      BY HttpStatusAssumption
    <2> QED
      BY <2>1, <2>2
  <1> QED
    BY <1>7, <1>11, <1>12 DEF Taken

LEMMA AddsIs ==
    ASSUME NEW t \in Tables, NEW line \in Seq(Nat)
    PROVE  /\ Adds(t, line) \in Tables
           /\ ParseLine(line) = {} => Adds(t, line) = t
           /\ \A s \in ParseLine(line) :
                 Adds(t, line) = [toString |-> TableSet(t.toString, s.code, s.reason),
                                  toCode |-> TableSet(t.toCode, NormalizeStatus(s.reason), s.code)]
  <1> DEFINE s == CHOOSE s \in ParseLine(line) : TRUE
             u == [toString |-> TableSet(t.toString, s.code, s.reason),
                   toCode |-> TableSet(t.toCode, NormalizeStatus(s.reason), s.code)]
  <1>1. Adds(t, line) = IF ParseLine(line) = {} THEN t ELSE u
    BY Zenon DEF Adds
  <1>2. CASE ParseLine(line) = {}
    BY <1>1, <1>2
  <1>3. CASE ParseLine(line) # {}
    <2>1. PICK r : ParseLine(line) = {r} /\ r.code \in Int /\ r.reason \in Seq(Nat)
      BY <1>3, LineOne
    <2>2. s \in ParseLine(line)
      BY <1>3, Zenon
    <2> HIDE DEF s
    <2>3. s = r
      BY <2>1, <2>2
    <2>4. Adds(t, line) = u
      BY <1>1, <1>3
    <2>5. PICK A \in SUBSET Int, B \in SUBSET Spellings : t.toString \in [A -> Seq(Nat)] /\ t.toCode \in [B -> Int]
      BY DEF Tables
    <2>6. u.toString \in [A \cup {r.code} -> Seq(Nat)] /\ A \cup {r.code} \in SUBSET Int
      BY <2>1, <2>3, <2>5, TableSetIs
    <2>7. u.toCode \in [B \cup {NormalizeStatus(r.reason)} -> Int] /\ B \cup {NormalizeStatus(r.reason)} \in SUBSET Spellings
      <3>1. NormalizeStatus(r.reason) \in Spellings
        BY <2>1 DEF Spellings
      <3> QED
        BY <2>1, <2>3, <2>5, <3>1, TableSetIs
    <2>8. u \in Tables
      BY <2>6, <2>7, Zenon DEF Tables
    <2> QED
      BY <1>3, <2>1, <2>3, <2>4, <2>8
  <1> QED
    BY <1>2, <1>3

LEMMA NoStatusesTyped == NoStatuses \in Tables /\ DOMAIN NoStatuses.toString = {} /\ DOMAIN NoStatuses.toCode = {}
  <1>1. <<>> \in [{} -> Seq(Nat)] /\ <<>> \in [{} -> Int] /\ DOMAIN <<>> = {}
    OBVIOUS
  <1>2. NoStatuses.toString = <<>> /\ NoStatuses.toCode = <<>>
    BY DEF NoStatuses
  <1>3. {} \in SUBSET Int /\ {} \in SUBSET Spellings
    OBVIOUS
  <1>4. <<>> \in UNION {[A -> Seq(Nat)] : A \in SUBSET Int} /\ <<>> \in UNION {[A -> Int] : A \in SUBSET Spellings}
    BY <1>1, <1>3
  <1> QED
    BY <1>1, <1>2, <1>4 DEF NoStatuses, Tables


\* The loading of lines, step by step.
LEMMA StatusSteps ==
    ASSUME NEW lines \in Seq(Seq(Nat))
    PROVE  \E f \in [0..Len(lines) -> Tables] :
              /\ f[0] = NoStatuses /\ f[Len(lines)] = HttpStatusLoad(lines)
              /\ \A k \in 1..Len(lines) : f[k] = Adds(f[k - 1], lines[k])
  <1> DEFINE N == Len(lines)
             step == [k \in 1..N |-> [r \in Tables |-> Adds(r, lines[k])]]
             Equation(g) == g = [S \in SUBSET (1..N) |->
                                   IF S = {} THEN NoStatuses ELSE Adds(g[S \ {Max(S)}], lines[Max(S)])]
             h == CHOOSE g : Equation(g)
  <1>1. N \in Nat /\ DOMAIN lines = 1..N /\ \A k \in 1..N : lines[k] \in Seq(Nat)
    OBVIOUS
  <1>2. \A r \in Tables, line \in Seq(Nat) : Adds(r, line) \in Tables
    BY AddsIs
  <1>3. NoStatuses \in Tables
    BY NoStatusesTyped
  <1>4. step \in [1..N -> [Tables -> Tables]]
    BY <1>1, <1>2
  <1>5. \A k \in 1..N, r \in Tables : step[k][r] = Adds(r, lines[k])
    OBVIOUS
  <1> HIDE DEF N, step
  <1>6. PICK g : FoldedBy(g, N, Tables, NoStatuses, step)
    BY <1>1, <1>3, <1>4, FoldExists
  <1>7. ASSUME NEW S \in SUBSET (1..N)
        PROVE  g[S] = IF S = {} THEN NoStatuses ELSE Adds(g[S \ {Max(S)}], lines[Max(S)])
    <2>1. CASE S = {}
      BY <1>6, <2>1 DEF FoldedBy
    <2>2. CASE S # {}
      <3>1. S \in SUBSET (0..N)
        BY <1>1
      <3>2. Max(S) \in 1..N
        BY <1>1, <2>2, <3>1, Greatest
      <3>3. S \ {Max(S)} \in SUBSET (1..N)
        OBVIOUS
      <3>4. g[S \ {Max(S)}] \in Tables
        BY <1>6, <3>3 DEF FoldedBy
      <3>5. g[S] = step[Max(S)][g[S \ {Max(S)}]]
        BY <1>6, <2>2 DEF FoldedBy
      <3> QED
        BY <1>5, <2>2, <3>2, <3>4, <3>5
    <2> QED
      BY <2>1, <2>2
  <1>8. Equation(g)
    <2>1. g = [S \in SUBSET (1..N) |-> g[S]]
      BY <1>6 DEF FoldedBy
    <2> QED
      BY <1>7, <2>1, Zenon
  <1>9. Equation(h)
    BY <1>8, Zenon
  <1>10. HttpStatusLoad(lines) = h[1..N]
    BY <1>1, Zenon DEF HttpStatusLoad, FoldLeft, MapThenFoldSet
  <1>11. \A S \in SUBSET (1..N) :
            h[S] = IF S = {} THEN NoStatuses ELSE Adds(h[S \ {Max(S)}], lines[Max(S)])
    <2> DEFINE e == [S \in SUBSET (1..N) |->
                       IF S = {} THEN NoStatuses ELSE Adds(h[S \ {Max(S)}], lines[Max(S)])]
    <2>1. h = e
      BY <1>9
    <2>2. \A S \in SUBSET (1..N) :
             e[S] = IF S = {} THEN NoStatuses ELSE Adds(h[S \ {Max(S)}], lines[Max(S)])
      OBVIOUS
    <2> HIDE DEF e, h
    <2> QED
      BY <2>1, <2>2
  <1> HIDE DEF h
  <1> DEFINE f == [k \in 0..N |-> h[1..k]]
  <1>12. \A k \in 0..N : f[k] = h[1..k] /\ 1..k \in SUBSET (1..N)
    BY <1>1
  <1>13. f[0] = NoStatuses
    <2>1. 1..0 = {} /\ 0 \in 0..N
      BY <1>1
    <2> QED
      BY <1>11, <1>12, <2>1
  <1> HIDE DEF f
  <1>14. ASSUME NEW k \in 1..N PROVE f[k] = Adds(f[k - 1], lines[k])
    <2>1. k \in 0..N /\ k - 1 \in 0..N /\ k \in Nat /\ k # 0
      BY <1>1
    <2>2. Max(1..k) = k /\ (1..k) \ {k} = 1..(k - 1) /\ 1..k # {}
      BY <2>1, PrefixEnd
    <2>3. h[1..k] = Adds(h[1..(k - 1)], lines[k])
      BY <1>11, <1>12, <2>1, <2>2
    <2> QED
      BY <1>12, <2>1, <2>3
  <1>15. \A k \in 0..N : f[k] \in Tables
    <2> DEFINE P == {k \in 0..N : f[k] \in Tables}
    <2>1. 0 \in P
      BY <1>1, <1>3, <1>13
    <2>2. ASSUME NEW k \in 0..N, k \in P, k < N PROVE k + 1 \in P
      <3>1. k + 1 \in 1..N /\ k + 1 \in 0..N /\ k + 1 - 1 = k
        BY <1>1, <2>2
      <3>2. f[k + 1] = Adds(f[k], lines[k + 1])
        BY <1>14, <3>1
      <3>3. f[k + 1] \in Tables
        BY <1>1, <1>2, <2>2, <3>1, <3>2
      <3> QED
        BY <3>1, <3>3
    <2>3. 0..N \subseteq P
      <3> HIDE DEF P
      <3> QED
        BY <1>1, <2>1, <2>2, Induction
    <2> QED
      BY <2>3
  <1>16. f \in [0..N -> Tables] /\ f[N] = HttpStatusLoad(lines)
    <2>1. f \in [0..N -> Tables]
      BY <1>15 DEF f
    <2>2. N \in 0..N
      BY <1>1
    <2> QED
      BY <1>10, <1>12, <2>1, <2>2
  <1> QED
    BY <1>13, <1>14, <1>16 DEF N


\* The lines that give a status, and which.
LEMMA Statements ==
    ASSUME NEW lines \in Seq(Seq(Nat))
    PROVE  \E D \in SUBSET (1..Len(lines)) : \E code, reason, norm :
              /\ \A n \in 1..Len(lines) : n \notin D => ParseLine(lines[n]) = {}
              /\ \A n \in D : /\ ParseLine(lines[n]) = {[code |-> code[n], reason |-> reason[n]]}
                              /\ code[n] \in Int /\ reason[n] \in Seq(Nat) /\ norm[n] = NormalizeStatus(reason[n])
  <1> DEFINE D == {n \in 1..Len(lines) : ParseLine(lines[n]) # {}}
             stm == [n \in D |-> CHOOSE s : s \in ParseLine(lines[n])]
             code == [n \in D |-> stm[n].code]
             reason == [n \in D |-> stm[n].reason]
             norm == [n \in D |-> NormalizeStatus(reason[n])]
  <1>1. \A n \in 1..Len(lines) : n \notin D => ParseLine(lines[n]) = {}
    OBVIOUS
  <1>2. ASSUME NEW n \in D
        PROVE  /\ ParseLine(lines[n]) = {stm[n]} /\ stm[n] = [code |-> stm[n].code, reason |-> stm[n].reason]
               /\ stm[n].code \in Int /\ stm[n].reason \in Seq(Nat)
    <2>1. lines[n] \in Seq(Nat) /\ ParseLine(lines[n]) # {}
      OBVIOUS
    <2>2. PICK s : /\ ParseLine(lines[n]) = {s} /\ s = [code |-> s.code, reason |-> s.reason]
                   /\ s.code \in Int /\ s.reason \in Seq(Nat)
      BY <2>1, LineOne
    <2>3. stm[n] \in ParseLine(lines[n])
      BY <2>1, Zenon
    <2> HIDE DEF stm
    <2>4. stm[n] = s
      BY <2>2, <2>3
    <2> QED
      BY <2>2, <2>4
  <1>3. \A n \in D : code[n] = stm[n].code /\ reason[n] = stm[n].reason /\ norm[n] = NormalizeStatus(reason[n])
    BY Zenon
  <1>4. D \in SUBSET (1..Len(lines))
    OBVIOUS
  <1> HIDE DEF D, stm, code, reason, norm
  <1>5. \A n \in D : /\ ParseLine(lines[n]) = {[code |-> code[n], reason |-> reason[n]]}
                     /\ code[n] \in Int /\ reason[n] \in Seq(Nat) /\ norm[n] = NormalizeStatus(reason[n])
    BY <1>2, <1>3
  <1> DEFINE All(c, r, m) == /\ \A n \in 1..Len(lines) : n \notin D => ParseLine(lines[n]) = {}
                             /\ \A n \in D : /\ ParseLine(lines[n]) = {[code |-> c[n], reason |-> r[n]]}
                                             /\ c[n] \in Int /\ r[n] \in Seq(Nat) /\ m[n] = NormalizeStatus(r[n])
  <1>6. All(code, reason, norm)
    BY <1>1, <1>5
  <1>7. \E c, r, m : All(c, r, m)
    <2> HIDE DEF All
    <2> QED
      BY <1>6
  <1> QED
    BY <1>4, <1>7

\* Loading keeps what the last lines give.
LEMMA LoadKeepsLatest ==
    ASSUME NEW lines \in Seq(Seq(Nat)), NEW D \in SUBSET (1..Len(lines)), NEW code, NEW reason, NEW norm,
           \A n \in 1..Len(lines) : n \notin D => ParseLine(lines[n]) = {},
           \A n \in D : /\ ParseLine(lines[n]) = {[code |-> code[n], reason |-> reason[n]]}
                        /\ code[n] \in Int /\ reason[n] \in Seq(Nat) /\ norm[n] = NormalizeStatus(reason[n])
    PROVE  /\ Latest(HttpStatusLoad(lines).toString, D, code, reason, Len(lines))
           /\ Latest(HttpStatusLoad(lines).toCode, D, norm, code, Len(lines))
  <1> DEFINE N == Len(lines)
  <1>1. N \in Nat /\ D \in SUBSET Nat /\ \A k \in 1..N : lines[k] \in Seq(Nat)
    OBVIOUS
  <1>2. PICK f \in [0..N -> Tables] : /\ f[0] = NoStatuses /\ f[N] = HttpStatusLoad(lines)
                                      /\ \A k \in 1..N : f[k] = Adds(f[k - 1], lines[k])
    BY StatusSteps
  <1>3. \A n \in D : n \in 1..N
    OBVIOUS
  <1> HIDE DEF N
  <1> DEFINE P == {k \in 0..N : Latest(f[k].toString, D, code, reason, k) /\ Latest(f[k].toCode, D, norm, code, k)}
  <1>4. 0 \in P
    <2>0. \A n \in D : ~(n <= 0)
      BY <1>1, <1>3
    <2>1. {n \in D : n <= 0} = {} /\ \A n \in D : ~(n <= 0)
      BY <2>0, Zenon
    <2>2. DOMAIN f[0].toString = {} /\ DOMAIN f[0].toCode = {}
      BY <1>2, NoStatusesTyped
    <2>3. 0 \in 0..N
      BY <1>1
    <2>4. Latest(f[0].toString, D, code, reason, 0)
      BY <2>1, <2>2 DEF Latest
    <2>5. Latest(f[0].toCode, D, norm, code, 0)
      BY <2>1, <2>2 DEF Latest
    <2> QED
      BY <2>3, <2>4, <2>5
  <1>5. ASSUME NEW k \in 0..N, k \in P, k < N PROVE k + 1 \in P
    <2>1. k \in Nat /\ k + 1 \in 1..N /\ k + 1 \in 0..N /\ k + 1 - 1 = k
      BY <1>1, <1>5
    <2>2. f[k] \in Tables /\ lines[k + 1] \in Seq(Nat) /\ f[k + 1] = Adds(f[k], lines[k + 1])
      BY <1>1, <1>2, <2>1
    <2>3. Latest(f[k].toString, D, code, reason, k) /\ Latest(f[k].toCode, D, norm, code, k)
      BY <1>5
    <2>4. CASE k + 1 \notin D
      <3>1. ParseLine(lines[k + 1]) = {}
        BY <2>1, <2>4 DEF N
      <3>2. f[k + 1] = f[k]
        BY <2>2, <3>1, AddsIs
      <3>3. Latest(f[k].toString, D, code, reason, k + 1)
        BY <1>1, <2>1, <2>3, <2>4, LatestSkips
      <3>4. Latest(f[k].toCode, D, norm, code, k + 1)
        BY <1>1, <2>1, <2>3, <2>4, LatestSkips
      <3> QED
        BY <2>1, <3>2, <3>3, <3>4
    <2>5. CASE k + 1 \in D
      <3> DEFINE j == k + 1
      <3>1. /\ ParseLine(lines[j]) = {[code |-> code[j], reason |-> reason[j]]}
            /\ code[j] \in Int /\ reason[j] \in Seq(Nat) /\ norm[j] = NormalizeStatus(reason[j])
        BY <2>5
      <3>2. [code |-> code[j], reason |-> reason[j]] \in ParseLine(lines[j])
        BY <3>1
      <3>3. f[j] = [toString |-> TableSet(f[k].toString, code[j], reason[j]),
                    toCode |-> TableSet(f[k].toCode, norm[j], code[j])]
        <4> DEFINE s == [code |-> code[j], reason |-> reason[j]]
        <4>1. s.code = code[j] /\ s.reason = reason[j] /\ s \in ParseLine(lines[j])
          BY <3>2
        <4> HIDE DEF s, j
        <4>2. f[j] = [toString |-> TableSet(f[k].toString, s.code, s.reason),
                      toCode |-> TableSet(f[k].toCode, NormalizeStatus(s.reason), s.code)]
          BY <2>2, <4>1, AddsIs DEF j
        <4> QED
          BY <3>1, <4>1, <4>2
      <3>4. f[j].toString = TableSet(f[k].toString, code[j], reason[j]) /\ f[j].toCode = TableSet(f[k].toCode, norm[j], code[j])
        BY <3>3
      <3>5. PICK A \in SUBSET Int, B \in SUBSET Spellings : f[k].toString \in [A -> Seq(Nat)] /\ f[k].toCode \in [B -> Int]
        BY <2>2 DEF Tables
      <3>6. Latest(TableSet(f[k].toString, code[k + 1], reason[k + 1]), D, code, reason, k + 1)
        <4> DEFINE T == f[k].toString
        <4>1. T \in [A -> Seq(Nat)] /\ Latest(T, D, code, reason, k)
          BY <2>3, <3>5
        <4> HIDE DEF T
        <4>2. reason[k + 1] \in Seq(Nat)
          BY <3>1
        <4>3. Latest(TableSet(T, code[k + 1], reason[k + 1]), D, code, reason, k + 1)
          BY <1>1, <2>1, <2>5, <4>1, <4>2, LatestSets
        <4> QED
          BY <4>3 DEF T
      <3>7. Latest(TableSet(f[k].toCode, norm[k + 1], code[k + 1]), D, norm, code, k + 1)
        <4> DEFINE T == f[k].toCode
        <4>1. T \in [B -> Int] /\ Latest(T, D, norm, code, k)
          BY <2>3, <3>5
        <4> HIDE DEF T
        <4>2. code[k + 1] \in Int
          BY <3>1
        <4>3. Latest(TableSet(T, norm[k + 1], code[k + 1]), D, norm, code, k + 1)
          BY <1>1, <2>1, <2>5, <4>1, <4>2, LatestSets
        <4> QED
          BY <4>3 DEF T
      <3>8. Latest(f[k + 1].toString, D, code, reason, k + 1) /\ Latest(f[k + 1].toCode, D, norm, code, k + 1)
        BY <3>4, <3>6, <3>7, Zenon
      <3> QED
        BY <2>1, <3>8
    <2> QED
      BY <2>4, <2>5
  <1>6. 0..N \subseteq P
    <2> HIDE DEF P
    <2> QED
      BY <1>1, <1>4, <1>5, Induction
  <1>7. N \in P
    BY <1>1, <1>6
  <1> QED
    BY <1>2, <1>7 DEF N

\* The numbers in the files fit a double.
NumbersFit(lines) == \A n \in DOMAIN lines : \A s \in Says(lines[n]) : Fits(s.number)

\* The two tables of status codes agree with all lines of the files and with each
\* other, each code as 32 bits hold it, as long as its number fits a double:
\* KnowsStatuses of what cflare_httpstatus_load makes of them.
THEOREM StatusesKnown == \A lines \in Seq(Seq(Nat)) : KnowsStatuses(lines)
  <1> TAKE lines \in Seq(Seq(Nat))
  <1> SUFFICES ASSUME NumbersFit(lines) PROVE KnowsStatuses(lines)
    <2> DEFINE fit == \A n \in DOMAIN lines : \A s \in Says(lines[n]) : Fits(s.number)
    <2>1. fit <=> NumbersFit(lines)
      BY Zenon DEF NumbersFit
    <2>2. ~fit => KnowsStatuses(lines)
      BY Zenon DEF KnowsStatuses
    <2> HIDE DEF fit
    <2> QED
      BY <2>1, <2>2
  <1>1. Len(lines) \in Nat /\ DOMAIN lines = 1..Len(lines)
    OBVIOUS
  <1>0. \A n \in 1..Len(lines) : lines[n] \in Seq(Nat)
    OBVIOUS
  <1> DEFINE t == HttpStatusLoad(lines)
             says == [n \in DOMAIN lines |-> States(lines[n])]
             all == UNION {says[n] : n \in DOMAIN lines}
             Same(s, r) == NormalizeStatus(s.reason) = NormalizeStatus(r.reason)
             Later(n, s) == \A m \in (n + 1)..Len(lines) : \A r \in says[m] : r.code # s.code
             Spelled(n, s) == \A m \in (n + 1)..Len(lines) : \A r \in says[m] : ~Same(s, r)
  <1>2. \A n \in 1..Len(lines) : says[n] = ParseLine(lines[n])
    <2> TAKE n \in 1..Len(lines)
    <2>0. lines[n] \in Seq(Nat)
      BY <1>0, Zenon
    <2>1. \A s \in Says(lines[n]) : Fits(s.number)
      <3>1. n \in DOMAIN lines
        BY <1>1, Zenon
      <3> QED
        BY <3>1, Zenon DEF NumbersFit
    <2>2. ParseLine(lines[n]) = States(lines[n])
      BY <2>0, <2>1, LineSays
    <2> QED
      BY <1>1, <2>2
  <1>3. PICK D \in SUBSET (1..Len(lines)) : \E code, reason, norm :
           /\ \A n \in 1..Len(lines) : n \notin D => ParseLine(lines[n]) = {}
           /\ \A n \in D : /\ ParseLine(lines[n]) = {[code |-> code[n], reason |-> reason[n]]}
                           /\ code[n] \in Int /\ reason[n] \in Seq(Nat) /\ norm[n] = NormalizeStatus(reason[n])
    BY Statements
  <1>4. PICK code, reason, norm :
           /\ \A n \in 1..Len(lines) : n \notin D => ParseLine(lines[n]) = {}
           /\ \A n \in D : /\ ParseLine(lines[n]) = {[code |-> code[n], reason |-> reason[n]]}
                           /\ code[n] \in Int /\ reason[n] \in Seq(Nat) /\ norm[n] = NormalizeStatus(reason[n])
    BY <1>3
  <1>5. /\ Latest(t.toString, D, code, reason, Len(lines))
        /\ Latest(t.toCode, D, norm, code, Len(lines))
    BY <1>4, LoadKeepsLatest
  <1>6. \A n \in D : n <= Len(lines) /\ n \in 1..Len(lines) /\ n \in Int
    BY <1>1
  <1>7. {n \in D : n <= Len(lines)} = D
    BY <1>6, Zenon
  <1> HIDE DEF t, says, all
  <1>8. /\ DOMAIN t.toString = {code[n] : n \in D}
        /\ \A n \in D : (\A m \in D : n < m => code[m] # code[n]) => t.toString[code[n]] = reason[n]
        /\ \A x \in DOMAIN t.toString : \E n \in D : code[n] = x /\ reason[n] = t.toString[x]
    <2>1. DOMAIN t.toString = {code[n] : n \in D}
      BY <1>5, <1>7, Zenon DEF Latest
    <2>2. \A n \in D : (\A m \in D : n < m => code[m] # code[n]) => t.toString[code[n]] = reason[n]
      BY <1>5, <1>6 DEF Latest
    <2>3. \A x \in DOMAIN t.toString : \E n \in D : code[n] = x /\ reason[n] = t.toString[x]
      BY <1>5 DEF Latest
    <2> QED
      BY <2>1, <2>2, <2>3
  <1>9. /\ DOMAIN t.toCode = {norm[n] : n \in D}
        /\ \A n \in D : (\A m \in D : n < m => norm[m] # norm[n]) => t.toCode[norm[n]] = code[n]
        /\ \A x \in DOMAIN t.toCode : \E n \in D : norm[n] = x /\ code[n] = t.toCode[x]
    <2>1. DOMAIN t.toCode = {norm[n] : n \in D}
      BY <1>5, <1>7, Zenon DEF Latest
    <2>2. \A n \in D : (\A m \in D : n < m => norm[m] # norm[n]) => t.toCode[norm[n]] = code[n]
      BY <1>5, <1>6 DEF Latest
    <2>3. \A x \in DOMAIN t.toCode : \E n \in D : norm[n] = x /\ code[n] = t.toCode[x]
      BY <1>5 DEF Latest
    <2> QED
      BY <2>1, <2>2, <2>3
  <1>10. \A n \in D : says[n] = {[code |-> code[n], reason |-> reason[n]]}
    BY <1>2, <1>4, <1>6
  <1>11. ASSUME NEW n \in 1..Len(lines), NEW s \in says[n]
         PROVE  n \in D /\ s.code = code[n] /\ s.reason = reason[n]
    <2>1. n \in D
      BY <1>2, <1>4
    <2> QED
      BY <1>10, <2>1
  <1>12. \A n \in D : \E r \in says[n] : r.code = code[n] /\ r.reason = reason[n]
    <2> TAKE n \in D
    <2> DEFINE r == [code |-> code[n], reason |-> reason[n]]
    <2>1. r.code = code[n] /\ r.reason = reason[n] /\ r \in says[n]
      BY <1>10
    <2> HIDE DEF r
    <2> QED
      BY <2>1
  <1>13. ASSUME NEW n \in D, NEW m \in D, n < m PROVE m \in (n + 1)..Len(lines)
    BY <1>1, <1>6, <1>13
  <1>14. ASSUME NEW n \in 1..Len(lines), NEW s \in says[n], Later(n, s)
         PROVE  StatusToString(t, s.code) = {s.reason}
    <2>1. n \in D /\ s.code = code[n] /\ s.reason = reason[n]
      BY <1>11
    <2>2. ASSUME NEW m \in D, n < m PROVE code[m] # code[n]
      <3>1. m \in (n + 1)..Len(lines)
        BY <1>13, <2>1, <2>2
      <3>2. PICK r \in says[m] : r.code = code[m]
        BY <1>12
      <3> QED
        BY <1>14, <2>1, <3>1, <3>2
    <2>3. t.toString[code[n]] = reason[n]
      BY <1>8, <2>1, <2>2
    <2>4. code[n] \in DOMAIN t.toString
      BY <1>8, <2>1
    <2> QED
      BY <2>1, <2>3, <2>4 DEF StatusToString
  <1>15. ASSUME NEW n \in 1..Len(lines), NEW s \in says[n], Spelled(n, s)
         PROVE  StatusFromString(t, s.reason) = s.code
    <2>1. n \in D /\ s.code = code[n] /\ s.reason = reason[n]
      BY <1>11
    <2>2. norm[n] = NormalizeStatus(s.reason)
      BY <1>4, <2>1
    <2>3. ASSUME NEW m \in D, n < m PROVE norm[m] # norm[n]
      <3>1. m \in (n + 1)..Len(lines)
        BY <1>13, <2>1, <2>3
      <3>2. PICK r \in says[m] : r.reason = reason[m]
        BY <1>12
      <3>3. ~Same(s, r)
        BY <1>15, <3>1
      <3>4. norm[m] = NormalizeStatus(r.reason)
        BY <1>4, <3>2
      <3> QED
        BY <2>2, <3>3, <3>4
    <2>4. t.toCode[norm[n]] = code[n]
      BY <1>9, <2>1, <2>3
    <2>5. norm[n] \in DOMAIN t.toCode
      BY <1>9, <2>1
    <2> QED
      BY <2>1, <2>2, <2>4, <2>5 DEF StatusFromString
  <1>16. DOMAIN t.toString = {s.code : s \in all}
    <2>1. ASSUME NEW n \in D PROVE code[n] \in {s.code : s \in all}
      <3>1. PICK r \in says[n] : r.code = code[n]
        BY <1>12
      <3>2. r \in all
        BY <1>1, <1>6 DEF all
      <3> QED
        BY <3>1, <3>2
    <2>2. ASSUME NEW s \in all PROVE \E n \in D : s.code = code[n]
      <3>1. PICK n \in DOMAIN lines : s \in says[n]
        BY DEF all
      <3> QED
        BY <1>1, <1>11, <3>1
    <2>3. \A c : c \in {code[n] : n \in D} <=> c \in {s.code : s \in all}
      BY <2>1, <2>2
    <2> QED
      BY <1>8, <2>3
  <1>17. ASSUME NEW c \in DOMAIN t.toString, NEW s, s.reason = t.toString[c], \A r \in all : Same(s, r) => r.code = c
         PROVE  StatusFromString(t, s.reason) = c
    <2>1. PICK n \in D : code[n] = c /\ reason[n] = t.toString[c]
      BY <1>8
    <2>2. norm[n] = NormalizeStatus(s.reason)
      BY <1>4, <1>17, <2>1
    <2>3. norm[n] \in DOMAIN t.toCode
      BY <1>9, <2>1
    <2>4. PICK m \in D : norm[m] = norm[n] /\ code[m] = t.toCode[norm[n]]
      BY <1>9, <2>3
    <2>5. PICK r \in says[m] : r.code = code[m] /\ r.reason = reason[m]
      BY <1>12
    <2>6. r \in all
      BY <1>1, <1>6, <2>5 DEF all
    <2>7. norm[m] = NormalizeStatus(r.reason)
      BY <1>4, <2>5
    <2>8. r.code = c
      BY <1>17, <2>2, <2>4, <2>6, <2>7
    <2> QED
      BY <2>2, <2>3, <2>4, <2>5, <2>8 DEF StatusFromString
  <1>18. \A n \in DOMAIN lines : \A s \in says[n] :
            /\ Later(n, s) => StatusToString(t, s.code) = {s.reason}
            /\ Spelled(n, s) => StatusFromString(t, s.reason) = s.code
    BY <1>1, <1>14, <1>15
  <1>19. \A c \in DOMAIN t.toString :
            LET s == [code |-> c, reason |-> t.toString[c]]
            IN  (\A r \in all : Same(s, r) => r.code = c) => StatusFromString(t, s.reason) = c
    <2> TAKE c \in DOMAIN t.toString
    <2> DEFINE s == [code |-> c, reason |-> t.toString[c]]
    <2>1. s.reason = t.toString[c]
      OBVIOUS
    <2> HIDE DEF s
    <2>2. (\A r \in all : Same(s, r) => r.code = c) => StatusFromString(t, s.reason) = c
      BY <1>17, <2>1
    <2> QED
      BY <2>2 DEF s
  <1> QED
    BY <1>16, <1>18, <1>19, Zenon DEF KnowsStatuses, t, says, all

\* The tables of status codes that a run builds agree with the files and with
\* each other, however many lines it reads.
THEOREM StatusesLoaded == Spec => []StatusCorrect
  <1>1. TextInv => StatusCorrect
    <2> SUFFICES ASSUME TextInv, kind = "status"
                 PROVE  KnowsStatuses(input)
      BY DEF StatusCorrect
    <2>1. StatusLines \subseteq Seq(Nat)
      <3>1. <<52, 32, 78, 111, 35, 120>> \in Seq(Nat) /\ <<52, 32, 110, 79, 33, 10>> \in Seq(Nat)
        OBVIOUS
      <3>2. <<12, 53, 32, 78, 111, 11, 10>> \in Seq(Nat) /\ <<53, 53, 32, 32, 71, 111, 10>> \in Seq(Nat)
        OBVIOUS
      <3>3. <<52, 10>> \in Seq(Nat) /\ <<52>> \in Seq(Nat) /\ <<52, 32, 78, 10>> \in Seq(Nat)
        OBVIOUS
      <3>4. <<35, 52, 32, 78, 111>> \in Seq(Nat) /\ <<78, 111, 32, 52>> \in Seq(Nat)
        OBVIOUS
      <3>5. <<50, 49, 9, 71, 111>> \in Seq(Nat) /\ <<53, 48, 48, 32, 71, 111>> \in Seq(Nat) /\ <<32, 10>> \in Seq(Nat)
        OBVIOUS
      <3>6. ASSUME NEW x \in StatusLines PROVE x \in Seq(Nat)
        <4>1. \/ x = <<52, 32, 78, 111, 35, 120>> \/ x = <<52, 32, 110, 79, 33, 10>>
              \/ x = <<12, 53, 32, 78, 111, 11, 10>> \/ x = <<53, 53, 32, 32, 71, 111, 10>>
              \/ x = <<52, 10>> \/ x = <<52>> \/ x = <<52, 32, 78, 10>>
              \/ x = <<35, 52, 32, 78, 111>> \/ x = <<78, 111, 32, 52>>
              \/ x = <<50, 49, 9, 71, 111>> \/ x = <<53, 48, 48, 32, 71, 111>> \/ x = <<32, 10>>
          BY Zenon DEF StatusLines
        <4> QED
          BY <3>1, <3>2, <3>3, <3>4, <3>5, <4>1, ZenonT(60)
      <3> QED
        BY <3>6, Zenon
    <2>2. Parts["status"] = StatusLines
      BY Zenon DEF Parts
    <2>3. input \in Seq(Seq(Nat))
      BY <2>1, <2>2, SeqMonotonic DEF TextInv
    <2> QED
      BY <2>3, StatusesKnown
  <1> QED
    BY <1>1, TextInvInductive, PTL

-----------------------------------------------------------------------------
\* The characters of two texts one behind the other.
LEMMA Joined ==
    ASSUME NEW T, NEW s \in Seq(T), NEW t \in Seq(T)
    PROVE  /\ s \o t \in Seq(T) /\ Len(s \o t) = Len(s) + Len(t)
           /\ \A i \in 1..Len(s) : (s \o t)[i] = s[i]
           /\ \A i \in 1..Len(t) : (s \o t)[Len(s) + i] = t[i]
  <1>1. Len(s) \in Nat /\ Len(t) \in Nat
    OBVIOUS
  <1>2. /\ s \o t \in Seq(T) /\ Len(s \o t) = Len(s) + Len(t)
        /\ \A i \in 1..(Len(s) + Len(t)) : (s \o t)[i] = IF i <= Len(s) THEN s[i] ELSE t[i - Len(s)]
    BY ConcatProperties
  <1>3. ASSUME NEW i \in 1..Len(s) PROVE (s \o t)[i] = s[i]
    <2>1. i \in 1..(Len(s) + Len(t)) /\ i <= Len(s)
      BY <1>1
    <2> QED
      BY <1>2, <2>1
  <1>4. ASSUME NEW i \in 1..Len(t) PROVE (s \o t)[Len(s) + i] = t[i]
    <2>1. Len(s) + i \in 1..(Len(s) + Len(t)) /\ ~(Len(s) + i <= Len(s)) /\ Len(s) + i - Len(s) = i
      BY <1>1
    <2> QED
      BY <1>2, <2>1
  <1> QED
    BY <1>2, <1>3, <1>4

LEMMA JoinedTexts ==
    \A s, t \in Seq(Nat) :
       /\ s \o t \in Seq(Nat) /\ Len(s \o t) = Len(s) + Len(t)
       /\ \A i \in 1..Len(s) : (s \o t)[i] = s[i]
       /\ \A i \in 1..Len(t) : (s \o t)[Len(s) + i] = t[i]
  BY Joined

\* Texts with the same characters are the same.
LEMMA SameText ==
    ASSUME NEW T, NEW s \in Seq(T), NEW t \in Seq(T), Len(s) = Len(t), \A i \in 1..Len(s) : s[i] = t[i]
    PROVE  s = t
  BY SeqEqual

-----------------------------------------------------------------------------
\* The names an option can have in "--name=value".
OptionName == {name \in Seq(Nat) : \A i \in 1..Len(name) : name[i] # EqualsSign}

\* "--name", character by character.
LEMMA WithoutValue ==
    ASSUME NEW name \in Seq(Nat), NEW b, b = <<Dash, Dash>> \o name
    PROVE  /\ b \in Seq(Nat) /\ Len(b) = Len(name) + 2
           /\ b[1] = Dash /\ b[2] = Dash
           /\ \A i \in 1..Len(name) : b[2 + i] = name[i]
           /\ \A i \in 1..(Len(name) + 2) : i = 1 \/ i = 2 \/ \E j \in 1..Len(name) : i = 2 + j
  <1> DEFINE a == <<Dash, Dash>>
  <1>1. Dash \in Nat /\ Len(name) \in Nat
    BY DEF Dash
  <1>2. a \in Seq(Nat) /\ Len(a) = 2 /\ a[1] = Dash /\ a[2] = Dash
    BY <1>1
  <1>3. b = a \o name
    OBVIOUS
  <1> HIDE DEF a
  <1>0. name \in Seq(Nat) /\ a \in Seq(Nat)
    BY <1>2
  <1>4. /\ a \o name \in Seq(Nat) /\ Len(a \o name) = Len(a) + Len(name)
        /\ \A i \in 1..Len(a) : (a \o name)[i] = a[i]
        /\ \A i \in 1..Len(name) : (a \o name)[Len(a) + i] = name[i]
    BY <1>0, JoinedTexts, Zenon
  <1>5. b \in Seq(Nat) /\ Len(b) = Len(name) + 2
    BY <1>1, <1>2, <1>3, <1>4
  <1>6. b[1] = Dash /\ b[2] = Dash
    BY <1>2, <1>3, <1>4
  <1>7. \A i \in 1..Len(name) : b[2 + i] = name[i]
    BY <1>2, <1>3, <1>4
  <1>8. \A i \in 1..(Len(name) + 2) : i = 1 \/ i = 2 \/ \E j \in 1..Len(name) : i = 2 + j
    <2> TAKE i \in 1..(Len(name) + 2)
    <2>1. i = 1 \/ i = 2 \/ (i - 2 \in 1..Len(name) /\ i = 2 + (i - 2))
      BY <1>1
    <2> QED
      BY <2>1
  <1> QED
    BY <1>5, <1>6, <1>7, <1>8

\* The word d is "--", the name, "=" and the value, character by character.
Spelled(d, name, value) ==
  /\ d \in Seq(Nat) /\ Len(d) = Len(name) + Len(value) + 3
  /\ d[1] = Dash /\ d[2] = Dash
  /\ \A i \in 1..Len(name) : d[2 + i] = name[i]
  /\ d[Len(name) + 3] = EqualsSign
  /\ \A i \in 1..Len(value) : d[Len(name) + 3 + i] = value[i]
  /\ \A i \in 1..(Len(name) + Len(value) + 3) :
        \/ i = 1 \/ i = 2 \/ i = Len(name) + 3
        \/ \E j \in 1..Len(name) : i = 2 + j
        \/ \E j \in 1..Len(value) : i = Len(name) + 3 + j

\* "--name=value", character by character.
LEMMA WithValue ==
    ASSUME NEW name \in Seq(Nat), NEW value \in Seq(Nat), NEW d, d = <<Dash, Dash>> \o name \o <<EqualsSign>> \o value
    PROVE  Spelled(d, name, value)
  <1> DEFINE b == <<Dash, Dash>> \o name
             e == <<EqualsSign>>
             c == b \o e
  <1>1. EqualsSign \in Nat /\ Len(name) \in Nat /\ Len(value) \in Nat
    BY DEF EqualsSign
  <1>2. e \in Seq(Nat) /\ Len(e) = 1 /\ e[1] = EqualsSign
    BY <1>1
  <1>3. d = c \o value /\ c = b \o e
    OBVIOUS
  <1>4. /\ b \in Seq(Nat) /\ Len(b) = Len(name) + 2
        /\ b[1] = Dash /\ b[2] = Dash
        /\ \A i \in 1..Len(name) : b[2 + i] = name[i]
    BY WithoutValue
  <1> HIDE DEF b, c, e
  <1>5. /\ c \in Seq(Nat) /\ Len(c) = Len(b) + Len(e)
        /\ \A i \in 1..Len(b) : c[i] = b[i]
        /\ \A i \in 1..Len(e) : c[Len(b) + i] = e[i]
    BY <1>2, <1>3, <1>4, Joined
  <1>0. value \in Seq(Nat) /\ c \in Seq(Nat)
    BY <1>5
  <1>6. /\ d \in Seq(Nat) /\ Len(d) = Len(c) + Len(value)
        /\ \A i \in 1..Len(c) : d[i] = c[i]
        /\ \A i \in 1..Len(value) : d[Len(c) + i] = value[i]
    <2>1. /\ c \o value \in Seq(Nat) /\ Len(c \o value) = Len(c) + Len(value)
          /\ \A i \in 1..Len(c) : (c \o value)[i] = c[i]
          /\ \A i \in 1..Len(value) : (c \o value)[Len(c) + i] = value[i]
      BY <1>0, JoinedTexts, Zenon
    <2>2. d = c \o value
      BY <1>3
    <2> QED
      BY <2>1, <2>2, Zenon
  <1>7. Len(c) = Len(name) + 3 /\ Len(d) = Len(name) + Len(value) + 3
    BY <1>1, <1>2, <1>4, <1>5, <1>6
  <1>8. d[1] = Dash /\ d[2] = Dash
    <2>1. 1 \in 1..Len(b) /\ 2 \in 1..Len(b) /\ 1 \in 1..Len(c) /\ 2 \in 1..Len(c)
      BY <1>1, <1>4, <1>7
    <2> QED
      BY <1>4, <1>5, <1>6, <2>1
  <1>9. ASSUME NEW i \in 1..Len(name) PROVE d[2 + i] = name[i]
    <2>1. 2 + i \in 1..Len(b) /\ 2 + i \in 1..Len(c)
      BY <1>1, <1>4, <1>7
    <2> QED
      BY <1>4, <1>5, <1>6, <2>1
  <1>10. d[Len(name) + 3] = EqualsSign
    <2>1. Len(b) + 1 = Len(name) + 3 /\ Len(name) + 3 \in 1..Len(c) /\ 1 \in 1..Len(e)
      BY <1>1, <1>2, <1>4, <1>7
    <2>2. c[Len(b) + 1] = EqualsSign
      BY <1>2, <1>5, <2>1
    <2> QED
      BY <1>6, <2>1, <2>2
  <1>11. \A i \in 1..Len(value) : d[Len(name) + 3 + i] = value[i]
    BY <1>6, <1>7
  <1>12. ASSUME NEW i \in 1..(Len(name) + Len(value) + 3)
         PROVE  \/ i = 1 \/ i = 2 \/ i = Len(name) + 3
                \/ \E j \in 1..Len(name) : i = 2 + j
                \/ \E j \in 1..Len(value) : i = Len(name) + 3 + j
    <2>1. \/ i = 1 \/ i = 2 \/ i = Len(name) + 3
          \/ i - 2 \in 1..Len(name) /\ i = 2 + (i - 2)
          \/ i - (Len(name) + 3) \in 1..Len(value) /\ i = Len(name) + 3 + (i - (Len(name) + 3))
      BY <1>1
    <2> QED
      BY <2>1
  <1> QED
    BY <1>6, <1>7, <1>8, <1>9, <1>10, <1>11, <1>12, Zenon DEF Spelled

\* The "=" behind an option's name.
LEMMA NameEndIs ==
    ASSUME NEW word \in Seq(Nat)
    PROVE  /\ NameEnd(word) \in 3..(Len(word) + 1) \/ NameEnd(word) = Len(word) + 1
           /\ NameEnd(word) \in Int /\ NameEnd(word) <= Len(word) + 1
           /\ NameEnd(word) <= Len(word) => NameEnd(word) >= 3 /\ word[NameEnd(word)] = EqualsSign
           /\ \A i \in 3..Len(word) : i < NameEnd(word) => word[i] # EqualsSign
  <1> DEFINE S == {i \in 3..Len(word) : word[i] = EqualsSign} \cup {Len(word) + 1}
  <1>1. Len(word) \in Nat
    OBVIOUS
  <1>2. S \in SUBSET Nat /\ S # {}
    BY <1>1
  <1>3. NameEnd(word) = Min(S)
    BY DEF NameEnd
  <1>4. Min(S) \in S /\ \A y \in S : Min(S) <= y
    <2> HIDE DEF S
    <2> QED
      BY <1>2, Least
  <1>5. \A y \in S : y \in Int /\ y <= Len(word) + 1 /\ (y <= Len(word) => y >= 3 /\ word[y] = EqualsSign)
    BY <1>1
  <1>6. ASSUME NEW i \in 3..Len(word), i < Min(S) PROVE word[i] # EqualsSign
    <2>1. ASSUME word[i] = EqualsSign PROVE FALSE
      <3>1. i \in S
        BY <2>1
      <3> HIDE DEF S
      <3>2. Min(S) <= i /\ Min(S) \in Int /\ i \in Int
        BY <1>4, <1>5, <3>1
      <3> QED
        BY <1>6, <3>2
    <2> QED
      BY <2>1
  <1> HIDE DEF S
  <1> QED
    BY <1>1, <1>3, <1>4, <1>5, <1>6

\* The two ways to write a long option.
Assigned(name, value) == <<Dash, Dash>> \o name \o <<EqualsSign>> \o value
Named(name) == <<Dash, Dash>> \o name

LEMMA WritingsAre ==
    ASSUME NEW word, NEW name, NEW value
    PROVE  word \in Writings(name, value) <=>
              word = Assigned(name, value) \/ (value = <<>> /\ word = Named(name))
  <1> DEFINE rest == IF value = <<>> THEN {Named(name)} ELSE {}
  <1>1. Writings(name, value) = {Assigned(name, value)} \cup rest
    BY Zenon DEF Writings, Assigned, Named
  <1>2. word \in rest <=> value = <<>> /\ word = Named(name)
    <2>1. CASE value = <<>>
      BY <2>1
    <2>2. CASE value # <<>>
      <3>1. rest = {}
        BY <2>2, Zenon
      <3> QED
        BY <2>2, <3>1, Zenon
    <2> QED
      BY <2>1, <2>2, Zenon
  <1> HIDE DEF rest
  <1>3. word \in Writings(name, value) <=> word = Assigned(name, value) \/ word \in rest
    BY <1>1
  <1> QED
    BY <1>2, <1>3, Zenon

\* What "--name=value" and "--name" set.
LEMMA LongSetting ==
    ASSUME NEW word \in Seq(Nat), Len(word) > 2, word[1] = Dash, word[2] = Dash,
           NEW name \in OptionName, NEW value \in Seq(Nat)
    PROVE  SetsTo(word, name, value) <=>
              name = SubSeq(word, 3, NameEnd(word) - 1) /\ value = SubSeq(word, NameEnd(word) + 1, Len(word))
  <1> DEFINE e == NameEnd(word)
             L == Len(word)
             w == Assigned(name, value)
             x == Named(name)
  <1>1. name \in Seq(Nat) /\ (\A i \in 1..Len(name) : name[i] # EqualsSign) /\ Len(name) \in Nat /\ Len(value) \in Nat /\ L \in Nat
    BY DEF OptionName
  <1>2. SetsTo(word, name, value) <=> word = w \/ (value = <<>> /\ word = x)
    <2>1. word \in Writings(name, value) <=> word = w \/ (value = <<>> /\ word = x)
      BY WritingsAre
    <2> HIDE DEF w, x
    <2> QED
      BY <2>1, Zenon DEF SetsTo
  <1>3. /\ w \in Seq(Nat) /\ Len(w) = Len(name) + Len(value) + 3
        /\ w[1] = Dash /\ w[2] = Dash
        /\ \A i \in 1..Len(name) : w[2 + i] = name[i]
        /\ w[Len(name) + 3] = EqualsSign
        /\ \A i \in 1..Len(value) : w[Len(name) + 3 + i] = value[i]
        /\ \A i \in 1..(Len(name) + Len(value) + 3) :
              \/ i = 1 \/ i = 2 \/ i = Len(name) + 3
              \/ \E j \in 1..Len(name) : i = 2 + j
              \/ \E j \in 1..Len(value) : i = Len(name) + 3 + j
    <2>1. w = <<Dash, Dash>> \o name \o <<EqualsSign>> \o value
      BY Zenon DEF Assigned
    <2>2. Spelled(w, name, value)
      BY <1>1, <2>1, WithValue, Zenon
    <2> HIDE DEF w
    <2> QED
      BY <2>2, Zenon DEF Spelled
  <1>4. /\ x \in Seq(Nat) /\ Len(x) = Len(name) + 2
        /\ x[1] = Dash /\ x[2] = Dash
        /\ \A i \in 1..Len(name) : x[2 + i] = name[i]
        /\ \A i \in 1..(Len(name) + 2) : i = 1 \/ i = 2 \/ \E j \in 1..Len(name) : i = 2 + j
    BY <1>1, WithoutValue DEF Named
  <1>5. /\ e \in Int /\ e <= L + 1 /\ e >= 3
        /\ e <= L => word[e] = EqualsSign
        /\ \A i \in 3..L : i < e => word[i] # EqualsSign
    <2>1. /\ e \in Int /\ e <= L + 1 /\ (e <= L => e >= 3 /\ word[e] = EqualsSign)
          /\ \A i \in 3..L : i < e => word[i] # EqualsSign
      BY NameEndIs
    <2> HIDE DEF e
    <2> QED
      BY <1>1, <2>1
  <1> HIDE DEF e, L, w, x
  <1>6. PICK b \in Int, c \in Int : b = e - 1 /\ c = e + 1
    BY <1>5
  <1>7. 1 <= 3 /\ b <= L /\ 3 <= b + 1 /\ 3 \in Int
    BY <1>1, <1>5, <1>6
  <1>8. /\ SubSeq(word, 3, b) \in Seq(Nat) /\ Len(SubSeq(word, 3, b)) = b - 3 + 1
        /\ \A i \in 1..(b - 3 + 1) : SubSeq(word, 3, b)[i] = word[3 + i - 1]
    BY <1>7, Piece DEF L
  <1>9. e <= L => /\ SubSeq(word, c, L) \in Seq(Nat) /\ Len(SubSeq(word, c, L)) = L - c + 1
                  /\ \A i \in 1..(L - c + 1) : SubSeq(word, c, L)[i] = word[c + i - 1]
    <2>1. ASSUME e <= L PROVE L \in Int /\ 1 <= c /\ L <= Len(word) /\ c <= L + 1
      BY <1>1, <1>5, <1>6, <2>1 DEF L
    <2> SUFFICES ASSUME e <= L
                 PROVE  /\ SubSeq(word, c, L) \in Seq(Nat) /\ Len(SubSeq(word, c, L)) = L - c + 1
                        /\ \A i \in 1..(L - c + 1) : SubSeq(word, c, L)[i] = word[c + i - 1]
      OBVIOUS
    <2>2. c \in Int /\ L \in Int /\ 1 <= c /\ L <= Len(word) /\ c <= L + 1
      BY <1>6, <2>1
    <2> QED
      BY <2>2, Piece
  <1>10. e = L + 1 => SubSeq(word, c, L) = <<>>
    <2> SUFFICES ASSUME e = L + 1 PROVE SubSeq(word, c, L) = <<>>
      OBVIOUS
    <2>1. c > L /\ L \in Int /\ c \in Int
      BY <1>1, <1>6
    <2> QED
      BY <2>1, SubSeqEmpty
  <1>11. ASSUME word = w PROVE name = SubSeq(word, 3, b) /\ value = SubSeq(word, c, L)
    <2>1. L = Len(name) + Len(value) + 3
      BY <1>3, <1>11 DEF L
    <2>2. e = Len(name) + 3
      <3>1. Len(name) + 3 \in 3..L /\ word[Len(name) + 3] = EqualsSign
        BY <1>1, <1>3, <1>11, <2>1
      <3>2. ~(Len(name) + 3 < e)
        BY <1>5, <3>1
      <3>3. ASSUME e < Len(name) + 3 PROVE FALSE
        <4>1. PICK j \in 1..Len(name) : j = e - 2 /\ 2 + j = e
          BY <1>1, <1>5, <3>3
        <4>2. word[2 + j] = name[j]
          BY <1>3, <1>11
        <4>3. word[e] = EqualsSign
          BY <1>1, <1>5, <2>1, <3>3
        <4> QED
          BY <1>1, <4>1, <4>2, <4>3
      <3> QED
        BY <1>1, <1>5, <3>2, <3>3, SMTT(20)
    <2>3. name = SubSeq(word, 3, b)
      <3>1. Len(name) = b - 3 + 1
        BY <1>1, <1>6, <2>2
      <3>2. ASSUME NEW i \in 1..Len(name) PROVE name[i] = SubSeq(word, 3, b)[i]
        <4>1. i \in 1..(b - 3 + 1) /\ 3 + i - 1 = 2 + i
          BY <3>1
        <4>2. word[2 + i] = name[i]
          BY <1>3, <1>11
        <4> QED
          BY <1>8, <4>1, <4>2
      <3> QED
        BY <1>1, <1>8, <3>1, <3>2, SameText
    <2>4. value = SubSeq(word, c, L)
      <3>0. e <= L
        BY <1>1, <2>1, <2>2
      <3>1. Len(value) = L - c + 1
        BY <1>1, <1>6, <2>1, <2>2
      <3>2. ASSUME NEW i \in 1..Len(value) PROVE value[i] = SubSeq(word, c, L)[i]
        <4>1. i \in 1..(L - c + 1) /\ c + i - 1 = Len(name) + 3 + i
          BY <1>1, <1>6, <2>2, <3>1
        <4>2. word[Len(name) + 3 + i] = value[i]
          BY <1>3, <1>11
        <4> QED
          BY <1>9, <3>0, <4>1, <4>2
      <3> QED
        BY <1>9, <3>0, <3>1, <3>2, SameText
    <2> QED
      BY <2>3, <2>4
  <1>12. ASSUME value = <<>>, word = x PROVE name = SubSeq(word, 3, b) /\ value = SubSeq(word, c, L)
    <2>1. L = Len(name) + 2
      BY <1>4, <1>12 DEF L
    <2>2. e = L + 1
      <3>1. ASSUME e <= L PROVE FALSE
        <4>1. PICK j \in 1..Len(name) : j = e - 2 /\ 2 + j = e
          BY <1>1, <1>5, <2>1, <3>1
        <4>2. word[2 + j] = name[j]
          BY <1>4, <1>12
        <4>3. word[e] = EqualsSign
          BY <1>5, <3>1
        <4> QED
          BY <1>1, <4>1, <4>2, <4>3
      <3> QED
        BY <1>1, <1>5, <3>1
    <2>3. name = SubSeq(word, 3, b)
      <3>1. Len(name) = b - 3 + 1
        BY <1>1, <1>6, <2>1, <2>2
      <3>2. ASSUME NEW i \in 1..Len(name) PROVE name[i] = SubSeq(word, 3, b)[i]
        <4>1. i \in 1..(b - 3 + 1) /\ 3 + i - 1 = 2 + i
          BY <3>1
        <4>2. word[2 + i] = name[i]
          BY <1>4, <1>12
        <4> QED
          BY <1>8, <4>1, <4>2
      <3> QED
        BY <1>1, <1>8, <3>1, <3>2, SameText
    <2> QED
      BY <1>10, <1>12, <2>2, <2>3
  <1>13. ASSUME name = SubSeq(word, 3, b), value = SubSeq(word, c, L), e <= L PROVE word = w
    <2>1. Len(name) = e - 3 /\ Len(value) = L - e
      BY <1>1, <1>5, <1>6, <1>8, <1>9, <1>13
    <2>2. Len(word) = Len(w) /\ L = Len(name) + Len(value) + 3
      BY <1>1, <1>3, <1>5, <2>1 DEF L
    <2>3. ASSUME NEW i \in 1..Len(word) PROVE word[i] = w[i]
      <3>1. CASE i = 1 \/ i = 2
        BY <1>3, <3>1
      <3>2. CASE i = Len(name) + 3
        <4>1. i = e
          BY <1>1, <1>5, <2>1, <3>2, SMTT(20)
        <4> QED
          BY <1>3, <1>5, <1>13, <3>2, <4>1
      <3>3. ASSUME NEW j \in 1..Len(name), i = 2 + j PROVE word[i] = w[i]
        <4>1. j \in 1..(b - 3 + 1) /\ 3 + j - 1 = i
          BY <1>1, <1>5, <1>6, <2>1, <3>3
        <4>2. name[j] = word[i]
          BY <1>8, <1>13, <4>1
        <4> QED
          BY <1>3, <3>3, <4>2
      <3>4. ASSUME NEW j \in 1..Len(value), i = Len(name) + 3 + j PROVE word[i] = w[i]
        <4>1. j \in 1..(L - c + 1) /\ c + j - 1 = i
          BY <1>1, <1>5, <1>6, <2>1, <3>4
        <4>2. value[j] = word[i]
          BY <1>9, <1>13, <4>1
        <4> QED
          BY <1>3, <3>4, <4>2
      <3> QED
        BY <1>3, <2>2, <3>1, <3>2, <3>3, <3>4 DEF L
    <2> QED
      BY <1>3, <2>2, <2>3, SameText
  <1>14. ASSUME name = SubSeq(word, 3, b), value = SubSeq(word, c, L), e = L + 1 PROVE value = <<>> /\ word = x
    <2>1. Len(name) = L - 2
      BY <1>1, <1>5, <1>6, <1>8, <1>14
    <2>2. Len(word) = Len(x) /\ L = Len(name) + 2
      BY <1>1, <1>4, <1>5, <2>1 DEF L
    <2>3. ASSUME NEW i \in 1..Len(word) PROVE word[i] = x[i]
      <3>1. CASE i = 1 \/ i = 2
        BY <1>4, <3>1
      <3>2. ASSUME NEW j \in 1..Len(name), i = 2 + j PROVE word[i] = x[i]
        <4>1. j \in 1..(b - 3 + 1) /\ 3 + j - 1 = i
          BY <1>1, <1>5, <1>6, <1>14, <2>1, <3>2
        <4>2. name[j] = word[i]
          BY <1>8, <1>14, <4>1
        <4> QED
          BY <1>4, <3>2, <4>2
      <3> QED
        BY <1>4, <2>2, <3>1, <3>2 DEF L
    <2>4. word = x
      BY <1>4, <2>2, <2>3, SameText
    <2> QED
      BY <1>10, <1>14, <2>4
  <1>15. e <= L \/ e = L + 1
    BY <1>1, <1>5
  <1>16. SetsTo(word, name, value) <=> name = SubSeq(word, 3, b) /\ value = SubSeq(word, c, L)
    <2> DEFINE p == name = SubSeq(word, 3, b)
               q == value = SubSeq(word, c, L)
               none == value = <<>>
    <2>1. SetsTo(word, name, value) <=> word = w \/ (none /\ word = x)
      BY <1>2
    <2>2. (word = w => p /\ q) /\ (none /\ word = x => p /\ q)
      BY <1>11, <1>12
    <2>3. (p /\ q /\ e <= L => word = w) /\ (p /\ q /\ e = L + 1 => none /\ word = x)
      BY <1>13, <1>14
    <2> HIDE DEF p, q, none
    <2>4. SetsTo(word, name, value) <=> p /\ q
      <3>1. ASSUME SetsTo(word, name, value) PROVE p /\ q
        BY <2>1, <2>2, <3>1, Zenon
      <3>2. ASSUME p, q PROVE SetsTo(word, name, value)
        <4>1. CASE e <= L
          BY <2>1, <2>3, <3>2, <4>1, Zenon
        <4>2. CASE e = L + 1
          BY <2>1, <2>3, <3>2, <4>2, Zenon
        <4> QED
          BY <1>15, <4>1, <4>2
      <3> QED
        BY <3>1, <3>2, Zenon
    <2> QED
      BY <2>4 DEF p, q
  <1> QED
    BY <1>6, <1>16 DEF e, L

\* What "-abc" sets.
LEMMA ShortSetting ==
    ASSUME NEW word \in Seq(Nat), Len(word) > 0, word[1] = Dash, Len(word) < 2 \/ word[2] # Dash,
           NEW name \in OptionName, NEW value \in Seq(Nat)
    PROVE  SetsTo(word, name, value) <=> value = <<>> /\ name \in {<<word[i]>> : i \in 2..Len(word)}
  <1> DEFINE w == Assigned(name, value)
             x == Named(name)
  <1>1. name \in Seq(Nat) /\ Len(name) \in Nat /\ Len(value) \in Nat /\ Len(word) \in Nat
    BY DEF OptionName
  <1>2. SetsTo(word, name, value) <=>
           \/ (word = w \/ (value = <<>> /\ word = x)) /\ Len(word) > 2
           \/ value = <<>> /\ Len(name) = 1 /\ Len(word) > 1 /\ word[2] # Dash /\ name[1] \in ToSet(Tail(word))
    <2>1. word \in Writings(name, value) <=> word = w \/ (value = <<>> /\ word = x)
      BY WritingsAre
    <2> HIDE DEF w, x
    <2> QED
      BY <2>1, Zenon DEF SetsTo
  <1>3. w[2] = Dash /\ x[2] = Dash
    <2>1. w = <<Dash, Dash>> \o name \o <<EqualsSign>> \o value
      BY Zenon DEF Assigned
    <2>2. Spelled(w, name, value)
      BY <1>1, <2>1, WithValue, Zenon
    <2>3. x[2] = Dash
      BY <1>1, WithoutValue DEF Named
    <2> QED
      BY <2>2, <2>3, Zenon DEF Spelled
  <1> HIDE DEF w, x
  <1>4. ~((word = w \/ (value = <<>> /\ word = x)) /\ Len(word) > 2)
    BY <1>1, <1>3
  <1>5. word # <<>>
    OBVIOUS
  <1>6. Len(Tail(word)) = Len(word) - 1 /\ Tail(word) \in Seq(Nat) /\ \A i \in 1..(Len(word) - 1) : Tail(word)[i] = word[i + 1]
    BY <1>1, <1>5
  <1>7. DOMAIN Tail(word) = 1..(Len(word) - 1)
    BY <1>6
  <1>8. ASSUME Len(name) = 1, Len(word) > 1, name[1] \in ToSet(Tail(word)) PROVE name \in {<<word[i]>> : i \in 2..Len(word)}
    <2>1. PICK j \in 1..(Len(word) - 1) : name[1] = Tail(word)[j]
      BY <1>7, <1>8 DEF ToSet
    <2>2. PICK i \in 2..Len(word) : i = j + 1
      BY <1>1
    <2>3. name[1] = word[i]
      BY <1>6, <2>1, <2>2
    <2>4. name = <<word[i]>>
      <3>1. word[i] \in Nat
        BY <1>1, <2>2
      <3>2. name = <<name[1]>>
        BY <1>1, <1>8
      <3> QED
        BY <2>3, <3>2
    <2> QED
      BY <2>4
  <1>9. ASSUME name \in {<<word[i]>> : i \in 2..Len(word)}
        PROVE  Len(name) = 1 /\ Len(word) > 1 /\ word[2] # Dash /\ name[1] \in ToSet(Tail(word))
    <2>1. PICK i \in 2..Len(word) : name = <<word[i]>>
      BY <1>9
    <2>2. Len(word) > 1 /\ word[2] # Dash
      BY <1>1, <2>1
    <2>3. Len(name) = 1 /\ name[1] = word[i]
      BY <2>1
    <2>4. PICK j \in 1..(Len(word) - 1) : i = j + 1
      <3>1. i - 1 \in 1..(Len(word) - 1) /\ i = (i - 1) + 1
        BY <1>1
      <3> QED
        BY <3>1
    <2>5. name[1] = Tail(word)[j]
      BY <1>6, <2>3, <2>4
    <2> QED
      BY <1>7, <2>2, <2>3, <2>5 DEF ToSet
  <1>10. SetsTo(word, name, value) => value = <<>> /\ name \in {<<word[i]>> : i \in 2..Len(word)}
    BY <1>2, <1>4, <1>8
  <1>11. value = <<>> /\ name \in {<<word[i]>> : i \in 2..Len(word)} => SetsTo(word, name, value)
    BY <1>2, <1>9, Zenon
  <1> QED
    BY <1>10, <1>11

\* "--" sets nothing.
LEMMA StopSetsNothing ==
    ASSUME NEW word \in Seq(Nat), Len(word) = 2, word[2] = Dash, NEW name, NEW value
    PROVE  ~SetsTo(word, name, value)
  BY DEF SetsTo

-----------------------------------------------------------------------------
\* What cflare_options_load has in hand.
Loads ==
    [opts : UNION {[A -> Seq(Nat)] : A \in SUBSET Seq(Nat)}, args : Seq(Seq(Nat)), parsing : BOOLEAN]

\* The value of an option, if it has one.
Held(load, name) == IF Has(load, name) THEN {load.opts[name]} ELSE {}

\* Setting options.
Changed(out, load, names, value) ==
    /\ out \in Loads /\ out.args = load.args /\ out.parsing = load.parsing
    /\ \A name : Held(out, name) = IF name \in names THEN {value} ELSE Held(load, name)

LEMMA SetsIs ==
    ASSUME NEW load \in Loads, NEW names, \A n \in names : n \in Seq(Nat), NEW value \in Seq(Nat)
    PROVE  Changed(Sets(load, names, value), load, names, value)
  <1>1. PICK A \in SUBSET Seq(Nat) : load.opts \in [A -> Seq(Nat)]
    BY DEF Loads
  <1> DEFINE o == load.opts
             u == [n \in names \cup A |-> IF n \in names THEN value ELSE o[n]]
             r == [opts |-> u, args |-> load.args, parsing |-> load.parsing]
  <1>2. DOMAIN o = A /\ \A n \in A : o[n] \in Seq(Nat)
    BY <1>1
  <1>3. load = [opts |-> o, args |-> load.args, parsing |-> load.parsing]
    BY DEF Loads
  <1>4. Sets(load, names, value) = r
    <2>1. Sets(load, names, value) = [load EXCEPT !.opts = u]
      BY <1>2 DEF Sets
    <2> HIDE DEF u
    <2> QED
      BY <1>3, <2>1
  <1> HIDE DEF o
  <1>5. /\ u \in [names \cup A -> Seq(Nat)] /\ DOMAIN u = names \cup A
        /\ \A n \in names : u[n] = value
        /\ \A n \in A : n \notin names => u[n] = o[n]
    BY <1>2
  <1> HIDE DEF u
  <1>6. load.args \in Seq(Seq(Nat)) /\ load.parsing \in BOOLEAN
    BY DEF Loads
  <1>7. names \cup A \in SUBSET Seq(Nat)
    OBVIOUS
  <1>8. u \in UNION {[B -> Seq(Nat)] : B \in SUBSET Seq(Nat)}
    BY <1>5, <1>7
  <1>9. r \in Loads /\ r.opts = u /\ r.args = load.args /\ r.parsing = load.parsing
    BY <1>6, <1>8 DEF Loads
  <1> HIDE DEF r
  <1>10. ASSUME NEW name PROVE Held(r, name) = IF name \in names THEN {value} ELSE Held(load, name)
    <2>1. CASE name \in names
      BY <1>5, <1>9, <2>1 DEF Held, Has
    <2>2. CASE name \notin names /\ name \in A
      BY <1>2, <1>5, <1>9, <2>2 DEF Held, Has, o
    <2>3. CASE name \notin names /\ name \notin A
      BY <1>2, <1>5, <1>9, <2>3 DEF Held, Has, o
    <2> QED
      BY <2>1, <2>2, <2>3
  <1> QED
    BY <1>4, <1>9, <1>10 DEF Changed

\* A word that is looked at for options, and the values it gives one.
Optional(load, word) == load.parsing /\ Len(word) > 0 /\ word[1] = Dash
Settings(word, name) == {v \in Seq(Nat) : SetsTo(word, name, v)}

\* What a word changes.
LEMMA TakesIs ==
    ASSUME NEW load \in Loads, NEW word \in Seq(Nat)
    PROVE  /\ Takes(load, word) \in Loads
           /\ Takes(load, word).parsing <=> load.parsing /\ word # <<Dash, Dash>>
           /\ Takes(load, word).args = IF Optional(load, word) THEN load.args ELSE Append(load.args, word)
           /\ \A name \in OptionName :
                 Held(Takes(load, word), name) =
                    IF Optional(load, word) /\ Settings(word, name) # {} THEN Settings(word, name)
                    ELSE Held(load, name)
  <1> DEFINE out == Takes(load, word)
             opt == Optional(load, word)
             letters == {<<word[i]>> : i \in 2..Len(word)}
             L == Len(word)
  <1>1. L \in Nat /\ load.args \in Seq(Seq(Nat)) /\ load.parsing \in BOOLEAN
    BY DEF Loads
  <1>2. Dash \in Nat /\ Len(<<Dash, Dash>>) = 2 /\ <<Dash, Dash>>[1] = Dash /\ <<Dash, Dash>>[2] = Dash
    BY DEF Dash
  <1>3. CASE ~opt
    <2>1. out = [load EXCEPT !.args = Append(@, word)]
      BY <1>3, Zenon DEF Takes, Optional
    <2>2. load = [opts |-> load.opts, args |-> load.args, parsing |-> load.parsing] /\ load.opts \in UNION {[A -> Seq(Nat)] : A \in SUBSET Seq(Nat)}
      BY DEF Loads
    <2> DEFINE more == Append(load.args, word)
    <2>3. more \in Seq(Seq(Nat))
      BY <1>1
    <2> HIDE DEF more
    <2>4. out = [opts |-> load.opts, args |-> more, parsing |-> load.parsing]
      BY <2>1, <2>2 DEF more
    <2> HIDE DEF out
    <2>5. out \in Loads /\ out.opts = load.opts /\ out.args = more /\ out.parsing = load.parsing
      BY <1>1, <2>2, <2>3, <2>4 DEF Loads
    <2>6. \A name : Held(out, name) = Held(load, name)
      BY <2>5 DEF Held, Has
    <2>7. load.parsing => word # <<Dash, Dash>>
      BY <1>2, <1>3 DEF Optional
    <2> HIDE DEF opt
    <2>8. out.parsing <=> load.parsing /\ word # <<Dash, Dash>>
      BY <2>5, <2>7
    <2> QED
      BY <1>3, <2>5, <2>6, <2>8 DEF out, opt, more
  <1>4. CASE opt /\ (L < 2 \/ word[2] # Dash)
    <2>1. out = Sets(load, letters, <<>>)
      BY <1>4, Zenon DEF Takes, Optional
    <2>2. (\A n \in letters : n \in Seq(Nat)) /\ <<>> \in Seq(Nat)
      <3>1. \A i \in 2..L : word[i] \in Nat
        BY <1>1
      <3>2. \A i \in 2..L : <<word[i]>> \in Seq(Nat)
        BY <3>1
      <3>3. \A n \in letters : n \in Seq(Nat)
        BY <3>2, Zenon
      <3>4. <<>> \in Seq(Nat)
        OBVIOUS
      <3> QED
        BY <3>3, <3>4, Zenon
    <2> HIDE DEF letters, out
    <2>3. /\ out \in Loads /\ out.args = load.args /\ out.parsing = load.parsing
          /\ \A name : Held(out, name) = IF name \in letters THEN {<<>>} ELSE Held(load, name)
      <3>1. PICK none \in Seq(Nat) : none = <<>>
        BY <2>2
      <3>2. Changed(Sets(load, letters, none), load, letters, none)
        BY <2>2, SetsIs
      <3>3. out = Sets(load, letters, none)
        BY <2>1, <3>1
      <3> QED
        BY <3>1, <3>2, <3>3 DEF Changed
    <2>4. word # <<Dash, Dash>> /\ load.parsing
      BY <1>2, <1>4 DEF Optional
    <2>5. ASSUME NEW name \in OptionName
          PROVE Held(out, name) = IF Settings(word, name) # {} THEN Settings(word, name) ELSE Held(load, name)
      <3>1. \A v \in Seq(Nat) : SetsTo(word, name, v) <=> v = <<>> /\ name \in letters
        BY <1>4, ShortSetting DEF letters, Optional
      <3>2. CASE name \in letters
        <4>1. Settings(word, name) = {<<>>}
          BY <2>2, <3>1, <3>2 DEF Settings
        <4> QED
          BY <2>3, <3>2, <4>1
      <3>3. CASE name \notin letters
        <4>1. Settings(word, name) = {}
          BY <3>1, <3>3 DEF Settings
        <4> QED
          BY <2>3, <3>3, <4>1
      <3> QED
        BY <3>2, <3>3
    <2>6. out.parsing <=> load.parsing /\ word # <<Dash, Dash>>
      BY <2>3, <2>4
    <2> QED
      BY <1>4, <2>3, <2>5, <2>6 DEF out
  <1>5. CASE opt /\ L = 2 /\ word[2] = Dash
    <2>1. out = [load EXCEPT !.parsing = FALSE]
      <3>1. ~(L < 2 \/ word[2] # Dash)
        BY <1>1, <1>5
      <3> QED
        BY <1>5, <3>1, Zenon DEF Takes, Optional
    <2>2. load = [opts |-> load.opts, args |-> load.args, parsing |-> load.parsing] /\ load.opts \in UNION {[A -> Seq(Nat)] : A \in SUBSET Seq(Nat)}
      BY DEF Loads
    <2>4. out = [opts |-> load.opts, args |-> load.args, parsing |-> FALSE]
      BY <2>1, <2>2
    <2> HIDE DEF out
    <2>5. out \in Loads /\ out.opts = load.opts /\ out.args = load.args /\ out.parsing = FALSE
      BY <1>1, <2>2, <2>4 DEF Loads
    <2>6. \A name : Held(out, name) = Held(load, name)
      BY <2>5 DEF Held, Has
    <2>7. word = <<Dash, Dash>>
      <3>1. word[1] = Dash
        BY <1>5 DEF Optional
      <3> QED
        BY <1>1, <1>2, <1>5, <3>1
    <2>8. \A name \in OptionName : Settings(word, name) = {}
      BY <1>5, StopSetsNothing DEF Settings
    <2> QED
      BY <1>5, <2>5, <2>6, <2>7, <2>8 DEF out
  <1>6. CASE opt /\ L > 2 /\ word[2] = Dash
    <2>0. ~(L < 2) /\ L # 2 /\ L > 2 /\ word[2] = Dash
      <3> HIDE DEF opt, L
      <3> QED
        BY <1>1, <1>6
    <2> DEFINE e == NameEnd(word)
               nm == SubSeq(word, 3, e - 1)
               val == SubSeq(word, e + 1, L)
    <2>1. out = Sets(load, {nm}, val)
      <3>1. ~(L < 2 \/ word[2] # Dash) /\ L # 2
        BY <2>0, Zenon
      <3> QED
        BY <1>6, <3>1, Zenon DEF Takes, Optional
    <2>2. e \in Int /\ 3 <= e /\ e <= L + 1
      <3>1. e \in Int /\ e <= L + 1 /\ (e <= L => e >= 3)
        BY NameEndIs
      <3> HIDE DEF e
      <3> QED
        BY <1>1, <1>6, <3>1
    <2>3. nm \in Seq(Nat)
      <3> HIDE DEF e
      <3>1. PICK b \in Int : b = e - 1
        BY <2>2
      <3>2. 3 \in Int /\ 1 <= 3 /\ b <= L /\ 3 <= b + 1
        BY <1>1, <2>2, <3>1
      <3>3. SubSeq(word, 3, b) \in Seq(Nat)
        BY <3>2, Piece
      <3> QED
        BY <3>1, <3>3
    <2>4. val \in Seq(Nat)
      <3> HIDE DEF e
      <3>1. PICK c \in Int : c = e + 1
        BY <2>2
      <3>2. CASE c <= L + 1
        <4>1. L \in Int /\ 1 <= c /\ L <= L
          BY <1>1, <2>2, <3>1
        <4>2. SubSeq(word, c, L) \in Seq(Nat)
          BY <3>2, <4>1, Piece
        <4> QED
          BY <3>1, <4>2
      <3>3. CASE c > L + 1
        <4>1. L \in Int /\ L < c
          BY <1>1, <3>1, <3>3
        <4>2. SubSeq(word, c, L) = <<>>
          BY <4>1, SubSeqEmpty
        <4>3. <<>> \in Seq(Nat)
          OBVIOUS
        <4> QED
          BY <3>1, <4>2, <4>3, Zenon
      <3> QED
        BY <1>1, <3>1, <3>2, <3>3
    <2>5. ASSUME NEW name \in OptionName, NEW v \in Seq(Nat) PROVE SetsTo(word, name, v) <=> name = nm /\ v = val
      BY <1>6, LongSetting DEF Optional
    <2> HIDE DEF nm, val, out
    <2>6. /\ out \in Loads /\ out.args = load.args /\ out.parsing = load.parsing
          /\ \A name : Held(out, name) = IF name \in {nm} THEN {val} ELSE Held(load, name)
      <3> DEFINE A == {nm}
      <3>1. \A n \in A : n \in Seq(Nat)
        BY <2>3
      <3> HIDE DEF A
      <3>2. Changed(Sets(load, A, val), load, A, val)
        BY <2>4, <3>1, SetsIs
      <3>3. out = Sets(load, A, val)
        BY <2>1 DEF A
      <3> QED
        BY <3>2, <3>3 DEF A, Changed
    <2>7. word # <<Dash, Dash>> /\ load.parsing
      <3>1. Len(word) # 2
        BY <2>0
      <3>2. load.parsing
        BY <1>6 DEF Optional
      <3> QED
        BY <1>2, <3>1, <3>2
    <2>8. ASSUME NEW name \in OptionName
          PROVE Held(out, name) = IF Settings(word, name) # {} THEN Settings(word, name) ELSE Held(load, name)
      <3>2. CASE name = nm
        <4>1. Settings(word, name) = {val}
          BY <2>4, <2>5, <3>2 DEF Settings
        <4> QED
          BY <2>6, <3>2, <4>1
      <3>3. CASE name # nm
        <4>1. Settings(word, name) = {}
          BY <2>5, <3>3 DEF Settings
        <4> QED
          BY <2>6, <3>3, <4>1
      <3> QED
        BY <3>2, <3>3
    <2>9. out.parsing <=> load.parsing /\ word # <<Dash, Dash>>
      BY <2>6, <2>7
    <2> QED
      BY <1>6, <2>6, <2>8, <2>9 DEF out
  <1> HIDE DEF opt, L
  <1>7. L < 2 \/ word[2] # Dash \/ (L = 2 /\ word[2] = Dash) \/ (L > 2 /\ word[2] = Dash)
    BY <1>1
  <1> QED
    BY <1>3, <1>4, <1>5, <1>6, <1>7, Zenon

LEMMA NothingTyped == Nothing \in Loads /\ Nothing.args = <<>> /\ Nothing.parsing = TRUE /\ \A name : Held(Nothing, name) = {}
  <1>1. <<>> \in [{} -> Seq(Nat)] /\ DOMAIN <<>> = {} /\ <<>> \in Seq(Seq(Nat))
    OBVIOUS
  <1>2. {} \in SUBSET Seq(Nat)
    OBVIOUS
  <1>3. <<>> \in UNION {[A -> Seq(Nat)] : A \in SUBSET Seq(Nat)}
    BY <1>1, <1>2
  <1>4. Nothing.opts = <<>> /\ Nothing.args = <<>> /\ Nothing.parsing = TRUE
    BY DEF Nothing
  <1>5. Nothing \in Loads
    BY <1>1, <1>3 DEF Nothing, Loads
  <1>6. \A name : Held(Nothing, name) = {}
    BY <1>1, <1>4 DEF Held, Has
  <1> QED
    BY <1>4, <1>5, <1>6

\* The loading of words, step by step.
LEMMA OptionSteps ==
    ASSUME NEW words \in Seq(Seq(Nat))
    PROVE  \E f \in [0..Len(words) -> Loads] :
              /\ f[0] = Nothing /\ f[Len(words)] = OptionsLoad(words)
              /\ \A k \in 1..Len(words) : f[k] = Takes(f[k - 1], words[k])
  <1> DEFINE N == Len(words)
             step == [k \in 1..N |-> [r \in Loads |-> Takes(r, words[k])]]
             Equation(g) == g = [S \in SUBSET (1..N) |->
                                   IF S = {} THEN Nothing ELSE Takes(g[S \ {Max(S)}], words[Max(S)])]
             h == CHOOSE g : Equation(g)
  <1>1. N \in Nat /\ DOMAIN words = 1..N /\ \A k \in 1..N : words[k] \in Seq(Nat)
    OBVIOUS
  <1>2. \A r \in Loads, word \in Seq(Nat) : Takes(r, word) \in Loads
    BY TakesIs
  <1>3. Nothing \in Loads
    BY NothingTyped
  <1>4. step \in [1..N -> [Loads -> Loads]]
    BY <1>1, <1>2
  <1>5. \A k \in 1..N, r \in Loads : step[k][r] = Takes(r, words[k])
    OBVIOUS
  <1> HIDE DEF N, step
  <1>6. PICK g : FoldedBy(g, N, Loads, Nothing, step)
    BY <1>1, <1>3, <1>4, FoldExists
  <1>7. ASSUME NEW S \in SUBSET (1..N)
        PROVE  g[S] = IF S = {} THEN Nothing ELSE Takes(g[S \ {Max(S)}], words[Max(S)])
    <2>1. CASE S = {}
      BY <1>6, <2>1 DEF FoldedBy
    <2>2. CASE S # {}
      <3>1. S \in SUBSET (0..N)
        BY <1>1
      <3>2. Max(S) \in 1..N
        BY <1>1, <2>2, <3>1, Greatest
      <3>3. S \ {Max(S)} \in SUBSET (1..N)
        OBVIOUS
      <3>4. g[S \ {Max(S)}] \in Loads
        BY <1>6, <3>3 DEF FoldedBy
      <3>5. g[S] = step[Max(S)][g[S \ {Max(S)}]]
        BY <1>6, <2>2 DEF FoldedBy
      <3> QED
        BY <1>5, <2>2, <3>2, <3>4, <3>5
    <2> QED
      BY <2>1, <2>2
  <1>8. Equation(g)
    <2>1. g = [S \in SUBSET (1..N) |-> g[S]]
      BY <1>6 DEF FoldedBy
    <2> QED
      BY <1>7, <2>1, Zenon
  <1>9. Equation(h)
    BY <1>8, Zenon
  <1>10. OptionsLoad(words) = h[1..N]
    BY <1>1, Zenon DEF OptionsLoad, FoldLeft, MapThenFoldSet
  <1>11. \A S \in SUBSET (1..N) :
            h[S] = IF S = {} THEN Nothing ELSE Takes(h[S \ {Max(S)}], words[Max(S)])
    <2> DEFINE e == [S \in SUBSET (1..N) |->
                       IF S = {} THEN Nothing ELSE Takes(h[S \ {Max(S)}], words[Max(S)])]
    <2>1. h = e
      BY <1>9
    <2>2. \A S \in SUBSET (1..N) :
             e[S] = IF S = {} THEN Nothing ELSE Takes(h[S \ {Max(S)}], words[Max(S)])
      OBVIOUS
    <2> HIDE DEF e, h
    <2> QED
      BY <2>1, <2>2
  <1> HIDE DEF h
  <1> DEFINE f == [k \in 0..N |-> h[1..k]]
  <1>12. \A k \in 0..N : f[k] = h[1..k] /\ 1..k \in SUBSET (1..N)
    BY <1>1
  <1>13. f[0] = Nothing
    <2>1. 1..0 = {} /\ 0 \in 0..N
      BY <1>1
    <2> QED
      BY <1>11, <1>12, <2>1
  <1> HIDE DEF f
  <1>14. ASSUME NEW k \in 1..N PROVE f[k] = Takes(f[k - 1], words[k])
    <2>1. k \in 0..N /\ k - 1 \in 0..N /\ k \in Nat /\ k # 0
      BY <1>1
    <2>2. Max(1..k) = k /\ (1..k) \ {k} = 1..(k - 1) /\ 1..k # {}
      BY <2>1, PrefixEnd
    <2>3. h[1..k] = Takes(h[1..(k - 1)], words[k])
      BY <1>11, <1>12, <2>1, <2>2
    <2> QED
      BY <1>12, <2>1, <2>3
  <1>15. \A k \in 0..N : f[k] \in Loads
    <2> DEFINE P == {k \in 0..N : f[k] \in Loads}
    <2>1. 0 \in P
      BY <1>1, <1>3, <1>13
    <2>2. ASSUME NEW k \in 0..N, k \in P, k < N PROVE k + 1 \in P
      <3>1. k + 1 \in 1..N /\ k + 1 \in 0..N /\ k + 1 - 1 = k
        BY <1>1, <2>2
      <3>2. f[k + 1] = Takes(f[k], words[k + 1])
        BY <1>14, <3>1
      <3>3. f[k + 1] \in Loads
        BY <1>1, <1>2, <2>2, <3>1, <3>2
      <3> QED
        BY <3>1, <3>3
    <2>3. 0..N \subseteq P
      <3> HIDE DEF P
      <3> QED
        BY <1>1, <2>1, <2>2, Induction
    <2> QED
      BY <2>3
  <1>16. f \in [0..N -> Loads] /\ f[N] = OptionsLoad(words)
    <2>1. f \in [0..N -> Loads]
      BY <1>15 DEF f
    <2>2. N \in 0..N
      BY <1>1
    <2> QED
      BY <1>10, <1>12, <2>1, <2>2
  <1> QED
    BY <1>13, <1>14, <1>16 DEF N

\* If every set that is not empty replaces what is held, the last one is held.
Replaces(N, G, H) == H[0] = {} /\ \A k \in 1..N : H[k] = IF G[k] # {} THEN G[k] ELSE H[k - 1]
HoldsLast(N, G, H) ==
    \A v : v \in H[N] <=> \E i \in 1..N : v \in G[i] /\ \A j \in (i + 1)..N : G[j] = {}

LEMMA LastGiven ==
    ASSUME NEW N \in Nat, NEW G, NEW H, Replaces(N, G, H)
    PROVE  HoldsLast(N, G, H)
  <1>0. H[0] = {} /\ \A k \in 1..N : H[k] = IF G[k] # {} THEN G[k] ELSE H[k - 1]
    BY DEF Replaces
  <1> DEFINE Good(k) == \A v : v \in H[k] <=> \E i \in 1..k : v \in G[i] /\ \A j \in (i + 1)..k : G[j] = {}
             P == {k \in 0..N : Good(k)}
  <1>1. 0 \in P
    <2>1. 1..0 = {} /\ 0 \in 0..N
      OBVIOUS
    <2>2. Good(0)
      BY <1>0, <2>1
    <2> QED
      BY <2>1, <2>2
  <1>2. ASSUME NEW k \in 0..N, k \in P, k < N PROVE k + 1 \in P
    <2>1. k \in Nat /\ k + 1 \in 1..N /\ k + 1 \in 0..N /\ k + 1 - 1 = k
      BY <1>2
    <2>2. PICK m \in Int : m = k + 1
      BY <2>1
    <2>3. H[m] = IF G[m] # {} THEN G[m] ELSE H[k]
      BY <1>0, <2>1, <2>2
    <2>4. Good(k)
      BY <1>2
    <2>5. 1..m = (1..k) \cup {m} /\ (m + 1)..m = {} /\ \A i \in 1..k : (i + 1)..m = ((i + 1)..k) \cup {m}
      BY <2>1, <2>2
    <2>6. ASSUME NEW v PROVE v \in H[m] <=> \E i \in 1..m : v \in G[i] /\ \A j \in (i + 1)..m : G[j] = {}
      <3>1. CASE G[m] # {}
        <4>1. ASSUME v \in G[m] PROVE \E i \in 1..m : v \in G[i] /\ \A j \in (i + 1)..m : G[j] = {}
          <5>1. m \in 1..m /\ \A j \in (m + 1)..m : G[j] = {}
            BY <2>5
          <5> QED
            BY <4>1, <5>1
        <4>2. ASSUME NEW i \in 1..m, v \in G[i], \A j \in (i + 1)..m : G[j] = {} PROVE v \in G[m]
          <5>1. CASE i = m
            BY <4>2, <5>1
          <5>2. CASE i \in 1..k
            <6>1. m \in (i + 1)..m
              BY <2>5, <5>2
            <6> QED
              BY <3>1, <4>2, <6>1
          <5> QED
            BY <2>5, <5>1, <5>2
        <4> QED
          BY <2>3, <3>1, <4>1, <4>2
      <3>2. CASE G[m] = {}
        <4>1. ASSUME NEW i \in 1..k, v \in G[i], \A j \in (i + 1)..k : G[j] = {}
              PROVE  \E x \in 1..m : v \in G[x] /\ \A j \in (x + 1)..m : G[j] = {}
          <5>1. i \in 1..m /\ \A j \in (i + 1)..m : G[j] = {}
            BY <2>5, <3>2, <4>1
          <5> QED
            BY <4>1, <5>1
        <4>2. ASSUME NEW i \in 1..m, v \in G[i], \A j \in (i + 1)..m : G[j] = {}
              PROVE  \E x \in 1..k : v \in G[x] /\ \A j \in (x + 1)..k : G[j] = {}
          <5>1. i # m
            BY <3>2, <4>2
          <5>2. i \in 1..k
            BY <2>5, <5>1
          <5>3. \A j \in (i + 1)..k : G[j] = {}
            BY <2>5, <4>2, <5>2
          <5> QED
            BY <4>2, <5>2, <5>3
        <4>3. v \in H[k] <=> \E i \in 1..k : v \in G[i] /\ \A j \in (i + 1)..k : G[j] = {}
          BY <2>4
        <4> QED
          BY <2>3, <3>2, <4>1, <4>2, <4>3
      <3> QED
        BY <3>1, <3>2
    <2>7. Good(m)
      BY <2>6
    <2> HIDE DEF Good
    <2> QED
      BY <2>1, <2>2, <2>7
  <1>3. 0..N \subseteq P
    <2> HIDE DEF P
    <2> QED
      BY <1>1, <1>2, Induction
  <1>4. Good(N)
    BY <1>3
  <1> QED
    BY <1>4 DEF HoldsLast

\* The first "--".
LEMMA StopIs ==
    ASSUME NEW words \in Seq(Seq(Nat))
    PROVE  /\ Stop(words) \in Int /\ 1 <= Stop(words) /\ Stop(words) <= Len(words) + 1
           /\ Stop(words) <= Len(words) => words[Stop(words)] = <<Dash, Dash>>
           /\ \A i \in 1..Len(words) : i < Stop(words) => words[i] # <<Dash, Dash>>
  <1> DEFINE stop == <<Dash, Dash>>
             S == {i \in DOMAIN words : words[i] = stop} \cup {Len(words) + 1}
  <1> HIDE DEF stop
  <1>1. Len(words) \in Nat /\ DOMAIN words = 1..Len(words)
    OBVIOUS
  <1>2. S \in SUBSET Nat /\ S # {}
    BY <1>1
  <1>3. Stop(words) = Min(S)
    BY DEF Stop, stop
  <1>4. Min(S) \in S /\ \A y \in S : Min(S) <= y
    <2> HIDE DEF S
    <2> QED
      BY <1>2, Least
  <1>5. \A y \in S : y \in Int /\ 1 <= y /\ y <= Len(words) + 1 /\ (y <= Len(words) => words[y] = stop)
    BY <1>1
  <1>6. ASSUME NEW i \in 1..Len(words), i < Min(S), words[i] = stop PROVE FALSE
    <2>1. i \in S
      BY <1>1, <1>6
    <2> HIDE DEF S
    <2>2. Min(S) <= i /\ Min(S) \in Int /\ i \in Int
      BY <1>4, <1>5, <2>1
    <2> QED
      BY <1>6, <2>2
  <1> HIDE DEF S
  <1> QED
    BY <1>3, <1>4, <1>5, <1>6 DEF stop

\* A function that goes through the words as the loop of cflare_options_load does.
Loading(f, words) ==
    /\ f \in [0..Len(words) -> Loads] /\ f[0] = Nothing
    /\ \A k \in 1..Len(words) : f[k] = Takes(f[k - 1], words[k])

\* Options are looked for up to the first "--".
LEMMA ParsingIs ==
    ASSUME NEW words \in Seq(Seq(Nat)), NEW f, Loading(f, words)
    PROVE  \A k \in 0..Len(words) : f[k].parsing <=> k < Stop(words)
  <1> DEFINE N == Len(words)
             st == Stop(words)
             P == {k \in 0..N : f[k].parsing <=> k < st}
  <1>1. N \in Nat /\ \A k \in 1..N : words[k] \in Seq(Nat)
    OBVIOUS
  <1>2. /\ st \in Int /\ 1 <= st /\ st <= N + 1
        /\ st <= N => words[st] = <<Dash, Dash>>
        /\ \A i \in 1..N : i < st => words[i] # <<Dash, Dash>>
    BY StopIs
  <1>3. \A k \in 0..N : f[k] \in Loads
    BY DEF Loading
  <1> HIDE DEF st
  <1>4. 0 \in P
    BY <1>1, <1>2, NothingTyped DEF Loading
  <1>5. ASSUME NEW k \in 0..N, k \in P, k < N PROVE k + 1 \in P
    <2>1. k + 1 \in 1..N /\ k + 1 \in 0..N /\ k + 1 - 1 = k /\ k \in Int
      BY <1>1, <1>5
    <2>2. f[k + 1] = Takes(f[k], words[k + 1]) /\ f[k] \in Loads /\ words[k + 1] \in Seq(Nat)
      BY <1>1, <1>3, <2>1 DEF Loading
    <2>3. f[k + 1].parsing <=> f[k].parsing /\ words[k + 1] # <<Dash, Dash>>
      <3> DEFINE load == f[k]
                 word == words[k + 1]
      <3>1. load \in Loads /\ word \in Seq(Nat)
        BY <2>2
      <3> HIDE DEF load, word
      <3>2. Takes(load, word).parsing <=> load.parsing /\ word # <<Dash, Dash>>
        BY <3>1, TakesIs, Zenon
      <3> QED
        BY <2>2, <3>2, Zenon DEF load, word
    <2>4. f[k].parsing <=> k < st
      BY <1>5
    <2>5. ASSUME k + 1 < st PROVE words[k + 1] # <<Dash, Dash>> /\ k < st
      <3>1. k < st
        BY <1>1, <1>2, <2>1, <2>5, SMTT(20)
      <3>2. words[k + 1] # <<Dash, Dash>>
        BY <1>1, <1>2, <2>1, <2>5, SMTT(20)
      <3> QED
        BY <3>1, <3>2
    <2>6. ASSUME k < st, ~(k + 1 < st) PROVE words[k + 1] = <<Dash, Dash>>
      <3>1. k + 1 = st /\ st <= N
        BY <1>1, <1>2, <2>1, <2>6
      <3> QED
        BY <1>2, <3>1
    <2>7. f[k + 1].parsing <=> k + 1 < st
      BY <2>3, <2>4, <2>5, <2>6, Zenon
    <2> QED
      BY <2>1, <2>7
  <1>6. 0..N \subseteq P
    <2> HIDE DEF P
    <2> QED
      BY <1>1, <1>4, <1>5, Induction
  <1> QED
    BY <1>6 DEF st

\* Which words are options and which are arguments.
LEMMA WordsAre ==
    ASSUME NEW words \in Seq(Seq(Nat)), NEW f, Loading(f, words), NEW k \in 1..Len(words)
    PROVE  /\ f[k - 1] \in Loads /\ words[k] \in Seq(Nat)
           /\ IsArgument(words, k) <=> ~Optional(f[k - 1], words[k])
           /\ IsOption(words, k) => Optional(f[k - 1], words[k])
           /\ Optional(f[k - 1], words[k]) /\ ~IsOption(words, k) => \A name, v : ~SetsTo(words[k], name, v)
  <1> DEFINE w == words[k]
             st == Stop(words)
             dash == Len(w) > 0 /\ w[1] = Dash
  <1>1. k \in Int /\ k - 1 \in 0..Len(words) /\ w \in Seq(Nat) /\ Len(words) \in Nat /\ Len(w) \in Nat
    OBVIOUS
  <1>2. /\ st \in Int /\ 1 <= st /\ st <= Len(words) + 1
        /\ st <= Len(words) => words[st] = <<Dash, Dash>>
    BY StopIs
  <1>3. f[k - 1] \in Loads /\ (f[k - 1].parsing <=> k - 1 < st)
    BY <1>1, ParsingIs DEF Loading
  <1> HIDE DEF st
  <1>4. k - 1 < st <=> (k < st \/ k = st)
    BY <1>1, <1>2
  <1>5. k = st => Len(w) = 2 /\ w[1] = Dash /\ w[2] = Dash
    <2> SUFFICES ASSUME k = st PROVE Len(w) = 2 /\ w[1] = Dash /\ w[2] = Dash
      OBVIOUS
    <2>1. w = <<Dash, Dash>>
      BY <1>1, <1>2
    <2> QED
      BY <2>1
  <1>6. k = st => dash
    BY <1>5
  <1> HIDE DEF w
  <1>7. Optional(f[k - 1], w) <=> (k < st \/ k = st) /\ dash
    BY <1>3, <1>4, Zenon DEF Optional
  <1>8. IsOption(words, k) <=> k < st /\ dash
    BY Zenon DEF IsOption, st, w
  <1>9. IsArgument(words, k) <=> k > st \/ (k < st /\ ~IsOption(words, k))
    BY Zenon DEF IsArgument, st
  <1>10. k > st <=> ~(k < st \/ k = st)
    BY <1>1, <1>2
  <1>11. k < st => k # st
    BY <1>1, <1>2
  <1> HIDE DEF dash
  <1>12. IsArgument(words, k) <=> ~Optional(f[k - 1], w)
    BY <1>6, <1>7, <1>8, <1>9, <1>10, <1>11, Zenon
  <1>13. Optional(f[k - 1], w) /\ ~IsOption(words, k) => k = st
    BY <1>7, <1>8, Zenon
  <1>14. IsOption(words, k) => Optional(f[k - 1], w)
    BY <1>7, <1>8, Zenon
  <1>15. k = st => \A name, v : ~SetsTo(w, name, v)
    BY <1>1, <1>5, StopSetsNothing
  <1> QED
    BY <1>1, <1>3, <1>12, <1>13, <1>14, <1>15 DEF w

\* The arguments among the first k words, in order.
ArgumentsTo(words, k) == {i \in 1..k : IsArgument(words, i)}
InOrder(at, args, words, k) ==
    /\ at \in [1..Len(args) -> ArgumentsTo(words, k)]
    /\ \A n, m \in 1..Len(args) : n < m => at[n] < at[m]
    /\ \A i \in ArgumentsTo(words, k) : \E n \in 1..Len(args) : at[n] = i
    /\ \A n \in 1..Len(args) : args[n] = words[at[n]]
    /\ IsFiniteSet(ArgumentsTo(words, k)) /\ Cardinality(ArgumentsTo(words, k)) = Len(args)

LEMMA ArgumentAdded ==
    ASSUME NEW words, NEW k \in Nat, NEW args \in Seq(Seq(Nat)), NEW at, InOrder(at, args, words, k),
           words[k + 1] \in Seq(Nat), IsArgument(words, k + 1)
    PROVE  \E u : InOrder(u, Append(args, words[k + 1]), words, k + 1)
  <1> DEFINE L == Len(args)
             A == ArgumentsTo(words, k)
             m == k + 1
             B == ArgumentsTo(words, m)
             more == Append(args, words[m])
             u == [n \in 1..(L + 1) |-> IF n <= L THEN at[n] ELSE m]
  <1>1. L \in Nat /\ m \in Nat
    OBVIOUS
  <1>2. more \in Seq(Seq(Nat)) /\ Len(more) = L + 1 /\ more[L + 1] = words[m] /\ \A n \in 1..L : more[n] = args[n]
    OBVIOUS
  <1>3. B = A \cup {m}
    <2>1. \A i : i \in 1..m <=> i \in 1..k \/ i = m
      OBVIOUS
    <2> QED
      BY <2>1 DEF ArgumentsTo
  <1>4. \A i \in A : i < m /\ i \in Int
    BY DEF ArgumentsTo
  <1>5. m \notin A
    BY <1>1, <1>4
  <1> HIDE DEF A, B, m, more, L
  <1>6. /\ at \in [1..L -> A]
        /\ \A n, j \in 1..L : n < j => at[n] < at[j]
        /\ \A i \in A : \E n \in 1..L : at[n] = i
        /\ \A n \in 1..L : args[n] = words[at[n]]
        /\ IsFiniteSet(A) /\ Cardinality(A) = L
    BY DEF InOrder, A, L
  <1>7. \A n \in 1..(L + 1) : (n \in 1..L /\ n <= L /\ n # L + 1) \/ (n = L + 1 /\ ~(n <= L))
    BY <1>1
  <1>8. (\A n \in 1..L : u[n] = at[n] /\ n \in 1..(L + 1)) /\ u[L + 1] = m /\ L + 1 \in 1..(L + 1)
    BY <1>1
  <1>9. u \in [1..(L + 1) -> B]
    <2>1. \A n \in 1..(L + 1) : (IF n <= L THEN at[n] ELSE m) \in B
      BY <1>3, <1>6, <1>7
    <2> QED
      BY <2>1
  <1> HIDE DEF u
  <1>10. ASSUME NEW n \in 1..(L + 1), NEW j \in 1..(L + 1), n < j PROVE u[n] < u[j]
    <2>1. n \in 1..L
      BY <1>1, <1>10
    <2>2. CASE j \in 1..L
      BY <1>6, <1>8, <1>10, <2>1, <2>2
    <2>3. CASE j = L + 1
      <3>1. at[n] \in A
        BY <1>6, <2>1
      <3> QED
        BY <1>4, <1>8, <2>1, <2>3, <3>1
    <2> QED
      BY <1>7, <2>2, <2>3
  <1>11. ASSUME NEW i \in B PROVE \E n \in 1..(L + 1) : u[n] = i
    <2>1. CASE i = m
      BY <1>8, <2>1
    <2>2. CASE i \in A
      BY <1>6, <1>8, <2>2
    <2> QED
      BY <1>3, <2>1, <2>2
  <1>12. ASSUME NEW n \in 1..(L + 1) PROVE more[n] = words[u[n]]
    <2>1. CASE n \in 1..L
      BY <1>2, <1>6, <1>8, <2>1
    <2>2. CASE n = L + 1
      BY <1>2, <1>8, <2>2
    <2> QED
      BY <1>7, <2>1, <2>2
  <1>13. IsFiniteSet(B) /\ Cardinality(B) = L + 1
    <2>1. IsFiniteSet(A \cup {m}) /\ Cardinality(A \cup {m}) = Cardinality(A) + 1
      BY <1>5, <1>6, FS_AddElement
    <2> QED
      BY <1>3, <1>6, <2>1
  <1>14. InOrder(u, more, words, m)
    BY <1>2, <1>9, <1>10, <1>11, <1>12, <1>13 DEF InOrder, B
  <1> QED
    BY <1>14 DEF more, m

LEMMA ArgumentsInOrder ==
    ASSUME NEW words \in Seq(Seq(Nat)), NEW f, Loading(f, words)
    PROVE  \E at : InOrder(at, f[Len(words)].args, words, Len(words))
  <1> DEFINE N == Len(words)
             P == {k \in 0..N : \E at : InOrder(at, f[k].args, words, k)}
  <1>1. N \in Nat /\ \A k \in 0..N : f[k] \in Loads /\ f[k].args \in Seq(Seq(Nat))
    <2>1. \A k \in 0..N : f[k] \in Loads
      BY DEF Loading
    <2>2. \A load \in Loads : load.args \in Seq(Seq(Nat))
      BY DEF Loads
    <2> QED
      BY <2>1, <2>2
  <1>2. 0 \in P
    <2>1. ArgumentsTo(words, 0) = {}
      BY DEF ArgumentsTo
    <2>2. f[0].args = <<>> /\ Len(<<>>) = 0 /\ 1..0 = {}
      BY NothingTyped DEF Loading
    <2>3. IsFiniteSet({}) /\ Cardinality({}) = 0
      BY FS_EmptySet
    <2>4. <<>> \in [1..0 -> {}]
      BY <2>2
    <2>5. InOrder(<<>>, f[0].args, words, 0)
      BY <2>1, <2>2, <2>3, <2>4 DEF InOrder
    <2> QED
      BY <1>1, <2>5
  <1>3. ASSUME NEW k \in 0..N, k \in P, k < N PROVE k + 1 \in P
    <2>1. k \in Nat /\ k + 1 \in 1..N /\ k + 1 \in 0..N /\ k + 1 - 1 = k
      BY <1>1, <1>3
    <2>2. PICK at : InOrder(at, f[k].args, words, k)
      BY <1>3
    <2>3. f[k + 1] = Takes(f[k], words[k + 1]) /\ f[k] \in Loads /\ f[k].args \in Seq(Seq(Nat))
      BY <1>1, <2>1 DEF Loading
    <2>4. PICK m \in 1..N : m = k + 1 /\ m - 1 = k
      BY <2>1
    <2>5. words[m] \in Seq(Nat) /\ (IsArgument(words, m) <=> ~Optional(f[k], words[m]))
      BY <2>4, WordsAre
    <2>6. f[m].args = IF Optional(f[k], words[m]) THEN f[k].args ELSE Append(f[k].args, words[m])
      BY <2>3, <2>4, <2>5, TakesIs, SMTT(20)
    <2>7. CASE IsArgument(words, m)
      <3>1. f[m].args = Append(f[k].args, words[m])
        BY <2>5, <2>6, <2>7
      <3>2. \E u : InOrder(u, Append(f[k].args, words[k + 1]), words, k + 1)
        <4>1. words[k + 1] \in Seq(Nat) /\ IsArgument(words, k + 1)
          BY <2>4, <2>5, <2>7
        <4> DEFINE args == f[k].args
        <4>2. args \in Seq(Seq(Nat)) /\ InOrder(at, args, words, k)
          BY <2>2, <2>3
        <4> HIDE DEF args
        <4>3. \E u : InOrder(u, Append(args, words[k + 1]), words, k + 1)
          BY <2>1, <4>1, <4>2, ArgumentAdded
        <4> QED
          BY <4>3 DEF args
      <3>3. \E u : InOrder(u, f[k + 1].args, words, k + 1)
        BY <2>4, <3>1, <3>2
      <3> QED
        BY <2>1, <3>3
    <2>8. CASE ~IsArgument(words, m)
      <3>1. f[m].args = f[k].args
        BY <2>5, <2>6, <2>8
      <3>2. ArgumentsTo(words, m) = ArgumentsTo(words, k)
        <4>1. \A i : i \in 1..m <=> i \in 1..k \/ i = m
          BY <2>1, <2>4
        <4> QED
          BY <2>8, <4>1 DEF ArgumentsTo
      <3>3. InOrder(at, f[m].args, words, m)
        BY <2>2, <3>1, <3>2 DEF InOrder
      <3> QED
        BY <2>1, <2>4, <3>3
    <2> QED
      BY <2>7, <2>8
  <1>4. 0..N \subseteq P
    <2> HIDE DEF P
    <2> QED
      BY <1>1, <1>2, <1>3, Induction
  <1>5. N \in P
    BY <1>1, <1>4
  <1> QED
    BY <1>5

\* A value is the end of its word.
LEMMA SuffixesTyped ==
    ASSUME NEW word \in Seq(Nat)
    PROVE  <<>> \in Suffixes(word) /\ Suffixes(word) \subseteq Seq(Nat)
  <1>1. <<>> \in Seq(Nat) /\ Len(word) \in Nat
    OBVIOUS
  <1>2. ASSUME NEW l \in 1..Len(word) PROVE SubSeq(word, l, Len(word)) \in Seq(Nat)
    <2>1. l \in Int /\ Len(word) \in Int /\ 1 <= l /\ Len(word) <= Len(word) /\ l <= Len(word) + 1
      BY <1>1
    <2> QED
      BY <2>1, Piece
  <1> QED
    BY <1>1, <1>2, Zenon DEF Suffixes

LEMMA ValueIsSuffix ==
    ASSUME NEW word \in Seq(Nat), Len(word) > 0, word[1] = Dash, NEW name \in OptionName, NEW v \in Seq(Nat),
           SetsTo(word, name, v)
    PROVE  v \in Suffixes(word)
  <1>1. Len(word) \in Nat
    OBVIOUS
  <1>2. CASE Len(word) < 2 \/ word[2] # Dash
    <2>1. v = <<>>
      BY <1>2, ShortSetting
    <2> QED
      BY <2>1, SuffixesTyped
  <1>3. CASE Len(word) = 2 /\ word[2] = Dash
    BY <1>3, StopSetsNothing
  <1>4. CASE Len(word) > 2 /\ word[2] = Dash
    <2>1. v = SubSeq(word, NameEnd(word) + 1, Len(word))
      BY <1>4, LongSetting
    <2>2. NameEnd(word) \in Int /\ (NameEnd(word) <= Len(word) => NameEnd(word) >= 3) /\ NameEnd(word) <= Len(word) + 1
      BY NameEndIs
    <2>3. PICK c \in Int : c = NameEnd(word) + 1
      BY <2>2
    <2>4. v = SubSeq(word, c, Len(word)) /\ 1 <= c
      BY <1>1, <1>4, <2>1, <2>2, <2>3
    <2>5. CASE c <= Len(word)
      <3>1. c \in 1..Len(word)
        BY <2>3, <2>4, <2>5
      <3> QED
        BY <2>4, <3>1, Zenon DEF Suffixes
    <2>6. CASE c > Len(word)
      <3>1. v = <<>>
        BY <1>1, <2>4, <2>6, SubSeqEmpty
      <3> QED
        BY <3>1, SuffixesTyped
    <2> QED
      BY <1>1, <2>5, <2>6
  <1>5. Len(word) < 2 \/ Len(word) = 2 \/ Len(word) > 2
    <2>1. \A l \in Nat : l < 2 \/ l = 2 \/ l > 2
      OBVIOUS
    <2> QED
      BY <1>1, <2>1, Zenon
  <1> QED
    BY <1>2, <1>3, <1>4, <1>5, Zenon

\* An option holds its last setting.
LEMMA LastSettingHeld ==
    ASSUME NEW words \in Seq(Seq(Nat)), NEW f, Loading(f, words), NEW name \in OptionName
    PROVE  LastSetting(words, name) = Held(f[Len(words)], name)
  <1> DEFINE N == Len(words)
             V == Values(words)
             G == [k \in 1..N |-> {v \in Seq(Nat) : IsOption(words, k) /\ SetsTo(words[k], name, v)}]
             H == [k \in 0..N |-> Held(f[k], name)]
  <1>1. N \in Nat /\ DOMAIN words = 1..N /\ \A k \in 1..N : words[k] \in Seq(Nat)
    OBVIOUS
  <1>2. V \subseteq Seq(Nat)
    BY <1>1, SuffixesTyped DEF Values
  <1>3. ASSUME NEW k \in 1..N, NEW v \in Seq(Nat), IsOption(words, k), SetsTo(words[k], name, v) PROVE v \in V
    <2>1. words[k] \in Seq(Nat) /\ Len(words[k]) > 0 /\ words[k][1] = Dash
      BY <1>1, <1>3 DEF IsOption
    <2>2. v \in Suffixes(words[k])
      BY <1>3, <2>1, ValueIsSuffix
    <2> QED
      BY <1>1, <2>2 DEF Values
  <1>4. \A k \in 1..N : G[k] = {v \in Seq(Nat) : IsOption(words, k) /\ SetsTo(words[k], name, v)}
    BY Zenon
  <1>5. \A k \in 0..N : H[k] = Held(f[k], name)
    BY Zenon
  <1> HIDE DEF V, G, H, N
  <1>6. \A k \in 1..N : \A v : v \in G[k] <=> (v \in V /\ IsOption(words, k) /\ SetsTo(words[k], name, v))
    BY <1>2, <1>3, <1>4
  <1>7. ASSUME NEW k \in 1..N PROVE H[k] = IF G[k] # {} THEN G[k] ELSE H[k - 1]
    <2>1. k - 1 \in 0..N /\ k \in 0..N /\ k \in 1..Len(words)
      BY <1>1 DEF N
    <2> DEFINE load == f[k - 1]
               w == words[k]
    <2>2. /\ load \in Loads /\ w \in Seq(Nat)
          /\ IsOption(words, k) => Optional(load, w)
          /\ Optional(load, w) /\ ~IsOption(words, k) => \A nm, v : ~SetsTo(w, nm, v)
      BY <2>1, WordsAre
    <2>3. f[k] = Takes(load, w)
      BY <2>1 DEF Loading
    <2>4. G[k] = {v \in Seq(Nat) : IsOption(words, k) /\ SetsTo(w, name, v)}
      BY <1>4
    <2>5. H[k] = Held(f[k], name) /\ H[k - 1] = Held(load, name)
      BY <1>5, <2>1
    <2> HIDE DEF load, w
    <2>6. Held(Takes(load, w), name) =
             IF Optional(load, w) /\ Settings(w, name) # {} THEN Settings(w, name) ELSE Held(load, name)
      BY <2>2, TakesIs, Zenon
    <2>7. G[k] = IF Optional(load, w) THEN Settings(w, name) ELSE {}
      <3>1. CASE IsOption(words, k)
        BY <2>2, <2>4, <3>1 DEF Settings
      <3>2. CASE ~IsOption(words, k)
        <4>1. G[k] = {}
          BY <2>4, <3>2
        <4>2. Optional(load, w) => Settings(w, name) = {}
          BY <2>2, <3>2 DEF Settings
        <4> QED
          BY <4>1, <4>2
      <3> QED
        BY <3>1, <3>2
    <2> QED
      BY <2>3, <2>5, <2>6, <2>7
  <1>8. H[0] = {}
    BY <1>1, <1>5, NothingTyped DEF Loading
  <1>9. \A v : v \in H[N] <=> \E i \in 1..N : v \in G[i] /\ \A j \in (i + 1)..N : G[j] = {}
    <2>1. \A k \in 1..N : H[k] = IF G[k] # {} THEN G[k] ELSE H[k - 1]
      BY <1>7
    <2>2. Replaces(N, G, H)
      BY <1>8, <2>1 DEF Replaces
    <2>3. HoldsLast(N, G, H)
      BY <1>1, <2>2, LastGiven
    <2> QED
      BY <2>3 DEF HoldsLast
  <1>10. LastSetting(words, name) =
            {v \in V : \E i \in 1..N :
               /\ IsOption(words, i) /\ SetsTo(words[i], name, v)
               /\ \A j \in (i + 1)..N, u \in V : IsOption(words, j) => ~SetsTo(words[j], name, u)}
    BY <1>1, Zenon DEF LastSetting, V, N
  <1>11. ASSUME NEW i \in 1..N
         PROVE  (\A j \in (i + 1)..N, u \in V : IsOption(words, j) => ~SetsTo(words[j], name, u)) <=>
                   \A j \in (i + 1)..N : G[j] = {}
    <2>1. \A j \in (i + 1)..N : j \in 1..N
      BY <1>1
    <2>2. ASSUME NEW j \in (i + 1)..N PROVE G[j] = {} <=> \A u \in V : IsOption(words, j) => ~SetsTo(words[j], name, u)
      <3>1. j \in 1..N
        BY <2>1
      <3>2. \A u : u \in G[j] <=> (u \in V /\ IsOption(words, j) /\ SetsTo(words[j], name, u))
        BY <1>6, <3>1
      <3> QED
        BY <3>2
    <2> QED
      BY <2>2
  <1>12. \A v : v \in LastSetting(words, name) <=> v \in H[N]
    <2> TAKE v
    <2>1. ASSUME v \in LastSetting(words, name) PROVE v \in H[N]
      <3>1. PICK i \in 1..N : /\ v \in V /\ IsOption(words, i) /\ SetsTo(words[i], name, v)
                              /\ \A j \in (i + 1)..N, u \in V : IsOption(words, j) => ~SetsTo(words[j], name, u)
        BY <1>10, <2>1
      <3>2. v \in G[i] /\ \A j \in (i + 1)..N : G[j] = {}
        BY <1>6, <1>11, <3>1
      <3> QED
        BY <1>9, <3>2
    <2>2. ASSUME v \in H[N] PROVE v \in LastSetting(words, name)
      <3>1. PICK i \in 1..N : v \in G[i] /\ \A j \in (i + 1)..N : G[j] = {}
        BY <1>9, <2>2
      <3>2. v \in V /\ IsOption(words, i) /\ SetsTo(words[i], name, v)
        BY <1>6, <3>1
      <3>3. \A j \in (i + 1)..N, u \in V : IsOption(words, j) => ~SetsTo(words[j], name, u)
        BY <1>11, <3>1
      <3> QED
        BY <1>10, <3>2, <3>3
    <2> QED
      BY <2>1, <2>2
  <1>13. LastSetting(words, name) = H[N]
    BY <1>12
  <1>14. N \in 0..N
    BY <1>1
  <1> QED
    BY <1>5, <1>13, <1>14 DEF N

\* Reading an option.
LEMMA ReadersAre ==
    ASSUME NEW load \in Loads, NEW name, NEW fallback \in BOOLEAN, NEW beyond \in Seq(Nat)
    PROVE  /\ Held(load, name) = {} => /\ OptionsBoolean(load, name, fallback, beyond) = fallback
                                       /\ OptionsInteger(load, name, 7, beyond) = Gives(7)
                                       /\ OptionsString(load, name, <<>>, beyond) = <<>>
           /\ \A v \in Held(load, name) : IsPrefix(v, OptionsString(load, name, <<>>, beyond))
           /\ Held(load, name) = {<<>>} => OptionsBoolean(load, name, fallback, beyond)
           /\ Held(load, name) = {<<Zero>>} => ~OptionsBoolean(load, name, fallback, beyond)
  <1> DEFINE value == load.opts[name]
             read == OptionsBoolean(load, name, fallback, beyond)
             text == OptionsString(load, name, <<>>, beyond)
  <1>1. Held(load, name) = IF Has(load, name) THEN {value} ELSE {}
    BY DEF Held
  <1>2. CASE ~Has(load, name)
    <2>1. Held(load, name) = {}
      BY <1>1, <1>2
    <2>2. read = fallback
      BY <1>2, Zenon DEF OptionsBoolean
    <2>3. OptionsInteger(load, name, 7, beyond) = Gives(7)
      BY <1>2, Zenon DEF OptionsInteger
    <2>4. text = <<>>
      BY <1>2, Zenon DEF OptionsString
    <2>5. {} # {<<>>} /\ {} # {<<Zero>>}
      BY Zenon
    <2> HIDE DEF read, text
    <2> QED
      BY <2>1, <2>2, <2>3, <2>4, <2>5, Zenon DEF read, text
  <1>3. CASE Has(load, name)
    <2>1. Held(load, name) = {value}
      BY <1>1, <1>3
    <2>2. PICK A \in SUBSET Seq(Nat) : load.opts \in [A -> Seq(Nat)]
      BY DEF Loads
    <2>3. value \in Seq(Nat)
      BY <1>3, <2>2 DEF Has
    <2>4. text = value \o beyond
      BY <1>3, Zenon DEF OptionsString
    <2>5. read = CASE ~Has(load, name) -> fallback
                   [] Has(load, name) /\ Len(value) = 0 -> TRUE
                   [] Has(load, name) /\ Len(value) = 1 -> value[1] # Zero
                   [] OTHER -> value \o beyond \notin FalseWords
      BY Zenon DEF OptionsBoolean
    <2> DEFINE last == value \o beyond \notin FalseWords
    <2> HIDE DEF value, read, text, last
    <2>6. IsPrefix(value, text)
      <3> DEFINE t == value \o beyond
                 L == Len(value)
      <3>1. t \in Seq(Nat) /\ Len(t) = L + Len(beyond) /\ \A i \in 1..L : t[i] = value[i]
        BY <2>3, JoinedTexts, Zenon
      <3> HIDE DEF t
      <3>2. L \in Nat /\ Len(beyond) \in Nat /\ L <= Len(t) /\ 1 \in Int /\ L \in Int /\ 1 <= L + 1
        BY <2>3, <3>1
      <3>3. /\ SubSeq(t, 1, L) \in Seq(Nat) /\ Len(SubSeq(t, 1, L)) = L - 1 + 1
            /\ \A i \in 1..(L - 1 + 1) : SubSeq(t, 1, L)[i] = t[1 + i - 1]
        <4>1. 1 <= 1
          OBVIOUS
        <4> QED
          BY <3>1, <3>2, <4>1, Piece
      <3>4. /\ SubSeq(value, 1, L) \in Seq(Nat) /\ Len(SubSeq(value, 1, L)) = L - 1 + 1
            /\ \A i \in 1..(L - 1 + 1) : SubSeq(value, 1, L)[i] = value[1 + i - 1]
        <4>1. 1 <= 1 /\ L <= L
          BY <3>2
        <4> QED
          BY <2>3, <3>2, <4>1, Piece
      <3>5. \A i \in 1..(L - 1 + 1) : i \in 1..L /\ 1 + i - 1 = i
        BY <3>2
      <3>6. SubSeq(value, 1, L) = SubSeq(t, 1, L)
        <4> DEFINE p == SubSeq(value, 1, L)
                   q == SubSeq(t, 1, L)
        <4>1. p \in Seq(Nat) /\ q \in Seq(Nat) /\ Len(p) = Len(q)
          BY <3>3, <3>4
        <4>2. \A i \in 1..Len(p) : p[i] = q[i]
          BY <3>1, <3>3, <3>4, <3>5
        <4> HIDE DEF p, q
        <4>3. p = q
          BY <4>1, <4>2, SameText
        <4> QED
          BY <4>3 DEF p, q
      <3>7. IsPrefix(value, t)
        BY <3>2, <3>6 DEF IsPrefix
      <3> QED
        BY <2>4, <3>7 DEF t
    <2>7. value = <<>> => read
      <3> SUFFICES ASSUME value = <<>> PROVE read
        OBVIOUS
      <3>1. Len(value) = 0 /\ Len(value) # 1
        OBVIOUS
      <3>2. read = TRUE
        BY <1>3, <2>5, <3>1, Zenon
      <3> QED
        BY <3>2
    <2>8. value = <<Zero>> => ~read
      <3> SUFFICES ASSUME value = <<Zero>> PROVE ~read
        OBVIOUS
      <3>1. Len(value) = 1 /\ Len(value) # 0 /\ value[1] = Zero
        BY DEF Zero
      <3>2. read = (value[1] # Zero)
        BY <1>3, <2>5, <3>1, Zenon
      <3> QED
        BY <3>1, <3>2
    <2>9. {value} # {} /\ ({value} = {<<>>} => value = <<>>) /\ ({value} = {<<Zero>>} => value = <<Zero>>)
      BY Zenon
    <2>10. \A v \in {value} : v = value
      BY Zenon
    <2> QED
      BY <2>1, <2>6, <2>7, <2>8, <2>9, <2>10, Zenon DEF read, text
  <1> QED
    BY <1>2, <1>3

\* cflare_options_load keeps the last setting of each option that can be written,
\* and the arguments in order: LoadsOptions of every command line.
THEOREM OptionsRead ==
    \A words \in Seq(Seq(Nat)), names \in SUBSET OptionName, beyonds \in SUBSET Seq(Nat) :
       LoadsOptions(words, names, beyonds)
  <1> SUFFICES ASSUME NEW words \in Seq(Seq(Nat)), NEW names \in SUBSET OptionName, NEW beyonds \in SUBSET Seq(Nat)
               PROVE  LoadsOptions(words, names, beyonds)
    OBVIOUS
  <1> DEFINE load == OptionsLoad(words)
             N == Len(words)
             positions == {i \in DOMAIN words : IsArgument(words, i)}
             Sorted == \E at \in [1..Len(load.args) -> positions] :
                          /\ \A n, m \in DOMAIN at : n < m => at[n] < at[m]
                          /\ positions = {at[n] : n \in DOMAIN at}
                          /\ load.args = [n \in DOMAIN at |-> words[at[n]]]
             Reads(name, fallback, beyond) ==
                LET set == LastSetting(words, name)
                    read == OptionsBoolean(load, name, fallback, beyond)
                    text == OptionsString(load, name, <<>>, beyond)
                IN  /\ set = {} => read = fallback /\ OptionsInteger(load, name, 7, beyond) = Gives(7) /\ text = <<>>
                    /\ \A v \in set : IsPrefix(v, text)
                    /\ set = {<<>>} => read
                    /\ set = {<<Zero>>} => ~read
  <1>1. PICK f \in [0..N -> Loads] : /\ f[0] = Nothing /\ f[N] = load
                                     /\ \A k \in 1..N : f[k] = Takes(f[k - 1], words[k])
    BY OptionSteps
  <1>2. Loading(f, words) /\ N \in Nat /\ DOMAIN words = 1..N
    BY <1>1 DEF Loading
  <1>3. load \in Loads
    BY <1>1, <1>2
  <1> HIDE DEF load
  <1>4. \A name \in names : LastSetting(words, name) = Held(load, name)
    BY <1>1, <1>2, LastSettingHeld
  <1>5. positions = ArgumentsTo(words, N)
    BY <1>2 DEF ArgumentsTo
  <1> HIDE DEF positions
  <1>6. PICK at : InOrder(at, load.args, words, N)
    BY <1>1, <1>2, ArgumentsInOrder
  <1>7. load.args \in Seq(Seq(Nat))
    BY <1>3 DEF Loads
  <1>8. Sorted
    <2> DEFINE A == load.args
               L == Len(A)
    <2>1. A \in Seq(Seq(Nat)) /\ A = [n \in 1..L |-> A[n]]
      <3>1. \A s \in Seq(Seq(Nat)) : s = [n \in 1..Len(s) |-> s[n]]
        OBVIOUS
      <3> QED
        BY <1>7, <3>1, Zenon
    <2>2. /\ at \in [1..L -> positions] /\ DOMAIN at = 1..L
          /\ \A n, m \in 1..L : n < m => at[n] < at[m]
          /\ \A i \in positions : \E n \in 1..L : at[n] = i
          /\ \A n \in 1..L : A[n] = words[at[n]]
      BY <1>5, <1>6 DEF InOrder
    <2>3. positions = {at[n] : n \in DOMAIN at}
      BY <2>2
    <2> HIDE DEF A
    <2>4. A = [n \in DOMAIN at |-> words[at[n]]]
      <3>1. [n \in 1..L |-> A[n]] = [n \in 1..L |-> words[at[n]]]
        BY <2>2, Zenon
      <3>2. A = [n \in 1..L |-> words[at[n]]]
        BY <2>1, <3>1, Zenon
      <3> QED
        BY <2>2, <3>2, Zenon
    <2>5. \A n, m \in DOMAIN at : n < m => at[n] < at[m]
      BY <2>2, Zenon
    <2> QED
      BY <2>2, <2>3, <2>4, <2>5, Zenon DEF A
  <1>9. OptionsArgument(load, Cardinality(positions)) = <<>>
    <2>1. Cardinality(positions) = Len(load.args) /\ Len(load.args) \in Nat
      BY <1>5, <1>6, <1>7 DEF InOrder
    <2>2. Cardinality(positions) >= Len(load.args)
      BY <2>1
    <2> QED
      BY <2>2, Zenon DEF OptionsArgument
  <1>10. ASSUME NEW name \in names, NEW fallback \in BOOLEAN, NEW beyond \in beyonds
         PROVE  Reads(name, fallback, beyond)
    <2>1. beyond \in Seq(Nat) /\ LastSetting(words, name) = Held(load, name)
      BY <1>4
    <2>2. /\ Held(load, name) = {} => /\ OptionsBoolean(load, name, fallback, beyond) = fallback
                                      /\ OptionsInteger(load, name, 7, beyond) = Gives(7)
                                      /\ OptionsString(load, name, <<>>, beyond) = <<>>
          /\ \A v \in Held(load, name) : IsPrefix(v, OptionsString(load, name, <<>>, beyond))
          /\ Held(load, name) = {<<>>} => OptionsBoolean(load, name, fallback, beyond)
          /\ Held(load, name) = {<<Zero>>} => ~OptionsBoolean(load, name, fallback, beyond)
      BY <1>3, <2>1, ReadersAre, Zenon
    <2> QED
      BY <2>1, <2>2, Zenon
  <1>11. \A name \in names : LastSetting(words, name) = IF Has(load, name) THEN {load.opts[name]} ELSE {}
    BY <1>4, Zenon DEF Held
  <1> QED
    BY <1>8, <1>9, <1>10, <1>11, Zenon DEF LoadsOptions, load, positions

\* Whatever words a run puts together, the options and arguments are right.
THEOREM OptionsLoaded == Spec => []OptionsCorrect
  <1>1. TextInv => OptionsCorrect
    <2> SUFFICES ASSUME TextInv, kind = "options"
                 PROVE  LoadsOptions(input, OptionNames, OptionTails)
      BY DEF OptionsCorrect
    <2>1. Words \subseteq Seq(Nat)
      <3>1. <<>> \in Seq(Nat) /\ <<45>> \in Seq(Nat) /\ <<45, 45>> \in Seq(Nat) /\ <<45, 97, 98>> \in Seq(Nat)
        OBVIOUS
      <3>2. <<45, 45, 97>> \in Seq(Nat) /\ <<45, 45, 98, 61, 48>> \in Seq(Nat) /\ <<45, 45, 97, 61, 110, 111>> \in Seq(Nat)
        OBVIOUS
      <3>3. <<45, 45, 61, 48>> \in Seq(Nat) /\ <<120>> \in Seq(Nat) /\ <<45, 45, 97, 61, 55>> \in Seq(Nat)
        OBVIOUS
      <3> QED
        <4> SUFFICES ASSUME NEW x \in Words PROVE x \in Seq(Nat)
          BY Zenon
        <4>1. \/ x = <<>> \/ x = <<45>> \/ x = <<45, 45>> \/ x = <<45, 97, 98>>
              \/ x = <<45, 45, 97>> \/ x = <<45, 45, 98, 61, 48>> \/ x = <<45, 45, 97, 61, 110, 111>>
              \/ x = <<45, 45, 61, 48>> \/ x = <<120>> \/ x = <<45, 45, 97, 61, 55>>
          BY Zenon DEF Words
        <4> QED
          BY <3>1, <3>2, <3>3, <4>1, ZenonT(30)
    <2>2. OptionNames \in SUBSET OptionName
      <3>1. <<>> \in OptionName
        BY DEF OptionName
      <3>2. <<97>> \in OptionName
        BY DEF OptionName, EqualsSign
      <3>3. <<98>> \in OptionName
        BY DEF OptionName, EqualsSign
      <3> QED
        BY <3>1, <3>2, <3>3, Zenon DEF OptionNames
    <2>3. OptionTails \in SUBSET Seq(Nat)
      <3>1. <<>> \in Seq(Nat) /\ <<48>> \in Seq(Nat) /\ <<110, 111>> \in Seq(Nat) /\ <<55>> \in Seq(Nat)
        OBVIOUS
      <3> QED
        BY <3>1, Zenon DEF OptionTails
    <2>4. Parts["options"] = Words
      BY Zenon DEF Parts
    <2>5. input \in Seq(Seq(Nat))
      BY <2>1, <2>4, SeqMonotonic DEF TextInv
    <2> QED
      BY <2>2, <2>3, <2>5, OptionsRead, Zenon
  <1> QED
    BY <1>1, TextInvInductive, PTL

-----------------------------------------------------------------------------
\* What cflare_tointeger makes of "0x" and two characters.
LEMMA HexRead ==
    ASSUME NEW a \in Nat, NEW b \in Nat, NEW w, w = <<Zero, LetterX, a, b>>
    PROVE  /\ ToInteger(w).out \in {"true", "false", "abort"} /\ ToInteger(w).value \in Int
           /\ ToInteger(w).out = "true" <=> (CharToNumber(a) \in 0..15 /\ CharToNumber(b) \in 0..15)
           /\ ToInteger(w).out = "true" => ToInteger(w).value = 16 * CharToNumber(a) + CharToNumber(b)
  <1>1. w \in Seq(Nat) /\ Len(w) = 4 /\ w[1] = Zero /\ w[2] = LetterX /\ w[3] = a /\ w[4] = b
    BY DEF Zero, LetterX
  <1>2. Zero \notin {Dash, Plus} /\ Zero # Dash
    BY DEF Zero, Dash, Plus
  <1>3. SignLen(w) = 0 /\ SignOf(w) = 1
    BY <1>1, <1>2 DEF SignLen, SignOf
  <1>4. Denoted(w, LetterX)
    BY <1>1, <1>3 DEF Denoted
  <1>5. BaseOf(w) = 16
    BY <1>4 DEF BaseOf
  <1>6. Start(w) = 3
    BY <1>3, <1>5 DEF Start
  <1> DEFINE d == DigitsOf(w)
  <1>7. d \in Seq(Nat) /\ Len(d) = 2 /\ d[1] = a /\ d[2] = b
    <2>1. PICK k \in 1..(Len(w) + 1) : k = 3
      BY <1>1
    <2>2. /\ SubSeq(w, k, Len(w)) \in Seq(Nat)
          /\ Len(SubSeq(w, k, Len(w))) = Len(w) + 1 - k
          /\ \A i \in 1..(Len(w) + 1 - k) : SubSeq(w, k, Len(w))[i] = w[k + i - 1]
      BY <1>1, Rest
    <2>3. d = SubSeq(w, k, Len(w))
      BY <1>6, <2>1 DEF DigitsOf
    <2>4. Len(w) + 1 - k = 2 /\ 1 \in 1..2 /\ 2 \in 1..2 /\ k + 1 - 1 = 3 /\ k + 2 - 1 = 4
      BY <1>1, <2>1
    <2> QED
      BY <1>1, <2>2, <2>3, <2>4
  <1> HIDE DEF d
  <1>8. CharToNumber(a) \in Int /\ CharToNumber(b) \in Int
    BY CharTyped
  <1>9. AllDigits(d, 16) <=> (CharToNumber(a) \in 0..15 /\ CharToNumber(b) \in 0..15)
    <2>1. DOMAIN d = 1..2 /\ 16 - 1 = 15
      BY <1>7
    <2>2. \A i \in 1..2 : i = 1 \/ i = 2
      OBVIOUS
    <2>3. 1 \in 1..2 /\ 2 \in 1..2
      OBVIOUS
    <2> QED
      BY <1>7, <2>1, <2>2, <2>3 DEF AllDigits
  <1>10. Horner(d, 16) = 16 * CharToNumber(a) + CharToNumber(b)
    <2>0. 16 \in Nat
      OBVIOUS
    <2>1. PICK v \in [0..Len(d) -> Int] :
              /\ v[0] = 0 /\ v[Len(d)] = Horner(d, 16)
              /\ \A k \in 1..Len(d) : v[k] = 16 * v[k - 1] + CharToNumber(d[k])
      BY <1>7, <2>0, HornerSteps
    <2>2. v[1] = 16 * v[0] + CharToNumber(a)
      BY <1>7, <2>1
    <2>3. v[2] = 16 * v[1] + CharToNumber(b)
      BY <1>7, <2>1
    <2> QED
      BY <1>7, <1>8, <2>1, <2>2, <2>3
  <1>11. ToInteger(w) = DigitsValue(d, 16)
    <2>1. ToInteger(w) = IF Start(w) > Len(w) THEN Fails
                         ELSE IF SignOf(w) = -1 THEN [DigitsValue(DigitsOf(w), BaseOf(w)) EXCEPT !.value = -@]
                         ELSE DigitsValue(DigitsOf(w), BaseOf(w))
      BY <1>1, ToIntegerIs
    <2>2. ~(Start(w) > Len(w)) /\ SignOf(w) # -1
      BY <1>1, <1>3, <1>6
    <2> QED
      BY <1>5, <2>1, <2>2, Zenon DEF d
  <1>12. /\ AllDigits(d, 16) => DigitsValue(d, 16) = Gives(Horner(d, 16))
         /\ ~AllDigits(d, 16) => DigitsValue(d, 16) \in {Aborts, Fails}
    <2>0. d # <<>>
      <3>1. Len(<<>>) = 0
        OBVIOUS
      <3>2. Len(d) # 0
        BY <1>7
      <3> QED
        BY <3>1, <3>2, Zenon
    <2>1. /\ 16 \in Nat \ {0} /\ Len(d) - 1 = 1 /\ 1 \in Nat
          /\ 1 \in 0..1 /\ 0 \in 0..1 /\ 1 \in 1..1 /\ 1 - 1 = 0
      BY <1>7
    <2>2. Power(16, Len(d) - 1) = 16
      <3>1. PowFun(1, 16)[1] = 16 * PowFun(1, 16)[0] /\ PowFun(1, 16)[0] = 1
        <4>1. 16 \in Nat
          OBVIOUS
        <4> QED
          BY <2>1, <4>1, PowDefined
      <3>2. Power(16, 1) = PowFun(1, 16)[1]
        BY <2>1, PowerIs
      <3>3. PICK x \in {1} : x = PowFun(1, 16)[0]
        BY <3>1
      <3>4. 16 * x = 16
        OBVIOUS
      <3> QED
        BY <2>1, <3>1, <3>2, <3>3, <3>4, Zenon
    <2>3. 16 <= Largest /\ 255 <= Exact
      BY ConversionAssumption
    <2>4. AllDigits(d, 16) => Horner(d, 16) <= Exact
      <3>1. \A x \in 0..15, y \in 0..15 : 16 * x + y <= Exact
        BY <2>3, ConversionAssumption
      <3> QED
        BY <1>9, <1>10, <3>1, Zenon
    <2>5. Power(16, Len(d) - 1) <= Largest
      BY <2>2, <2>3, Zenon
    <2>6. AllDigits(d, 16) => DigitsValue(d, 16) = Gives(Horner(d, 16))
      BY <1>7, <2>0, <2>1, <2>4, <2>5, DigitsValueIs, Zenon
    <2>7. ~AllDigits(d, 16) => DigitsValue(d, 16) \in {Aborts, Fails}
      BY <1>7, <2>0, <2>1, DigitsValueIs, Zenon
    <2> QED
      BY <2>6, <2>7
  <1>13. ToInteger(w).value \in Int
    BY <1>1, ToIntegerTyped
  <1>14. Gives(Horner(d, 16)).out = "true" /\ Gives(Horner(d, 16)).value = Horner(d, 16)
    BY DEF Gives
  <1>15. AllDigits(d, 16) => ToInteger(w).out = "true" /\ ToInteger(w).value = Horner(d, 16)
    BY <1>11, <1>12, <1>14, Zenon
  <1>16. ~AllDigits(d, 16) => ToInteger(w).out \in {"false", "abort"}
    <2>1. Aborts.out = "abort" /\ Fails.out = "false"
      BY DEF Aborts, Fails
    <2> QED
      BY <1>11, <1>12, <2>1, Zenon
  <1>17. ToInteger(w).out \in {"true", "false", "abort"}
    BY <1>15, <1>16, Zenon
  <1>18. "true" \notin {"false", "abort"}
    OBVIOUS
  <1>19. ToInteger(w).out = "true" <=> AllDigits(d, 16)
    BY <1>15, <1>16, <1>18, Zenon
  <1>20. ToInteger(w).out = "true" => ToInteger(w).value = 16 * CharToNumber(a) + CharToNumber(b)
    BY <1>10, <1>15, <1>19, Zenon
  <1> QED
    BY <1>9, <1>13, <1>17, <1>19, <1>20, Zenon

\* The state of the loop of cflare_unescape_url_mutate.
TurnState == [i : Nat, text : Seq(Int), out : {"true", "false", "abort"}]
Begin == [i |-> 1, text |-> <<>>, out |-> "true"]

\* An escape stands for a number if two hexadecimal digits follow.
LEMMA EscapeIs ==
    ASSUME NEW s \in Seq(Nat), NEW i \in 1..Len(s)
    PROVE  /\ Escape(s, i).out \in {"true", "false", "abort"} /\ Escape(s, i).value \in Int
           /\ Escape(s, i).out = "true" <=> HasHexDigits(s, i)
           /\ Escape(s, i).out = "true" =>
                 i + 2 <= Len(s) /\ Escape(s, i).value = 16 * CharToNumber(s[i + 1]) + CharToNumber(s[i + 2])
  <1>1. Len(s) \in Nat /\ i \in Nat
    OBVIOUS
  <1>2. CASE i + 2 > Len(s)
    <2>1. Escape(s, i) = Fails /\ ~(i + 2 <= Len(s))
      BY <1>1, <1>2 DEF Escape
    <2>2. Fails.out = "false" /\ Fails.value = 0
      BY DEF Fails
    <2>3. ~HasHexDigits(s, i)
      BY <2>1 DEF HasHexDigits
    <2> QED
      BY <2>1, <2>2, <2>3
  <1>3. CASE ~(i + 2 > Len(s))
    <2> DEFINE a == s[i + 1]
               b == s[i + 2]
               w == <<Zero, LetterX, a, b>>
    <2>1. i + 2 <= Len(s) /\ i + 1 \in 1..Len(s) /\ i + 2 \in 1..Len(s)
      BY <1>1, <1>3
    <2>2. a \in Nat /\ b \in Nat
      BY <2>1
    <2>3. Escape(s, i) = ToInteger(w)
      BY <1>3, Zenon DEF Escape
    <2>4. HasHexDigits(s, i) <=> (CharToNumber(a) \in 0..15 /\ CharToNumber(b) \in 0..15)
      BY <2>1 DEF HasHexDigits
    <2> HIDE DEF a, b
    <2>5. PICK x : x = w
      OBVIOUS
    <2>6. /\ ToInteger(x).out \in {"true", "false", "abort"} /\ ToInteger(x).value \in Int
          /\ ToInteger(x).out = "true" <=> (CharToNumber(a) \in 0..15 /\ CharToNumber(b) \in 0..15)
          /\ ToInteger(x).out = "true" => ToInteger(x).value = 16 * CharToNumber(a) + CharToNumber(b)
      BY <2>2, <2>5, HexRead
    <2>7. Escape(s, i) = ToInteger(x)
      BY <2>3, <2>5
    <2> HIDE DEF w
    <2> QED
      BY <2>1, <2>4, <2>6, <2>7 DEF a, b
  <1> QED
    BY <1>2, <1>3

\* One turn of the loop.
LEMMA TurnIs ==
    ASSUME NEW s \in Seq(Nat), NEW t \in TurnState, t.i >= 1
    PROVE  /\ Turn(s, t) \in TurnState /\ Turn(s, t).i >= 1
           /\ (t.i > Len(s) \/ t.out # "true") => Turn(s, t) = t
           /\ t.i <= Len(s) /\ t.out = "true" /\ s[t.i] = Percent =>
                 IF HasHexDigits(s, t.i)
                 THEN /\ t.i + 2 <= Len(s) /\ Turn(s, t).i = t.i + 3 /\ Turn(s, t).out = "true"
                      /\ Turn(s, t).text = Append(t.text, 16 * CharToNumber(s[t.i + 1]) + CharToNumber(s[t.i + 2]))
                 ELSE Turn(s, t).i = t.i /\ Turn(s, t).text = t.text /\ Turn(s, t).out # "true"
           /\ t.i <= Len(s) /\ t.out = "true" /\ s[t.i] # Percent =>
                 /\ Turn(s, t).i = t.i + 1 /\ Turn(s, t).out = "true"
                 /\ Turn(s, t).text = Append(t.text, IF s[t.i] = Plus THEN Space ELSE s[t.i])
  <1> DEFINE i == t.i
             u == Turn(s, t)
             e == Escape(s, i)
             c == IF s[i] = Plus THEN Space ELSE s[i]
             n == 16 * CharToNumber(s[i + 1]) + CharToNumber(s[i + 2])
  <1>1. i \in Nat /\ i >= 1 /\ t.text \in Seq(Int) /\ t.out \in {"true", "false", "abort"} /\ Len(s) \in Nat
    BY DEF TurnState
  <1>2. t = [i |-> t.i, text |-> t.text, out |-> t.out]
    BY DEF TurnState
  <1>3. CASE i > Len(s) \/ t.out # "true"
    <2>1. u = t
      BY <1>3, Zenon DEF Turn
    <2>2. i > Len(s) => ~(i <= Len(s))
      BY <1>1
    <2> HIDE DEF u
    <2> QED
      BY <1>3, <2>1, <2>2 DEF u
  <1>4. CASE ~(i > Len(s) \/ t.out # "true") /\ s[i] = Percent
    <2>1. i \in 1..Len(s) /\ i <= Len(s) /\ t.out = "true"
      BY <1>1, <1>4
    <2>2. u = IF e.out # "true" THEN [t EXCEPT !.out = e.out]
              ELSE [t EXCEPT !.i = @ + 3, !.text = Append(@, e.value)]
      BY <1>4, Zenon DEF Turn
    <2>3. /\ e.out \in {"true", "false", "abort"} /\ e.value \in Int
          /\ e.out = "true" <=> HasHexDigits(s, i)
          /\ e.out = "true" => i + 2 <= Len(s) /\ e.value = n
      BY <2>1, EscapeIs
    <2> HIDE DEF e, n, u
    <2>4. CASE e.out = "true"
      <3>1. u = [i |-> i + 3, text |-> Append(t.text, n), out |-> "true"]
        BY <1>2, <2>1, <2>2, <2>3, <2>4
      <3>2. Append(t.text, n) \in Seq(Int)
        BY <1>1, <2>3, <2>4
      <3>3. u \in TurnState /\ u.i = i + 3 /\ u.out = "true" /\ u.text = Append(t.text, n)
        BY <1>1, <3>1, <3>2 DEF TurnState
      <3>4. u.i >= 1
        BY <1>1, <3>3
      <3> QED
        BY <1>4, <2>1, <2>3, <2>4, <3>3, <3>4 DEF u, n
    <2>5. CASE e.out # "true"
      <3>1. u = [i |-> i, text |-> t.text, out |-> e.out]
        BY <1>2, <2>2, <2>5
      <3>2. u \in TurnState /\ u.i = i /\ u.out = e.out /\ u.text = t.text
        BY <1>1, <2>3, <3>1 DEF TurnState
      <3> QED
        BY <1>1, <1>4, <2>1, <2>3, <2>5, <3>2 DEF u
    <2> QED
      BY <2>4, <2>5
  <1>5. CASE ~(i > Len(s) \/ t.out # "true") /\ s[i] # Percent
    <2>1. i \in 1..Len(s) /\ i <= Len(s) /\ t.out = "true"
      BY <1>1, <1>5
    <2>2. u = [t EXCEPT !.i = @ + 1, !.text = Append(@, c)]
      BY <1>5, Zenon DEF Turn
    <2>3. c \in Int
      BY <2>1 DEF Space
    <2> HIDE DEF c, u
    <2>4. u = [i |-> i + 1, text |-> Append(t.text, c), out |-> "true"]
      BY <1>2, <2>1, <2>2
    <2>5. Append(t.text, c) \in Seq(Int)
      BY <1>1, <2>3
    <2>6. u \in TurnState /\ u.i = i + 1 /\ u.out = "true" /\ u.text = Append(t.text, c)
      BY <1>1, <2>4, <2>5 DEF TurnState
    <2>7. u.i >= 1
      BY <1>1, <2>6
    <2> QED
      BY <1>5, <2>1, <2>6, <2>7 DEF u, c
  <1> QED
    BY <1>3, <1>4, <1>5

\* The turns, one after the other, and what is returned in the end.
TurnFun(s) == CHOOSE h : h = [k \in 0..Len(s) |-> IF k = 0 THEN [i |-> 1, text |-> <<>>, out |-> "true"] ELSE Turn(s, h[k - 1])]
Outcome(s, t) ==
    IF t.out = "true" THEN [out |-> "true", text |-> t.text]
    ELSE [out |-> t.out, text |-> t.text \o SubSeq(s, Len(t.text) + 1, Len(s))]
Turning(f, s) ==
    /\ f \in [0..Len(s) -> TurnState] /\ f[0] = Begin
    /\ \A k \in 0..Len(s) : f[k].i >= 1
    /\ \A k \in 1..Len(s) : f[k] = Turn(s, f[k - 1])

LEMMA UnescapeSteps ==
    ASSUME NEW s \in Seq(Nat)
    PROVE  \E f : Turning(f, s) /\ Unescape(s) = Outcome(s, f[Len(s)])
  <1> DEFINE N == Len(s)
             S == {t \in TurnState : t.i >= 1}
             step == [k \in 1..N |-> [t \in S |-> Turn(s, t)]]
             h == TurnFun(s)
             e == [k \in 0..N |-> IF k = 0 THEN Begin ELSE Turn(s, h[k - 1])]
  <1>1. N \in Nat
    OBVIOUS
  <1>2. \A t \in S : Turn(s, t) \in S
    BY TurnIs
  <1>3. Begin \in S
    <2>1. <<>> \in Seq(Int)
      OBVIOUS
    <2>2. Begin \in TurnState /\ Begin.i = 1
      BY <2>1 DEF Begin, TurnState
    <2> QED
      BY <2>2
  <1> HIDE DEF S, N
  <1>4. step \in [1..N -> [S -> S]] /\ \A k \in 1..N, t \in S : step[k][t] = Turn(s, t)
    BY <1>2
  <1> HIDE DEF step
  <1>5. PICK f \in [0..N -> S] : Builds(f, N, Begin, step)
    BY <1>1, <1>3, <1>4, RecursionExists
  <1>6. \A k \in 0..N : f[k] = IF k = 0 THEN Begin ELSE Turn(s, f[k - 1])
    <2> TAKE k \in 0..N
    <2>1. CASE k = 0
      BY <1>5, <2>1 DEF Builds
    <2>2. CASE k # 0
      <3>1. k \in 1..N /\ k - 1 \in 0..N
        BY <1>1, <2>2
      <3>2. f[k - 1] \in S
        BY <1>5, <3>1
      <3> QED
        BY <1>4, <1>5, <2>2, <3>1, <3>2 DEF Builds
    <2> QED
      BY <2>1, <2>2
  <1>7. f = [k \in 0..N |-> IF k = 0 THEN Begin ELSE Turn(s, f[k - 1])]
    <2>1. f = [k \in 0..N |-> f[k]]
      OBVIOUS
    <2> QED
      BY <1>6, <2>1, Zenon
  <1>8. h = e
    BY <1>7, Zenon DEF TurnFun, N, Begin
  <1>9. \A k \in 0..N : e[k] = IF k = 0 THEN Begin ELSE Turn(s, h[k - 1])
    BY Zenon
  <1>10. h = [k \in 0..N |-> h[k]]
    BY <1>8
  <1> HIDE DEF e, h
  <1>11. h[0] = Begin /\ \A k \in 1..N : h[k] = Turn(s, h[k - 1])
    <2>1. 0 \in 0..N /\ \A k \in 1..N : k \in 0..N /\ k # 0
      BY <1>1
    <2> QED
      BY <1>8, <1>9, <2>1
  <1> DEFINE P == {k \in 0..N : h[k] \in S}
  <1>12. 0 \in P
    BY <1>1, <1>3, <1>11
  <1>13. ASSUME NEW k \in 0..N, k \in P, k < N PROVE k + 1 \in P
    <2>1. k + 1 \in 1..N /\ k + 1 \in 0..N /\ k + 1 - 1 = k
      BY <1>1, <1>13
    <2>2. h[k + 1] = Turn(s, h[k])
      BY <1>11, <2>1
    <2> QED
      BY <1>2, <1>13, <2>1, <2>2
  <1>14. 0..N \subseteq P
    <2> HIDE DEF P
    <2> QED
      BY <1>1, <1>12, <1>13, Induction
  <1>15. \A k \in 0..N : h[k] \in TurnState /\ h[k].i >= 1
    BY <1>14 DEF S
  <1>16. h \in [0..N -> TurnState]
    BY <1>10, <1>15
  <1>17. Turning(h, s)
    BY <1>11, <1>15, <1>16 DEF Turning, N
  <1>18. Unescape(s) = Outcome(s, h[N])
    BY Zenon DEF Unescape, Outcome, h, TurnFun, N
  <1> QED
    BY <1>17, <1>18 DEF N

\* A function that does not change any more stays what it is.
LEMMA Stays ==
    ASSUME NEW N \in Nat, NEW f, NEW a \in 0..N, \A k \in 1..N : a < k /\ f[k - 1] = f[a] => f[k] = f[a]
    PROVE  f[N] = f[a]
  <1> DEFINE P == {k \in 0..N : a <= k => f[k] = f[a]}
  <1>1. 0 \in P
    OBVIOUS
  <1>2. ASSUME NEW k \in 0..N, k \in P, k < N PROVE k + 1 \in P
    <2>1. k + 1 \in 1..N /\ k + 1 \in 0..N /\ k + 1 - 1 = k
      BY <1>2
    <2>2. CASE a <= k
      <3>1. f[k] = f[a] /\ a < k + 1
        BY <1>2, <2>2
      <3>2. f[k + 1] = f[a]
        BY <2>1, <3>1
      <3> QED
        BY <2>1, <3>2
    <2>3. CASE a = k + 1
      BY <2>1, <2>3
    <2>4. CASE a > k + 1
      BY <2>1, <2>4
    <2> QED
      BY <2>1, <2>2, <2>3, <2>4
  <1>3. 0..N \subseteq P
    <2> HIDE DEF P
    <2> QED
      BY <1>1, <1>2, Induction
  <1>4. N \in P /\ a <= N
    BY <1>3
  <1> QED
    BY <1>4

\* Unescaping any text: a failure is a "%" without two digits, and keeps the length.
LEMMA UnescapeFails ==
    ASSUME NEW s \in Seq(Nat), Unescape(s).out # "true"
    PROVE  /\ Len(Unescape(s).text) = Len(s)
           /\ \E i \in DOMAIN s : s[i] = Percent /\ ~HasHexDigits(s, i)
  <1> DEFINE N == Len(s)
             Good(t) == /\ t.i <= N + 1 /\ Len(t.text) <= t.i - 1
                        /\ t.out # "true" => \E i \in 1..N : s[i] = Percent /\ ~HasHexDigits(s, i)
  <1>1. PICK f : Turning(f, s) /\ Unescape(s) = Outcome(s, f[N])
    BY UnescapeSteps
  <1>2. N \in Nat /\ \A k \in 0..N : f[k] \in TurnState /\ f[k].i >= 1
    BY <1>1 DEF Turning
  <1> DEFINE P == {k \in 0..N : Good(f[k])}
  <1>3. 0 \in P
    <2>1. f[0] = Begin /\ Begin.i = 1 /\ Begin.out = "true" /\ Begin.text = <<>> /\ Len(<<>>) = 0
      BY <1>1 DEF Turning, Begin
    <2> QED
      BY <1>2, <2>1
  <1>4. ASSUME NEW t \in TurnState, t.i >= 1, Good(t) PROVE Good(Turn(s, t))
    <2> DEFINE u == Turn(s, t)
    <2>1. t.i \in Nat /\ t.text \in Seq(Int) /\ Len(t.text) \in Nat
      BY DEF TurnState
    <2>2. CASE t.i > N \/ t.out # "true"
      <3>1. u = t
        BY <1>4, <2>2, TurnIs
      <3> QED
        BY <1>4, <3>1
    <2>3. CASE t.i <= N /\ t.out = "true" /\ s[t.i] = Percent /\ HasHexDigits(s, t.i)
      <3>1. /\ t.i + 2 <= N /\ u.i = t.i + 3 /\ u.out = "true"
            /\ u.text = Append(t.text, 16 * CharToNumber(s[t.i + 1]) + CharToNumber(s[t.i + 2]))
        BY <1>4, <2>3, TurnIs
      <3> HIDE DEF u
      <3>2. Len(u.text) = Len(t.text) + 1
        BY <2>1, <3>1
      <3>3. u.i = t.i + 3 /\ t.i + 2 <= N /\ Len(t.text) <= t.i - 1
        BY <1>4, <3>1
      <3>4. \A x, y, z, l \in Nat : y = x + 3 /\ x + 2 <= z /\ l <= x - 1 => y <= z + 1 /\ l + 1 <= y - 1
        OBVIOUS
      <3>5. u.i \in Nat
        BY <2>1, <3>3, SMTT(20)
      <3>6. u.i <= N + 1 /\ Len(t.text) + 1 <= u.i - 1
        <4> HIDE DEF N
        <4> QED
          BY <1>2, <2>1, <3>3, <3>4, <3>5, Zenon
      <3> QED
        BY <3>1, <3>2, <3>6 DEF u
    <2>4. CASE t.i <= N /\ t.out = "true" /\ s[t.i] = Percent /\ ~HasHexDigits(s, t.i)
      <3>1. u.i = t.i /\ u.text = t.text
        BY <1>4, <2>4, TurnIs
      <3>2. t.i \in 1..N
        BY <1>2, <1>4, <2>1, <2>4
      <3> HIDE DEF u
      <3>3. u.i <= N + 1 /\ Len(u.text) <= u.i - 1
        BY <1>4, <3>1
      <3> QED
        BY <2>4, <3>2, <3>3 DEF u
    <2>5. CASE t.i <= N /\ t.out = "true" /\ s[t.i] # Percent
      <3>1. /\ u.i = t.i + 1 /\ u.out = "true"
            /\ u.text = Append(t.text, IF s[t.i] = Plus THEN Space ELSE s[t.i])
        BY <1>4, <2>5, TurnIs
      <3> HIDE DEF u
      <3>2. Len(u.text) = Len(t.text) + 1
        BY <2>1, <3>1
      <3>3. u.i <= N + 1 /\ Len(u.text) <= u.i - 1
        BY <1>2, <1>4, <2>1, <2>5, <3>1, <3>2, SMTT(20)
      <3> QED
        BY <3>1, <3>3 DEF u
    <2>6. t.i > N \/ t.i <= N
      BY <1>2, <2>1
    <2> HIDE DEF Good
    <2> QED
      BY <2>2, <2>3, <2>4, <2>5, <2>6, Zenon
  <1>5. ASSUME NEW k \in 0..N, k \in P, k < N PROVE k + 1 \in P
    <2>1. k + 1 \in 1..N /\ k + 1 \in 0..N /\ k + 1 - 1 = k
      BY <1>2, <1>5
    <2>2. f[k + 1] = Turn(s, f[k]) /\ f[k] \in TurnState /\ f[k].i >= 1 /\ Good(f[k])
      BY <1>1, <1>2, <1>5, <2>1 DEF Turning
    <2> HIDE DEF Good
    <2> QED
      BY <1>4, <2>1, <2>2
  <1>6. 0..N \subseteq P
    <2> HIDE DEF P
    <2> QED
      BY <1>2, <1>3, <1>5, Induction
  <1> DEFINE t == f[N]
             rest == SubSeq(s, Len(t.text) + 1, N)
  <1>7. Good(t) /\ t \in TurnState /\ t.i >= 1
    BY <1>2, <1>6
  <1>8. t.out # "true" /\ Unescape(s).text = t.text \o rest
    <2>1. Unescape(s) = Outcome(s, t)
      BY <1>1
    <2> HIDE DEF t, rest
    <2>2. t.out # "true"
      <3>1. ASSUME t.out = "true" PROVE FALSE
        <4>1. Unescape(s) = [out |-> "true", text |-> t.text]
          BY <2>1, <3>1 DEF Outcome
        <4> QED
          BY <4>1
      <3> QED
        BY <3>1
    <2>3. Unescape(s) = [out |-> t.out, text |-> t.text \o SubSeq(s, Len(t.text) + 1, Len(s))]
      BY <2>1, <2>2 DEF Outcome
    <2>4. \A o, x : [out |-> o, text |-> x].text = x
      OBVIOUS
    <2>5. Unescape(s) = [out |-> t.out, text |-> t.text \o rest]
      BY <2>3, Zenon DEF rest, N
    <2> QED
      BY <2>2, <2>4, <2>5, Zenon
  <1>9. Len(t.text) \in Nat /\ t.text \in Seq(Int) /\ Len(t.text) <= N
    <2> HIDE DEF t
    <2>1. t.text \in Seq(Int) /\ t.i \in Nat /\ Len(t.text) \in Nat
      BY <1>7 DEF TurnState
    <2> QED
      BY <1>2, <1>7, <2>1
  <1>10. rest \in Seq(Int) /\ Len(rest) = N - Len(t.text)
    <2> HIDE DEF t
    <2>1. PICK k \in 1..(Len(s) + 1) : k = Len(t.text) + 1
      BY <1>2, <1>9
    <2>2. SubSeq(s, k, Len(s)) \in Seq(Nat) /\ Len(SubSeq(s, k, Len(s))) = Len(s) + 1 - k
      BY Rest
    <2>3. rest = SubSeq(s, k, Len(s))
      BY <2>1
    <2> HIDE DEF rest
    <2>4. rest \in Seq(Nat) /\ Len(rest) = N - Len(t.text)
      <3>1. rest \in Seq(Nat) /\ Len(rest) = Len(s) + 1 - k
        BY <2>2, <2>3, Zenon
      <3>2. Len(s) + 1 - k = N - Len(t.text)
        BY <1>2, <1>9, <2>1
      <3> QED
        BY <3>1, <3>2, Zenon
    <2>5. Seq(Nat) \subseteq Seq(Int)
      BY SeqMonotonic
    <2> QED
      BY <2>4, <2>5
  <1> HIDE DEF rest, t
  <1>11. Len(t.text \o rest) = Len(t.text) + Len(rest)
    BY <1>9, <1>10, ConcatProperties
  <1>12. Len(Unescape(s).text) = N
    BY <1>2, <1>8, <1>9, <1>10, <1>11
  <1> QED
    BY <1>2, <1>7, <1>8, <1>12

-----------------------------------------------------------------------------
\* The characters a client writes, and the text it starts with.
Octet == 0..255
Texts == Seq(Nat)
Blank == <<>>

LEMMA HexDigitIs ==
    ASSUME NEW n \in 0..15
    PROVE  HexDigit(n) \in Nat /\ CharToNumber(HexDigit(n)) = n /\ HexDigit(n) \notin {Ampersand, Equals}
  <1>1. CASE n < 10
    <2>1. PICK x \in 48..57 : x = 48 + n /\ HexDigit(n) = x
      BY <1>1 DEF HexDigit
    <2>2. CharToNumber(x) = x - 48
      BY DEF CharToNumber, DecimalDigit, Lower, Upper
    <2> QED
      BY <2>1, <2>2 DEF Ampersand, Equals
  <1>2. CASE ~(n < 10)
    <2>1. PICK x \in 97..122 : x = 87 + n /\ HexDigit(n) = x
      BY <1>2 DEF HexDigit
    <2>2. CharToNumber(x) = 10 + (x - 97)
      BY DEF CharToNumber, DecimalDigit, Lower, Upper
    <2> QED
      BY <2>1, <2>2 DEF Ampersand, Equals
  <1> QED
    BY <1>1, <1>2

\* How a character is written: itself, or "%" and two digits that mean it; never
\* as a separator.
LEMMA WrittenIs ==
    ASSUME NEW c \in Octet
    PROVE  /\ Written(c) \in Seq(Nat) /\ Len(Written(c)) \in {1, 3}
           /\ \A i \in 1..Len(Written(c)) : Written(c)[i] \notin {Ampersand, Equals}
           /\ Len(Written(c)) = 1 => Written(c)[1] = c /\ c \notin {Percent, Plus}
           /\ Len(Written(c)) = 3 =>
                 /\ Written(c)[1] = Percent
                 /\ CharToNumber(Written(c)[2]) \in 0..15 /\ CharToNumber(Written(c)[3]) \in 0..15
                 /\ 16 * CharToNumber(Written(c)[2]) + CharToNumber(Written(c)[3]) = c
  <1>1. CASE c \in DecimalDigit \cup Lower \cup Upper
    <2>1. Written(c) = <<c>>
      BY <1>1, Zenon DEF Written
    <2>2. c \in Nat /\ c \notin {Percent, Plus, Ampersand, Equals}
      BY <1>1 DEF DecimalDigit, Lower, Upper, Percent, Plus, Ampersand, Equals
    <2>3. <<c>> \in Seq(Nat) /\ Len(<<c>>) = 1 /\ <<c>>[1] = c
      BY <2>2
    <2> QED
      BY <2>1, <2>2, <2>3
  <1>2. CASE c \notin DecimalDigit \cup Lower \cup Upper
    <2>1. PICK h \in 0..15, l \in 0..15 : h = c \div 16 /\ l = c % 16 /\ c = 16 * h + l
      BY DEF Octet
    <2>2. PICK a \in Nat, b \in Nat : a = HexDigit(h) /\ b = HexDigit(l)
      BY HexDigitIs
    <2>3. CharToNumber(a) = h /\ a \notin {Ampersand, Equals}
      BY <2>2, HexDigitIs
    <2>4. CharToNumber(b) = l /\ b \notin {Ampersand, Equals}
      BY <2>2, HexDigitIs
    <2>5. Written(c) = <<Percent, a, b>>
      BY <1>2, <2>1, <2>2, Zenon DEF Written
    <2>6. PICK p \in Nat : p = Percent /\ p \notin {Ampersand, Equals}
      BY DEF Percent, Ampersand, Equals
    <2>7. <<p, a, b>> \in Seq(Nat) /\ Len(<<p, a, b>>) = 3 /\ <<p, a, b>>[1] = p /\ <<p, a, b>>[2] = a /\ <<p, a, b>>[3] = b
      OBVIOUS
    <2>8. PICK w : w = <<p, a, b>>
      OBVIOUS
    <2>9. w \in Seq(Nat) /\ Len(w) = 3 /\ w[1] = p /\ w[2] = a /\ w[3] = b /\ Written(c) = w
      BY <2>5, <2>6, <2>7, <2>8
    <2>10. \A i \in 1..3 : i = 1 \/ i = 2 \/ i = 3
      OBVIOUS
    <2>11. \A i \in 1..3 : w[i] \notin {Ampersand, Equals}
      BY <2>3, <2>4, <2>6, <2>9, <2>10, Zenon
    <2>12. Len(Written(c)) = 3 /\ 3 \in {1, 3} /\ 3 # 1
      BY <2>9
    <2>13. CharToNumber(w[2]) \in 0..15 /\ CharToNumber(w[3]) \in 0..15 /\ 16 * CharToNumber(w[2]) + CharToNumber(w[3]) = c
      BY <2>1, <2>3, <2>4, <2>9
    <2> QED
      BY <2>6, <2>9, <2>11, <2>12, <2>13, Zenon
  <1> QED
    BY <1>1, <1>2

LEMMA WritesIs == \A text \in Texts, c \in Octet : Writes(text, c) \in Texts
  BY WrittenIs DEF Texts, Writes

\* The text, character by character.
LEMMA WritingSteps ==
    ASSUME NEW s \in Seq(Octet)
    PROVE  \E f \in [0..Len(s) -> Texts] :
              /\ f[0] = Blank /\ f[Len(s)] = FoldLeft(Writes, Blank, s)
              /\ \A k \in 1..Len(s) : f[k] = Writes(f[k - 1], s[k])
  <1> DEFINE N == Len(s)
             step == [k \in 1..N |-> [r \in Texts |-> Writes(r, s[k])]]
             Equation(g) == g = [S \in SUBSET (1..N) |->
                                   IF S = {} THEN Blank ELSE Writes(g[S \ {Max(S)}], s[Max(S)])]
             h == CHOOSE g : Equation(g)
  <1>1. N \in Nat /\ DOMAIN s = 1..N /\ \A k \in 1..N : s[k] \in Octet
    OBVIOUS
  <1>2. \A r \in Texts, c \in Octet : Writes(r, c) \in Texts
    BY WritesIs
  <1>3. Blank \in Texts
    BY DEF Blank, Texts
  <1>4. step \in [1..N -> [Texts -> Texts]]
    BY <1>1, <1>2
  <1>5. \A k \in 1..N, r \in Texts : step[k][r] = Writes(r, s[k])
    OBVIOUS
  <1> HIDE DEF N, step
  <1>6. PICK g : FoldedBy(g, N, Texts, Blank, step)
    BY <1>1, <1>3, <1>4, FoldExists
  <1>7. ASSUME NEW S \in SUBSET (1..N)
        PROVE  g[S] = IF S = {} THEN Blank ELSE Writes(g[S \ {Max(S)}], s[Max(S)])
    <2>1. CASE S = {}
      BY <1>6, <2>1 DEF FoldedBy
    <2>2. CASE S # {}
      <3>1. S \in SUBSET (0..N)
        BY <1>1
      <3>2. Max(S) \in 1..N
        BY <1>1, <2>2, <3>1, Greatest
      <3>3. S \ {Max(S)} \in SUBSET (1..N)
        OBVIOUS
      <3>4. g[S \ {Max(S)}] \in Texts
        BY <1>6, <3>3 DEF FoldedBy
      <3>5. g[S] = step[Max(S)][g[S \ {Max(S)}]]
        BY <1>6, <2>2 DEF FoldedBy
      <3> QED
        BY <1>5, <2>2, <3>2, <3>4, <3>5
    <2> QED
      BY <2>1, <2>2
  <1>8. Equation(g)
    <2>1. g = [S \in SUBSET (1..N) |-> g[S]]
      BY <1>6 DEF FoldedBy
    <2> QED
      BY <1>7, <2>1, Zenon
  <1>9. Equation(h)
    BY <1>8, Zenon
  <1>10. FoldLeft(Writes, Blank, s) = h[1..N]
    BY <1>1, Zenon DEF FoldLeft, MapThenFoldSet
  <1>11. \A S \in SUBSET (1..N) :
            h[S] = IF S = {} THEN Blank ELSE Writes(h[S \ {Max(S)}], s[Max(S)])
    <2> DEFINE e == [S \in SUBSET (1..N) |->
                       IF S = {} THEN Blank ELSE Writes(h[S \ {Max(S)}], s[Max(S)])]
    <2>1. h = e
      BY <1>9
    <2>2. \A S \in SUBSET (1..N) :
             e[S] = IF S = {} THEN Blank ELSE Writes(h[S \ {Max(S)}], s[Max(S)])
      OBVIOUS
    <2> HIDE DEF e, h
    <2> QED
      BY <2>1, <2>2
  <1> HIDE DEF h
  <1> DEFINE f == [k \in 0..N |-> h[1..k]]
  <1>12. \A k \in 0..N : f[k] = h[1..k] /\ 1..k \in SUBSET (1..N)
    BY <1>1
  <1>13. f[0] = Blank
    <2>1. 1..0 = {} /\ 0 \in 0..N
      BY <1>1
    <2> QED
      BY <1>11, <1>12, <2>1
  <1> HIDE DEF f
  <1>14. ASSUME NEW k \in 1..N PROVE f[k] = Writes(f[k - 1], s[k])
    <2>1. k \in 0..N /\ k - 1 \in 0..N /\ k \in Nat /\ k # 0
      BY <1>1
    <2>2. Max(1..k) = k /\ (1..k) \ {k} = 1..(k - 1) /\ 1..k # {}
      BY <2>1, PrefixEnd
    <2>3. h[1..k] = Writes(h[1..(k - 1)], s[k])
      BY <1>11, <1>12, <2>1, <2>2
    <2> QED
      BY <1>12, <2>1, <2>3
  <1>15. \A k \in 0..N : f[k] \in Texts
    <2> DEFINE P == {k \in 0..N : f[k] \in Texts}
    <2>1. 0 \in P
      BY <1>1, <1>3, <1>13
    <2>2. ASSUME NEW k \in 0..N, k \in P, k < N PROVE k + 1 \in P
      <3>1. k + 1 \in 1..N /\ k + 1 \in 0..N /\ k + 1 - 1 = k
        BY <1>1, <2>2
      <3>2. f[k + 1] = Writes(f[k], s[k + 1])
        BY <1>14, <3>1
      <3>3. f[k + 1] \in Texts
        BY <1>1, <1>2, <2>2, <3>1, <3>2
      <3> QED
        BY <3>1, <3>3
    <2>3. 0..N \subseteq P
      <3> HIDE DEF P
      <3> QED
        BY <1>1, <2>1, <2>2, Induction
    <2> QED
      BY <2>3
  <1>16. f \in [0..N -> Texts] /\ f[N] = FoldLeft(Writes, Blank, s)
    <2>1. f \in [0..N -> Texts]
      BY <1>15 DEF f
    <2>2. N \in 0..N
      BY <1>1
    <2> QED
      BY <1>10, <1>12, <2>1, <2>2
  <1> QED
    BY <1>13, <1>14, <1>16 DEF N

\* Writing a text: f[k] is what is written after k characters.
Writing(f, s) ==
    /\ f \in [0..Len(s) -> Texts] /\ f[0] = Blank /\ f[Len(s)] = Escaped(s)
    /\ \A k \in 1..Len(s) : f[k] = Writes(f[k - 1], s[k])

LEMMA EscapedSteps ==
    ASSUME NEW s \in Seq(Octet)
    PROVE  \E f : Writing(f, s)
  <1>1. FoldLeft(Writes, Blank, s) = Escaped(s)
    BY Zenon DEF Escaped, Blank
  <1> QED
    BY <1>1, WritingSteps DEF Writing

Grows(f, s, k) ==
    /\ f[k - 1] \in Seq(Nat) /\ f[k] \in Seq(Nat) /\ Written(s[k]) \in Seq(Nat)
    /\ Len(f[k]) = Len(f[k - 1]) + Len(Written(s[k]))
    /\ \A i \in 1..Len(f[k - 1]) : f[k][i] = f[k - 1][i]
    /\ \A i \in 1..Len(Written(s[k])) : f[k][Len(f[k - 1]) + i] = Written(s[k])[i]

\* Each character is written behind the ones before.
LEMMA WritingGrows ==
    ASSUME NEW s \in Seq(Octet), NEW f, Writing(f, s), NEW k \in 1..Len(s)
    PROVE  Grows(f, s, k)
  <1>1. k - 1 \in 0..Len(s) /\ k \in 0..Len(s) /\ s[k] \in Octet
    OBVIOUS
  <1>2. PICK a \in Seq(Nat) : a = f[k - 1]
    BY <1>1 DEF Writing, Texts
  <1>3. PICK w \in Seq(Nat) : w = Written(s[k])
    BY <1>1, WrittenIs
  <1>4. f[k] = a \o w
    BY <1>2, <1>3 DEF Writing, Writes
  <1>5. /\ a \o w \in Seq(Nat) /\ Len(a \o w) = Len(a) + Len(w)
        /\ \A i \in 1..Len(a) : (a \o w)[i] = a[i]
        /\ \A i \in 1..Len(w) : (a \o w)[Len(a) + i] = w[i]
    BY Joined
  <1> QED
    BY <1>2, <1>3, <1>4, <1>5, Zenon DEF Grows

\* What is written stays.
LEMMA WritingStays ==
    ASSUME NEW s \in Seq(Octet), NEW f, Writing(f, s), NEW k \in 0..Len(s)
    PROVE  Len(f[k]) <= Len(Escaped(s)) /\ \A i \in 1..Len(f[k]) : Escaped(s)[i] = f[k][i]
  <1> DEFINE N == Len(s)
             Agrees(m) == Len(f[m]) <= Len(Escaped(s)) /\ \A i \in 1..Len(f[m]) : Escaped(s)[i] = f[m][i]
             P == {m \in 0..N : Agrees(N - m)}
  <1>1. N \in Nat /\ f[N] = Escaped(s) /\ \A m \in 0..N : f[m] \in Seq(Nat) /\ Len(f[m]) \in Nat
    BY DEF Writing, Texts
  <1>2. 0 \in P
    <2>1. N - 0 = N
      BY <1>1
    <2>2. Len(Escaped(s)) <= Len(Escaped(s))
      BY <1>1
    <2>3. Agrees(N)
      BY <1>1, <2>2, Zenon
    <2> HIDE DEF Agrees
    <2> QED
      BY <1>1, <2>1, <2>3
  <1>3. ASSUME NEW m \in 0..N, m \in P, m < N PROVE m + 1 \in P
    <2>1. PICK j \in 1..N : j = N - m /\ N - (m + 1) = j - 1 /\ m + 1 \in 0..N /\ j - 1 \in 0..N
      BY <1>1, <1>3, SMTT(20)
    <2>2. Agrees(j)
      BY <1>3, <2>1
    <2>3. /\ Len(f[j]) = Len(f[j - 1]) + Len(Written(s[j])) /\ Written(s[j]) \in Seq(Nat)
          /\ \A i \in 1..Len(f[j - 1]) : f[j][i] = f[j - 1][i]
      <3>1. Grows(f, s, j)
        BY WritingGrows
      <3> QED
        BY <3>1, Zenon DEF Grows
    <2>4. Len(f[j]) \in Nat /\ Len(f[j - 1]) \in Nat /\ Len(Escaped(s)) \in Nat
      BY <1>1, <2>1
    <2>5. Len(f[j - 1]) <= Len(Escaped(s)) /\ \A i \in 1..Len(f[j - 1]) : i \in 1..Len(f[j])
      <3>1. PICK a \in Nat, b \in Nat, c \in Nat, d \in Nat :
               a = Len(f[j - 1]) /\ b = Len(f[j]) /\ c = Len(Escaped(s)) /\ d = Len(Written(s[j]))
        <4>1. Len(Written(s[j])) \in Nat
          BY <2>3
        <4> QED
          BY <2>4, <4>1, Zenon
      <3>2. b = a + d /\ b <= c
        BY <2>2, <2>3, <3>1, Zenon
      <3>3. a <= c /\ \A i \in 1..a : i \in 1..b
        BY <3>2
      <3> QED
        BY <3>1, <3>3, Zenon
    <2>6. Agrees(j - 1)
      BY <2>2, <2>3, <2>5, Zenon
    <2> HIDE DEF Agrees
    <2> QED
      BY <2>1, <2>6
  <1>4. 0..N \subseteq P
    <2> HIDE DEF P
    <2> QED
      BY <1>1, <1>2, <1>3, Induction
  <1>5. \A n \in Nat : \A x \in 0..n : \E m \in 0..n : n - m = x
    <2> TAKE n \in Nat
    <2> TAKE x \in 0..n
    <2>1. n - x \in 0..n /\ n - (n - x) = x
      OBVIOUS
    <2> QED
      BY <2>1
  <1>6. PICK m \in 0..N : N - m = k
    BY <1>1, <1>5, Zenon
  <1> QED
    BY <1>4, <1>6

\* At least one character is written for each, and no separator.
LEMMA WritingHas ==
    ASSUME NEW s \in Seq(Octet), NEW f, Writing(f, s), NEW k \in 0..Len(s)
    PROVE  Len(f[k]) >= k /\ \A i \in 1..Len(f[k]) : f[k][i] \notin {Ampersand, Equals}
  <1> DEFINE N == Len(s)
             Clean(m) == Len(f[m]) >= m /\ \A i \in 1..Len(f[m]) : f[m][i] \notin {Ampersand, Equals}
             P == {m \in 0..N : Clean(m)}
  <1>1. N \in Nat
    OBVIOUS
  <1>2. 0 \in P
    <2>1. f[0] = <<>> /\ Len(<<>>) = 0
      BY DEF Writing, Blank
    <2>2. Clean(0)
      BY <2>1
    <2> HIDE DEF Clean
    <2> QED
      BY <1>1, <2>2
  <1>3. ASSUME NEW m \in 0..N, m \in P, m < N PROVE m + 1 \in P
    <2>1. PICK j \in 1..N : j = m + 1 /\ j - 1 = m /\ m + 1 \in 0..N
      BY <1>1, <1>3
    <2>2. Clean(m)
      BY <1>3
    <2>3. PICK w \in Seq(Nat) : w = Written(s[j])
      BY WritingGrows DEF Grows
    <2>4. /\ f[m] \in Seq(Nat) /\ Len(f[j]) = Len(f[m]) + Len(w)
          /\ \A i \in 1..Len(f[m]) : f[j][i] = f[m][i]
          /\ \A i \in 1..Len(w) : f[j][Len(f[m]) + i] = w[i]
      <3>1. /\ f[j - 1] \in Seq(Nat) /\ Len(f[j]) = Len(f[j - 1]) + Len(w)
            /\ \A i \in 1..Len(f[j - 1]) : f[j][i] = f[j - 1][i]
            /\ \A i \in 1..Len(w) : f[j][Len(f[j - 1]) + i] = w[i]
        <4>1. Grows(f, s, j)
          BY WritingGrows
        <4> QED
          BY <2>3, <4>1, Zenon DEF Grows
      <3> QED
        BY <2>1, <3>1, Zenon
    <2>5. s[j] \in Octet
      BY <2>1
    <2>6. Len(w) \in {1, 3} /\ \A i \in 1..Len(w) : w[i] \notin {Ampersand, Equals}
      BY <2>3, <2>5, WrittenIs
    <2>7. PICK a \in Nat, b \in Nat : a = Len(f[m]) /\ b = Len(w)
      BY <2>3, <2>4
    <2>8. ASSUME NEW i \in 1..(a + b) PROVE f[j][i] \notin {Ampersand, Equals}
      <3>1. CASE i <= a
        <4>1. i \in 1..a
          BY <3>1
        <4> QED
          BY <2>2, <2>4, <2>7, <4>1
      <3>2. CASE i > a
        <4>1. PICK l \in 1..b : l = i - a /\ i = a + l
          BY <3>2
        <4>2. f[j][a + l] = w[l]
          BY <2>4, <2>7, Zenon
        <4>3. w[l] \notin {Ampersand, Equals}
          BY <2>6, <2>7, Zenon
        <4> QED
          BY <4>1, <4>2, <4>3, Zenon
      <3> QED
        BY <3>1, <3>2
    <2>9. Len(f[j]) >= j
      <3>1. Len(f[j]) = a + b /\ a >= m /\ b \in {1, 3}
        BY <2>2, <2>4, <2>6, <2>7, Zenon
      <3> QED
        BY <2>1, <3>1
    <2>10. Clean(j)
      BY <2>4, <2>7, <2>8, <2>9
    <2> HIDE DEF Clean
    <2> QED
      BY <2>1, <2>10
  <1>4. 0..N \subseteq P
    <2> HIDE DEF P
    <2> QED
      BY <1>1, <1>2, <1>3, Induction
  <1> QED
    BY <1>4

-----------------------------------------------------------------------------
\* One turn of the loop reads one character back.
LEMMA ReadsBack ==
    ASSUME NEW e \in Seq(Nat), NEW c \in Octet, NEW a \in Nat, NEW t \in TurnState, t.i = a + 1, t.out = "true",
           a + Len(Written(c)) <= Len(e), \A i \in 1..Len(Written(c)) : e[a + i] = Written(c)[i]
    PROVE  /\ Turn(e, t).i = a + Len(Written(c)) + 1 /\ Turn(e, t).out = "true"
           /\ Turn(e, t).text = Append(t.text, c)
  <1> DEFINE u == Turn(e, t)
  <1>1. PICK w \in Seq(Nat) : w = Written(c)
    BY WrittenIs
  <1>2. /\ Len(w) \in {1, 3} /\ Len(e) \in Nat
        /\ Len(w) = 1 => w[1] = c /\ c \notin {Percent, Plus}
        /\ Len(w) = 3 => /\ w[1] = Percent
                         /\ CharToNumber(w[2]) \in 0..15 /\ CharToNumber(w[3]) \in 0..15
                         /\ 16 * CharToNumber(w[2]) + CharToNumber(w[3]) = c
    BY <1>1, WrittenIs, SMTT(20)
  <1>3. \A i \in 1..Len(w) : e[a + i] = w[i]
    BY <1>1
  <1>4. t.i >= 1 /\ a + Len(w) <= Len(e)
    BY <1>1
  <1>5. CASE Len(w) = 1
    <2>1. 1 \in 1..Len(w) /\ a + 1 <= Len(e)
      BY <1>4, <1>5
    <2>2. e[t.i] = c /\ t.i <= Len(e)
      BY <1>2, <1>3, <1>5, <2>1
    <2>3. u.i = t.i + 1 /\ u.out = "true" /\ u.text = Append(t.text, IF e[t.i] = Plus THEN Space ELSE e[t.i])
      BY <1>2, <1>4, <1>5, <2>2, TurnIs
    <2>4. (IF e[t.i] = Plus THEN Space ELSE e[t.i]) = c
      BY <1>2, <1>5, <2>2
    <2>5. u.i = a + Len(w) + 1
      BY <1>5, <2>3
    <2> HIDE DEF u
    <2>6. u.text = Append(t.text, c)
      BY <2>3, <2>4, Zenon
    <2> QED
      BY <1>1, <2>3, <2>5, <2>6 DEF u
  <1>6. CASE Len(w) = 3
    <2>1. 1 \in 1..Len(w) /\ 2 \in 1..Len(w) /\ 3 \in 1..Len(w)
      BY <1>6
    <2>2. e[a + 1] = Percent /\ e[a + 2] = w[2] /\ e[a + 3] = w[3]
      BY <1>2, <1>3, <1>6, <2>1
    <2>3. t.i = a + 1 /\ t.i + 1 = a + 2 /\ t.i + 2 = a + 3 /\ t.i + 2 <= Len(e) /\ t.i <= Len(e)
      BY <1>4, <1>6
    <2>4. e[t.i] = Percent /\ e[t.i + 1] = w[2] /\ e[t.i + 2] = w[3]
      BY <2>2, <2>3, Zenon
    <2>5. HasHexDigits(e, t.i)
      <3>1. CharToNumber(e[t.i + 1]) \in 0..15 /\ CharToNumber(e[t.i + 2]) \in 0..15
        BY <1>2, <1>6, <2>4, Zenon
      <3> QED
        BY <2>3, <3>1, Zenon DEF HasHexDigits
    <2>6. /\ u.i = t.i + 3 /\ u.out = "true"
          /\ u.text = Append(t.text, 16 * CharToNumber(e[t.i + 1]) + CharToNumber(e[t.i + 2]))
      BY <1>4, <2>3, <2>4, <2>5, TurnIs
    <2>7. u.i = a + Len(w) + 1
      BY <1>6, <2>3, <2>6
    <2> HIDE DEF u
    <2>8. 16 * CharToNumber(e[t.i + 1]) + CharToNumber(e[t.i + 2]) = c
      BY <1>2, <1>6, <2>4, Zenon
    <2>9. u.text = Append(t.text, c)
      BY <2>6, <2>8, Zenon
    <2> QED
      BY <1>1, <2>6, <2>7, <2>9 DEF u
  <1> QED
    BY <1>2, <1>5, <1>6

\* One character more.
LEMMA Appended ==
    ASSUME NEW T, NEW x \in Seq(T), NEW c \in T
    PROVE  /\ Append(x, c) \in Seq(T) /\ Len(Append(x, c)) = Len(x) + 1 /\ Append(x, c)[Len(x) + 1] = c
           /\ \A i \in 1..Len(x) : Append(x, c)[i] = x[i]
  <1>1. Append(x, c) \in Seq(T) /\ Len(Append(x, c)) = Len(x) + 1
    OBVIOUS
  <1>2. Append(x, c)[Len(x) + 1] = c
    OBVIOUS
  <1>3. \A i \in 1..Len(x) : Append(x, c)[i] = x[i]
    OBVIOUS
  <1> QED
    BY <1>1, <1>2, <1>3

\* Unescaping gives back what was escaped.
LEMMA EscapedUndone ==
    ASSUME NEW s \in Seq(Octet)
    PROVE  Unescape(Escaped(s)) = [out |-> "true", text |-> s]
  <1> DEFINE N == Len(s)
             e == Escaped(s)
             L == Len(e)
  <1>1. PICK f : Writing(f, s)
    BY EscapedSteps
  <1>2. N \in Nat /\ e \in Seq(Nat) /\ e = f[N] /\ L \in Nat /\ \A k \in 1..N : s[k] \in Octet
    BY <1>1 DEF Writing, Texts
  <1>3. N <= L
    <2>1. Len(f[N]) >= N
      BY <1>1, <1>2, WritingHas
    <2> QED
      BY <1>2, <2>1
  <1> HIDE DEF e
  <1>4. PICK g : Turning(g, e) /\ Unescape(e) = Outcome(e, g[L])
    BY <1>2, UnescapeSteps
  <1>5. /\ g[0] = Begin /\ \A k \in 0..L : g[k] \in TurnState /\ g[k].i >= 1
        /\ \A k \in 1..L : g[k] = Turn(e, g[k - 1])
    BY <1>4 DEF Turning
  <1> DEFINE Done(k) == /\ g[k].i = Len(f[k]) + 1 /\ g[k].out = "true" /\ Len(g[k].text) = k
                        /\ \A i \in 1..k : g[k].text[i] = s[i]
             P == {k \in 0..N : Done(k)}
  <1>6. 0 \in P
    <2>1. g[0].i = 1 /\ g[0].out = "true" /\ g[0].text = <<>> /\ f[0] = <<>> /\ Len(<<>>) = 0
      BY <1>1, <1>5 DEF Begin, Writing, Blank
    <2>2. Done(0)
      BY <2>1
    <2> HIDE DEF Done
    <2> QED
      BY <1>2, <2>2
  <1>7. ASSUME NEW k \in 0..N, k \in P, k < N PROVE k + 1 \in P
    <2>1. PICK j \in 1..N : j = k + 1 /\ j - 1 = k /\ k + 1 \in 0..N /\ j \in 1..L /\ k \in 0..L
      BY <1>2, <1>3, <1>7
    <2>2. Done(k)
      BY <1>7
    <2>3. g[j] = Turn(e, g[k])
      BY <1>5, <2>1
    <2>4. PICK w \in Seq(Nat) : w = Written(s[j])
      BY <2>1, <1>2, WrittenIs
    <2>5. /\ f[k] \in Seq(Nat) /\ f[j] \in Seq(Nat) /\ Len(f[j]) = Len(f[k]) + Len(w)
          /\ \A i \in 1..Len(w) : f[j][Len(f[k]) + i] = w[i]
      <3>1. Grows(f, s, j)
        BY <1>1, WritingGrows
      <3> QED
        BY <2>1, <2>4, <3>1, Zenon DEF Grows
    <2>6. Len(f[j]) <= L /\ \A i \in 1..Len(f[j]) : e[i] = f[j][i]
      <3>1. j \in 0..Len(s)
        BY <2>1
      <3> QED
        BY <1>1, <3>1, WritingStays DEF e
    <2>7. PICK a \in Nat, l \in Nat : a = Len(f[k]) /\ l = Len(w)
      BY <2>4, <2>5
    <2>8. Len(f[j]) = a + l /\ a + l <= L
      BY <2>5, <2>6, <2>7, Zenon
    <2>9. ASSUME NEW i \in 1..l PROVE e[a + i] = w[i]
      <3>1. a + i \in 1..(a + l)
        OBVIOUS
      <3> QED
        BY <2>5, <2>6, <2>7, <2>8, <3>1, Zenon
    <2>10. PICK t \in TurnState : t = g[k]
      BY <1>5, <2>1
    <2>11. t.i = a + 1 /\ t.out = "true" /\ Len(t.text) = k /\ \A i \in 1..k : t.text[i] = s[i]
      BY <2>2, <2>7, <2>10, Zenon
    <2>12. PICK c \in Octet : c = s[j]
      BY <1>2
    <2>13. a + Len(Written(c)) <= Len(e) /\ \A i \in 1..Len(Written(c)) : e[a + i] = Written(c)[i]
      BY <2>4, <2>7, <2>8, <2>9, <2>12, Zenon
    <2>14. /\ Turn(e, t).i = a + Len(Written(c)) + 1 /\ Turn(e, t).out = "true"
           /\ Turn(e, t).text = Append(t.text, c)
      <3> HIDE DEF L, N
      <3> QED
        BY <1>2, <2>11, <2>13, ReadsBack
    <2>15. /\ g[j].i = a + l + 1 /\ g[j].out = "true" /\ g[j].text = Append(t.text, c)
      BY <2>3, <2>4, <2>7, <2>10, <2>12, <2>14, Zenon
    <2>16. PICK x \in Seq(Int) : x = t.text
      BY DEF TurnState
    <2>17. c \in Int
      BY DEF Octet
    <2>18. Len(Append(x, c)) = k + 1 /\ Append(x, c)[k + 1] = c /\ \A i \in 1..k : Append(x, c)[i] = s[i]
      <3>1. /\ Len(Append(x, c)) = Len(x) + 1 /\ Append(x, c)[Len(x) + 1] = c
            /\ \A i \in 1..Len(x) : Append(x, c)[i] = x[i]
        BY <2>17, Appended
      <3> QED
        BY <2>11, <2>16, <3>1, Zenon
    <2>19. \A i \in 1..j : Append(x, c)[i] = s[i]
      <3>1. \A i \in 1..j : i \in 1..k \/ i = k + 1
        BY <2>1
      <3> QED
        BY <2>1, <2>12, <2>18, <3>1, Zenon
    <2>20. Done(j)
      BY <2>1, <2>8, <2>15, <2>16, <2>18, <2>19, Zenon
    <2> HIDE DEF Done
    <2> QED
      BY <2>1, <2>20
  <1>8. 0..N \subseteq P
    <2> HIDE DEF P
    <2> QED
      BY <1>2, <1>6, <1>7, Induction
  <1>9. Done(N) /\ N \in 0..L
    BY <1>2, <1>3, <1>8
  <1>10. g[N].i > L
    BY <1>2, <1>9
  <1>11. g[L] = g[N]
    <2>1. ASSUME NEW k \in 1..L, N < k, g[k - 1] = g[N] PROVE g[k] = g[N]
      <3>1. g[k] = Turn(e, g[N])
        BY <1>5, <2>1
      <3>2. PICK t \in TurnState : t = g[N] /\ t.i >= 1 /\ t.i > Len(e)
        BY <1>5, <1>9, <1>10
      <3>3. Turn(e, t) = t
        BY <1>2, <3>2, TurnIs
      <3> QED
        BY <3>1, <3>2, <3>3, Zenon
    <2> HIDE DEF L, N
    <2> QED
      BY <1>2, <1>9, <2>1, Stays
  <1>12. g[L].text = s
    <2>1. PICK x \in Seq(Int) : x = g[L].text
      BY <1>5, <1>9, <1>11 DEF TurnState
    <2>2. s \in Seq(Int)
      <3>1. Octet \subseteq Int
        BY DEF Octet
      <3> QED
        BY <3>1, SeqMonotonic
    <2>3. Len(x) = Len(s) /\ \A i \in 1..Len(x) : x[i] = s[i]
      BY <1>9, <1>11, <2>1, Zenon
    <2> HIDE DEF L, N
    <2> QED
      BY <2>1, <2>2, <2>3, SameText
  <1>13. g[L].out = "true"
    BY <1>9, <1>11, Zenon
  <1>14. Unescape(e) = [out |-> "true", text |-> s]
    BY <1>4, <1>12, <1>13, Zenon DEF Outcome
  <1> QED
    BY <1>14 DEF e

-----------------------------------------------------------------------------
\* The first of some characters from a position on.
LEMMA FirstIs ==
    ASSUME NEW s \in Seq(Nat), NEW i \in 1..(Len(s) + 1), NEW chars
    PROVE  /\ FirstOf(s, i, chars) \in i..(Len(s) + 1)
           /\ FirstOf(s, i, chars) <= Len(s) => s[FirstOf(s, i, chars)] \in chars
           /\ \A j \in i..Len(s) : s[j] \in chars => FirstOf(s, i, chars) <= j
  <1> DEFINE S == {j \in i..Len(s) : s[j] \in chars} \cup {Len(s) + 1}
             r == FirstOf(s, i, chars)
  <1>1. Len(s) \in Nat /\ i \in Nat /\ i >= 1 /\ i <= Len(s) + 1
    OBVIOUS
  <1>2. r = Min(S)
    BY Zenon DEF FirstOf
  <1>3. S \in SUBSET Nat /\ S # {} /\ S \subseteq i..(Len(s) + 1)
    BY <1>1
  <1>4. \A j : j \in S <=> (j \in i..Len(s) /\ s[j] \in chars) \/ j = Len(s) + 1
    BY Zenon
  <1> HIDE DEF S, r
  <1>5. r \in S /\ \A y \in S : r <= y
    BY <1>2, <1>3, Least
  <1>6. r \in i..(Len(s) + 1)
    BY <1>3, <1>5
  <1>7. r <= Len(s) => s[r] \in chars
    <2>1. r <= Len(s) => r # Len(s) + 1
      BY <1>1, <1>6
    <2> QED
      BY <1>4, <1>5, <2>1, Zenon
  <1>8. \A j \in i..Len(s) : s[j] \in chars => r <= j
    BY <1>4, <1>5, Zenon
  <1> QED
    BY <1>6, <1>7, <1>8 DEF r

\* Where a key and its value end, and the two.
KeyEnd(s, i) == FirstOf(s, i, {Ampersand, Equals})
ValueEnd(s, i) == FirstOf(s, KeyEnd(s, i), {Ampersand})
PairAt(s, i) == <<SubSeq(s, i, KeyEnd(s, i) - 1), SubSeq(s, KeyEnd(s, i) + 1, ValueEnd(s, i) - 1)>>
KeyAndValue == Seq(Nat) \X Seq(Nat)

LEMMA PairAtIs ==
    ASSUME NEW s \in Seq(Nat), NEW i \in 1..(Len(s) + 1)
    PROVE  /\ KeyEnd(s, i) \in i..(Len(s) + 1) /\ ValueEnd(s, i) \in i..(Len(s) + 1)
           /\ KeyEnd(s, i) <= ValueEnd(s, i) /\ PairAt(s, i) \in KeyAndValue
  <1>1. Len(s) \in Nat
    OBVIOUS
  <1>2. PICK k \in i..(Len(s) + 1) : k = KeyEnd(s, i)
    BY FirstIs DEF KeyEnd
  <1>3. k \in 1..(Len(s) + 1)
    BY <1>1
  <1>4. PICK v \in k..(Len(s) + 1) : v = FirstOf(s, k, {Ampersand})
    BY <1>3, FirstIs
  <1>5. v = ValueEnd(s, i)
    BY <1>2, <1>4, Zenon DEF ValueEnd
  <1>6. v \in i..(Len(s) + 1) /\ k <= v
    BY <1>1
  <1>7. SubSeq(s, i, k - 1) \in Seq(Nat)
    <2>1. k - 1 \in Int /\ i \in Int /\ 1 <= i /\ k - 1 <= Len(s) /\ i <= k - 1 + 1
      BY <1>1
    <2> QED
      BY <2>1, Piece
  <1>8. SubSeq(s, k + 1, v - 1) \in Seq(Nat)
    <2>1. \A j \in (k + 1)..(v - 1) : j \in 1..Len(s)
      BY <1>1, <1>3
    <2>2. \A j \in (k + 1)..(v - 1) : s[j] \in Nat
      BY <2>1
    <2>3. k + 1 \in Int /\ v - 1 \in Int
      BY <1>1, <1>3
    <2> QED
      BY <2>2, <2>3, SubSeqProperties
  <1>9. PairAt(s, i) = <<SubSeq(s, i, k - 1), SubSeq(s, k + 1, v - 1)>>
    BY <1>2, <1>5, Zenon DEF PairAt
  <1>10. PairAt(s, i) \in KeyAndValue
    <2>1. \A x, y \in Seq(Nat) : <<x, y>> \in KeyAndValue
      BY DEF KeyAndValue
    <2> QED
      BY <1>7, <1>8, <1>9, <2>1, Zenon
  <1> QED
    BY <1>2, <1>5, <1>6, <1>10

\* Recursion forwards, to a position further on, defines a function.
Follows(h, N, S, base, step, nx, E) ==
    /\ h \in [1..N -> S]
    /\ \A i \in 1..N : h[i] = IF i \in E THEN base ELSE step[i][h[nx[i]]]

LEMMA ForwardExists ==
    ASSUME NEW N \in Nat, NEW S, NEW base \in S, NEW step \in [1..N -> [S -> S]], NEW E, NEW nx,
           \A i \in 1..N : i \notin E => nx[i] \in (i + 1)..N
    PROVE  \E h : Follows(h, N, S, base, step, nx, E)
  <1> DEFINE F(h) == [i \in 1..N |-> IF i \in E THEN base ELSE step[i][h[nx[i]]]]
             H == [1..N -> S]
             start == [i \in 1..N |-> base]
             turn == [m \in 1..N |-> [h \in H |-> F(h)]]
  <1>1. \A h \in H, i \in 1..N : F(h)[i] = IF i \in E THEN base ELSE step[i][h[nx[i]]]
    OBVIOUS
  <1>2. \A i \in 1..N : i \notin E => nx[i] \in 1..N /\ nx[i] >= i + 1
    OBVIOUS
  <1>3. ASSUME NEW h \in H PROVE F(h) \in H
    <2>1. ASSUME NEW i \in 1..N PROVE (IF i \in E THEN base ELSE step[i][h[nx[i]]]) \in S
      <3>1. CASE i \in E
        BY <3>1
      <3>2. CASE i \notin E
        <4>1. nx[i] \in 1..N
          BY <1>2, <3>2
        <4>2. h[nx[i]] \in S
          BY <4>1
        <4> QED
          BY <3>2, <4>2
      <3> QED
        BY <3>1, <3>2
    <2> QED
      BY <2>1
  <1>4. start \in H
    OBVIOUS
  <1> HIDE DEF F, start, H
  <1>5. turn \in [1..N -> [H -> H]] /\ \A m \in 1..N, h \in H : turn[m][h] = F(h)
    BY <1>3
  <1> HIDE DEF turn
  <1>6. PICK f \in [0..N -> H] : Builds(f, N, start, turn)
    BY <1>4, <1>5, RecursionExists
  <1>7. \A m \in 0..N : f[m] \in H
    BY <1>6
  <1> DEFINE Fixed(m) == \A i \in 1..N : i + m > N => f[m][i] = F(f[m])[i]
             P == {m \in 0..N : Fixed(m)}
  <1>8. 0 \in P
    <2>1. \A i \in 1..N : ~(i + 0 > N)
      OBVIOUS
    <2>2. Fixed(0)
      BY <2>1, Zenon
    <2> HIDE DEF Fixed
    <2> QED
      BY <2>2
  <1>9. ASSUME NEW m \in 0..N, m \in P, m < N PROVE m + 1 \in P
    <2>1. PICK n \in 1..N : n = m + 1 /\ n - 1 = m /\ n \in 0..N
      BY <1>9
    <2>2. f[n] = F(f[m])
      <3>1. f[n] = turn[n][f[m]]
        BY <1>6, <2>1 DEF Builds
      <3> QED
        BY <1>5, <1>7, <3>1
    <2>3. Fixed(m)
      BY <1>9
    <2>4. ASSUME NEW i \in 1..N, i + n > N PROVE f[n][i] = F(f[n])[i]
      <3>1. CASE i \in E
        BY <1>1, <1>7, <2>1, <2>2, <3>1
      <3>2. CASE i \notin E
        <4>1. PICK x \in 1..N : x = nx[i] /\ x >= i + 1
          BY <1>2, <3>2
        <4>2. x + m > N
          BY <2>1, <2>4, <4>1
        <4>3. f[m][x] = F(f[m])[x]
          BY <2>3, <4>2, Zenon
        <4>4. f[m][x] = f[n][x]
          BY <2>2, <4>3, Zenon
        <4>5. F(f[m])[i] = step[i][f[m][x]] /\ F(f[n])[i] = step[i][f[n][x]]
          BY <1>1, <1>7, <2>1, <3>2, <4>1
        <4> QED
          BY <2>2, <4>4, <4>5, Zenon
      <3> QED
        BY <3>1, <3>2
    <2>5. Fixed(n)
      BY <2>4, Zenon
    <2> HIDE DEF Fixed
    <2> QED
      BY <2>1, <2>5
  <1>10. 0..N \subseteq P
    <2> HIDE DEF P
    <2> QED
      BY <1>8, <1>9, Induction
  <1>11. Fixed(N) /\ N \in 0..N
    BY <1>10
  <1>12. ASSUME NEW i \in 1..N PROVE f[N][i] = IF i \in E THEN base ELSE step[i][f[N][nx[i]]]
    <2>1. i + N > N
      OBVIOUS
    <2>2. f[N][i] = F(f[N])[i]
      BY <1>11, <2>1, Zenon
    <2> QED
      BY <1>1, <1>7, <1>11, <2>2, Zenon
  <1>13. f[N] \in [1..N -> S]
    BY <1>7, <1>11 DEF H
  <1> QED
    BY <1>12, <1>13, Zenon DEF Follows

\* A pair before the others.
Before(p, rest) == <<p>> \o rest

LEMMA BeforeIs ==
    ASSUME NEW T, NEW p \in T, NEW rest \in Seq(T)
    PROVE  /\ Before(p, rest) \in Seq(T) /\ Len(Before(p, rest)) = Len(rest) + 1 /\ Before(p, rest)[1] = p
           /\ \A i \in 1..Len(rest) : Before(p, rest)[i + 1] = rest[i]
  <1>1. PICK x \in Seq(T) : x = <<p>> /\ Len(x) = 1 /\ x[1] = p
    <2>1. <<p>> \in Seq(T) /\ Len(<<p>>) = 1 /\ <<p>>[1] = p
      OBVIOUS
    <2> QED
      BY <2>1, Zenon
  <1>2. Before(p, rest) = x \o rest
    BY <1>1, Zenon DEF Before
  <1>3. /\ x \o rest \in Seq(T) /\ Len(x \o rest) = Len(x) + Len(rest)
        /\ \A i \in 1..Len(x) : (x \o rest)[i] = x[i]
        /\ \A i \in 1..Len(rest) : (x \o rest)[Len(x) + i] = rest[i]
    BY Joined
  <1>4. PICK b : b = x \o rest
    OBVIOUS
  <1>5. b \in Seq(T) /\ Len(b) = 1 + Len(rest) /\ Before(p, rest) = b
    BY <1>1, <1>2, <1>3, <1>4, Zenon
  <1>6. b[1] = p
    <2>1. 1 \in 1..1
      OBVIOUS
    <2> QED
      BY <1>1, <1>3, <1>4, <2>1, Zenon
  <1>7. ASSUME NEW i \in 1..Len(rest) PROVE b[i + 1] = rest[i]
    <2>1. b[1 + i] = rest[i]
      BY <1>1, <1>3, <1>4, Zenon
    <2>2. i + 1 = 1 + i
      OBVIOUS
    <2> QED
      BY <2>1, <2>2, Zenon
  <1>8. Len(b) = Len(rest) + 1
    BY <1>5
  <1> QED
    BY <1>5, <1>6, <1>7, <1>8, Zenon

\* The pairs from each position on.
PairsBy(h, s) ==
    /\ \A i \in 1..(Len(s) + 2) : h[i] \in Seq(KeyAndValue)
    /\ Pairs(s) = h[1] /\ h[Len(s) + 1] = <<>> /\ h[Len(s) + 2] = <<>>
    /\ \A i \in 1..Len(s) : h[i] = Before(PairAt(s, i), h[ValueEnd(s, i) + 1])

LEMMA PairsSteps ==
    ASSUME NEW s \in Seq(Nat)
    PROVE  \E h : PairsBy(h, s)
  <1> DEFINE L == Len(s)
             N == L + 2
             S == Seq(KeyAndValue)
             E == {i \in 1..N : i > L}
             nx == [i \in 1..N |-> ValueEnd(s, i) + 1]
             step == [i \in 1..N |-> [r \in S |-> IF i > L THEN r ELSE Before(PairAt(s, i), r)]]
             At(g, i) == IF i > L THEN <<>> ELSE Before(PairAt(s, i), g[ValueEnd(s, i) + 1])
             Equation(g) == g = [i \in 1..N |-> At(g, i)]
             h == CHOOSE g : Equation(g)
  <1>1. L \in Nat /\ N \in Nat
    OBVIOUS
  <1>2. \A i \in 1..N : i > L \/ i \in 1..L
    BY <1>1
  <1>3. ASSUME NEW i \in 1..L PROVE PairAt(s, i) \in KeyAndValue /\ ValueEnd(s, i) + 1 \in (i + 1)..N
    <2>1. i \in 1..(Len(s) + 1)
      BY <1>1
    <2>2. PairAt(s, i) \in KeyAndValue /\ ValueEnd(s, i) \in i..(Len(s) + 1)
      BY <2>1, PairAtIs
    <2> QED
      BY <1>1, <2>2
  <1>4. <<>> \in S
    OBVIOUS
  <1>5. \A r \in S, i \in 1..L : Before(PairAt(s, i), r) \in S
    BY <1>3, BeforeIs
  <1>6. \A i \in 1..N : i \notin E => nx[i] \in (i + 1)..N /\ i \in 1..L
    BY <1>2, <1>3
  <1>7. \A i \in 1..N : i \in E <=> i > L
    OBVIOUS
  <1>8. \A i \in 1..N : nx[i] = ValueEnd(s, i) + 1
    OBVIOUS
  <1> HIDE DEF L, N, S
  <1>9. step \in [1..N -> [S -> S]]
    BY <1>2, <1>5
  <1>10. \A i \in 1..N, r \in S : ~(i > L) => step[i][r] = Before(PairAt(s, i), r)
    OBVIOUS
  <1> HIDE DEF E, nx, step
  <1>11. PICK g : Follows(g, N, S, <<>>, step, nx, E)
    BY <1>1, <1>4, <1>6, <1>9, ForwardExists
  <1>12. g = [i \in 1..N |-> g[i]] /\ \A i \in 1..N : g[i] \in S
    BY <1>11 DEF Follows
  <1>13. ASSUME NEW i \in 1..N PROVE g[i] = At(g, i)
    <2>1. CASE i > L
      BY <1>7, <1>11, <2>1, Zenon DEF Follows
    <2>2. CASE ~(i > L)
      <3>1. nx[i] \in 1..N /\ i \in 1..L
        BY <1>1, <1>6, <1>7, <2>2
      <3>2. g[i] = step[i][g[nx[i]]]
        BY <1>7, <1>11, <2>2, Zenon DEF Follows
      <3>3. g[nx[i]] \in S
        BY <1>12, <3>1
      <3>4. step[i][g[nx[i]]] = Before(PairAt(s, i), g[nx[i]])
        BY <1>10, <2>2, <3>3
      <3> QED
        BY <1>8, <2>2, <3>2, <3>4, Zenon
    <2> QED
      BY <2>1, <2>2
  <1>14. Equation(g)
    BY <1>12, <1>13, Zenon
  <1>15. Equation(h)
    BY <1>14, Zenon
  <1>16. \A i \in 1..N : h[i] = At(h, i)
    <2> DEFINE e == [i \in 1..N |-> At(h, i)]
    <2>1. h = e
      BY <1>15
    <2>2. \A i \in 1..N : e[i] = At(h, i)
      BY Zenon
    <2> HIDE DEF e, h
    <2> QED
      BY <2>1, <2>2, Zenon
  <1>17. Pairs(s) = h[1]
    BY Zenon DEF Pairs, PairAt, KeyEnd, ValueEnd, Before, L, N
  <1> HIDE DEF h
  <1> DEFINE Typed(m) == \A i \in 1..N : i + m > N => h[i] \in S
             P == {m \in 0..N : Typed(m)}
  <1>18. 0 \in P
    <2>1. \A i \in 1..N : ~(i + 0 > N)
      BY <1>1
    <2>2. Typed(0)
      BY <2>1, Zenon
    <2> HIDE DEF Typed
    <2> QED
      BY <1>1, <2>2
  <1>19. ASSUME NEW m \in 0..N, m \in P, m < N PROVE m + 1 \in P
    <2>1. Typed(m) /\ m + 1 \in 0..N
      BY <1>1, <1>19
    <2>2. ASSUME NEW i \in 1..N, i + (m + 1) > N PROVE h[i] \in S
      <3>1. CASE i > L
        BY <1>4, <1>16, <3>1, Zenon
      <3>2. CASE ~(i > L)
        <4>1. i \in 1..L
          BY <1>2, <3>2
        <4>2. PICK x \in (i + 1)..N : x = ValueEnd(s, i) + 1
          BY <1>3, <4>1
        <4>3. x \in 1..N /\ x + m > N
          BY <1>1, <2>2, <4>2
        <4>4. h[x] \in S
          BY <2>1, <4>3, Zenon
        <4>5. h[i] = Before(PairAt(s, i), h[x])
          BY <1>16, <3>2, <4>2, Zenon
        <4> QED
          BY <1>5, <4>1, <4>4, <4>5, Zenon
      <3> QED
        BY <3>1, <3>2
    <2>3. Typed(m + 1)
      BY <2>2, Zenon
    <2> HIDE DEF Typed
    <2> QED
      BY <2>1, <2>3
  <1>20. 0..N \subseteq P
    <2> HIDE DEF P
    <2> QED
      BY <1>1, <1>18, <1>19, Induction
  <1>21. ASSUME NEW i \in 1..N PROVE h[i] \in S
    <2>1. N \in 0..N /\ i + N > N
      BY <1>1
    <2>2. Typed(N)
      BY <1>20, <2>1, Zenon
    <2> QED
      BY <2>1, <2>2, Zenon
  <1>22. h[L + 1] = <<>> /\ h[L + 2] = <<>>
    <2>1. L + 1 \in 1..N /\ L + 2 \in 1..N /\ L + 1 > L /\ L + 2 > L
      BY <1>1 DEF N
    <2> QED
      BY <1>16, <2>1, Zenon
  <1>23. \A i \in 1..L : h[i] = Before(PairAt(s, i), h[ValueEnd(s, i) + 1])
    <2>1. \A i \in 1..L : i \in 1..N /\ ~(i > L)
      BY <1>1 DEF N
    <2> QED
      BY <1>16, <2>1, Zenon
  <1>24. \A i \in 1..N : h[i] \in S
    BY <1>21
  <1> QED
    BY <1>17, <1>22, <1>23, <1>24, Zenon DEF PairsBy, L, N, S

-----------------------------------------------------------------------------
\* From a on, b is the end of a piece: no "&" up to it, and one behind it if it is
\* not the end of the text.
PieceEnds(s, a, b) ==
    /\ a \in 1..(Len(s) + 1) /\ b \in 0..Len(s) /\ a <= b + 1
    /\ \A j \in a..b : s[j] # Ampersand
    /\ b < Len(s) => s[b + 1] = Ampersand

\* The value ends where the piece does, and the key there or at the first "=".
LEMMA EndsAt ==
    ASSUME NEW s \in Seq(Nat), NEW a, NEW b, PieceEnds(s, a, b)
    PROVE  /\ ValueEnd(s, a) = b + 1 /\ KeyEnd(s, a) \in a..(b + 1)
           /\ KeyEnd(s, a) <= b => s[KeyEnd(s, a)] = Equals
           /\ \A j \in a..b : s[j] = Equals => KeyEnd(s, a) <= j
  <1>1. PICK L \in Nat : L = Len(s)
    OBVIOUS
  <1>2. /\ a \in 1..(L + 1) /\ a \in Nat /\ b \in 0..L /\ b \in Nat /\ a <= b + 1 /\ \A j \in a..b : s[j] # Ampersand
        /\ b < L => s[b + 1] = Ampersand
    BY <1>1 DEF PieceEnds
  <1>3. PICK k \in a..(L + 1) : /\ k = KeyEnd(s, a)
                                /\ k <= L => s[k] \in {Ampersand, Equals}
                                /\ \A j \in a..L : s[j] \in {Ampersand, Equals} => k <= j
    BY <1>1, <1>2, FirstIs DEF KeyEnd
  <1>4. k \in 1..(L + 1) /\ k \in Nat
    BY <1>2
  <1>5. PICK v \in k..(L + 1) : /\ v = FirstOf(s, k, {Ampersand})
                                /\ v <= L => s[v] \in {Ampersand}
                                /\ \A j \in k..L : s[j] \in {Ampersand} => v <= j
    BY <1>1, <1>4, FirstIs
  <1>6. v = ValueEnd(s, a) /\ v \in Nat
    BY <1>3, <1>4, <1>5 DEF ValueEnd
  <1>7. k <= b + 1
    <2>1. CASE b < L
      <3>1. b + 1 \in a..L /\ s[b + 1] = Ampersand
        BY <1>2, <2>1
      <3> QED
        BY <1>3, <3>1
    <2>2. CASE ~(b < L)
      BY <1>2, <2>2
    <2> QED
      BY <2>1, <2>2
  <1>8. v >= b + 1
    <2> SUFFICES ASSUME v < b + 1 PROVE FALSE
      BY <1>2, <1>6
    <2>1. v <= L /\ v \in a..b
      BY <1>2, <1>4, <1>6
    <2> QED
      BY <1>2, <1>5, <2>1
  <1>9. v <= b + 1
    <2>1. CASE b < L
      <3>1. b + 1 \in k..L /\ s[b + 1] = Ampersand
        BY <1>2, <1>4, <1>7, <2>1
      <3> QED
        BY <1>5, <3>1
    <2>2. CASE ~(b < L)
      BY <1>2, <1>4, <2>2
    <2> QED
      BY <2>1, <2>2
  <1>10. v = b + 1 /\ k \in a..(b + 1)
    BY <1>2, <1>4, <1>6, <1>7, <1>8, <1>9
  <1>11. k <= b => s[k] = Equals
    <2> SUFFICES ASSUME k <= b PROVE s[k] = Equals
      OBVIOUS
    <2>1. k <= L /\ k \in a..b
      BY <1>2, <1>4
    <2> QED
      BY <1>2, <1>3, <2>1
  <1>12. \A j \in a..b : s[j] = Equals => k <= j
    <2>1. \A j \in a..b : j \in a..L
      BY <1>2
    <2> QED
      BY <1>3, <2>1
  <1> QED
    BY <1>3, <1>6, <1>10, <1>11, <1>12

\* The first "=" of a piece, or 0.
FirstEquals(p) == LET I == {i \in 1..Len(p) : p[i] = Equals} IN IF I # {} THEN Min(I) ELSE 0

\* What CutPiece makes of a piece is the pair that starts there.
LEMMA PairIsCut ==
    ASSUME NEW s \in Seq(Nat), NEW a, NEW b, PieceEnds(s, a, b)
    PROVE  PairAt(s, a) = CutPiece(SubSeq(s, a, b))
  <1>1. PICK L \in Nat : L = Len(s)
    OBVIOUS
  <1>2. a \in 1..(L + 1) /\ a \in Int /\ b \in 0..L /\ b \in Int /\ a <= b + 1 /\ 1 <= a /\ b <= L
    BY <1>1 DEF PieceEnds
  <1>3. PICK k \in a..(b + 1) : /\ k = KeyEnd(s, a)
                                /\ k <= b => s[k] = Equals
                                /\ \A j \in a..b : s[j] = Equals => k <= j
    BY EndsAt
  <1>4. PICK v : v = ValueEnd(s, a) /\ v - 1 = b
    <2>1. ValueEnd(s, a) = b + 1
      BY EndsAt
    <2>2. ValueEnd(s, a) - 1 = b
      BY <1>2, <2>1
    <2> QED
      BY <2>2, Zenon
  <1>5. PairAt(s, a) = <<SubSeq(s, a, k - 1), SubSeq(s, k + 1, b)>>
    <2>1. PairAt(s, a) = <<SubSeq(s, a, k - 1), SubSeq(s, k + 1, v - 1)>>
      BY <1>3, <1>4, Zenon DEF PairAt
    <2> QED
      BY <1>4, <2>1, Zenon
  <1> DEFINE p == SubSeq(s, a, b)
             I == {i \in 1..Len(p) : p[i] = Equals}
             e == FirstEquals(p)
  <1>6. CutPiece(p) = IF e = 0 THEN <<p, <<>>>> ELSE <<SubSeq(p, 1, e - 1), SubSeq(p, e + 1, Len(p))>>
    BY Zenon DEF CutPiece, SelectInSeq, FirstEquals
  <1>7. p \in Seq(Nat) /\ Len(p) = b - a + 1 /\ \A i \in 1..(b - a + 1) : p[i] = s[a + i - 1]
    <2>1. s \in Seq(Nat) /\ a \in Int /\ b \in Int /\ 1 <= a /\ b <= Len(s) /\ a <= b + 1
      BY <1>1, <1>2, Zenon
    <2> QED
      BY <2>1, Piece, Zenon
  <1>8. e = IF I # {} THEN Min(I) ELSE 0
    BY Zenon DEF FirstEquals
  <1> HIDE DEF p, e
  <1>9. PICK l \in Nat : l = Len(p) /\ l = b - a + 1
    BY <1>2, <1>7
  <1>10. k \in Int /\ a <= k /\ k <= b + 1
    BY <1>2
  <1>11. CASE k <= b
    <2>1. PICK m \in 1..l : m = k - a + 1 /\ a + m - 1 = k
      BY <1>2, <1>9, <1>10, <1>11
    <2>2. p[m] = Equals
      BY <1>3, <1>7, <1>9, <1>11, <2>1
    <2>3. m \in I /\ I \in SUBSET Nat /\ \A i \in I : i \in 1..l /\ p[i] = Equals
      BY <1>9, <2>1, <2>2
    <2> HIDE DEF I
    <2>4. PICK n : n = Min(I) /\ n \in I /\ n <= m
      BY <2>3, Least
    <2>5. n \in 1..l /\ s[a + n - 1] = Equals /\ a + n - 1 \in a..b
      <3>1. n \in 1..l /\ p[n] = Equals
        BY <2>3, <2>4, Zenon
      <3>2. n \in 1..(b - a + 1)
        BY <1>9, <3>1, Zenon
      <3>3. a + n - 1 \in a..b
        BY <1>2, <3>2
      <3>4. p[n] = s[a + n - 1]
        BY <1>7, <3>2, Zenon
      <3> QED
        BY <3>1, <3>3, <3>4, Zenon
    <2>6. k <= a + n - 1
      BY <1>3, <2>5
    <2>7. n = m
      BY <1>2, <1>10, <2>1, <2>4, <2>5, <2>6
    <2>8. e = m /\ m # 0
      BY <1>8, <2>1, <2>3, <2>4, <2>7
    <2>9. SubSeq(p, 1, m - 1) = SubSeq(s, a, k - 1)
      <3>1. PICK c \in Int, d \in Int : c = 1 /\ d = m - 1
        BY <2>1
      <3>2. 1 <= c /\ d <= b - a + 1 /\ c <= d + 1 /\ a + c - 1 = a /\ a + d - 1 = k - 1
        BY <1>2, <1>9, <1>10, <2>1, <3>1
      <3>3. SubSeq(SubSeq(s, a, b), c, d) = SubSeq(s, a + c - 1, a + d - 1)
        BY <1>1, <1>2, <3>2, PieceOfPiece
      <3> QED
        BY <3>1, <3>2, <3>3, Zenon DEF p
    <2>10. SubSeq(p, m + 1, Len(p)) = SubSeq(s, k + 1, b)
      <3>1. PICK c \in Int, d \in Int : c = m + 1 /\ d = l
        BY <2>1
      <3>2. 1 <= c /\ d <= b - a + 1 /\ c <= d + 1
        BY <1>2, <1>9, <2>1, <3>1
      <3>5. a + c - 1 = k + 1
        BY <1>2, <1>10, <2>1, <3>1
      <3>6. a + d - 1 = b
        BY <1>2, <1>9, <3>1
      <3>3. SubSeq(SubSeq(s, a, b), c, d) = SubSeq(s, a + c - 1, a + d - 1)
        BY <1>1, <1>2, <3>2, PieceOfPiece
      <3>4. SubSeq(SubSeq(s, a, b), c, d) = SubSeq(s, k + 1, b)
        BY <3>3, <3>5, <3>6, Zenon
      <3> QED
        BY <1>9, <3>1, <3>4, Zenon DEF p
    <2> QED
      BY <1>5, <1>6, <2>8, <2>9, <2>10, Zenon DEF p
  <1>12. CASE ~(k <= b)
    <2>1. k = b + 1 /\ k - 1 = b /\ k + 1 = b + 2
      BY <1>2, <1>10, <1>12
    <2>2. ASSUME NEW i \in 1..l, p[i] = Equals PROVE FALSE
      <3>1. s[a + i - 1] = Equals /\ a + i - 1 \in a..b
        <4>1. i \in 1..(b - a + 1)
          BY <1>9, Zenon
        <4>2. a + i - 1 \in a..b
          BY <1>2, <4>1
        <4>3. p[i] = s[a + i - 1]
          BY <1>7, <4>1, Zenon
        <4> QED
          BY <2>2, <4>2, <4>3, Zenon
      <3>2. k <= a + i - 1
        BY <1>3, <3>1
      <3> QED
        BY <1>2, <1>9, <2>1, <3>1, <3>2
    <2>3. I = {}
      BY <1>9, <2>2
    <2>4. e = 0
      BY <1>8, <2>3, Zenon
    <2>5. SubSeq(s, b + 2, b) = <<>>
      <3>1. PICK c \in Int : c = b + 2 /\ c > b
        BY <1>2
      <3>2. SubSeq(s, c, b) = <<>>
        <4>1. \A j \in c..b : s[j] \in Nat
          BY <1>2, <3>1
        <4>2. SubSeq(s, c, b) \in Seq(Nat) /\ Len(SubSeq(s, c, b)) = 0
          BY <1>2, <3>1, <4>1, SubSeqProperties
        <4> QED
          BY <4>2
      <3> QED
        BY <3>1, <3>2, Zenon
    <2> QED
      BY <1>5, <1>6, <2>1, <2>4, <2>5, Zenon DEF p
  <1> QED
    BY <1>11, <1>12 DEF p

-----------------------------------------------------------------------------
\* The last element of a sequence and those before it.
LEMMA FrontLast ==
    ASSUME NEW T, NEW q \in Seq(T), NEW x \in T
    PROVE  Front(Append(q, x)) = q /\ Last(Append(q, x)) = x
  <1> DEFINE r == Append(q, x)
  <1>1. /\ r \in Seq(T) /\ Len(r) = Len(q) + 1 /\ r[Len(q) + 1] = x
        /\ \A i \in 1..Len(q) : r[i] = q[i]
    BY Appended
  <1> HIDE DEF r
  <1>2. PICK n \in Nat : n = Len(q) /\ Len(r) = n + 1 /\ Len(r) - 1 = n
    BY <1>1
  <1>3. Last(r) = x
    BY <1>1, <1>2, Zenon DEF Last
  <1>4. Front(r) = SubSeq(r, 1, n)
    BY <1>2, Zenon DEF Front
  <1>5. SubSeq(r, 1, n) \in Seq(T) /\ Len(SubSeq(r, 1, n)) = n /\ \A i \in 1..n : SubSeq(r, 1, n)[i] = r[i]
    <2>1. n <= Len(r)
      BY <1>2
    <2> QED
      BY <1>1, <2>1, FirstPiece
  <1>6. PICK f \in Seq(T) : f = SubSeq(r, 1, n)
    BY <1>5
  <1>7. Len(f) = Len(q) /\ \A i \in 1..Len(f) : f[i] = q[i]
    BY <1>1, <1>2, <1>5, <1>6, Zenon
  <1>8. f = q
    BY <1>7, SameText
  <1> QED
    BY <1>3, <1>4, <1>6, <1>8 DEF r

\* A sequence is its last element behind those before it.
LEMMA FrontAndLast ==
    ASSUME NEW T, NEW q \in Seq(T), q # <<>>
    PROVE  Front(q) \in Seq(T) /\ Last(q) \in T /\ q = Append(Front(q), Last(q))
  <1>1. PICK n \in Nat : Len(q) = n + 1 /\ Len(q) - 1 = n /\ n + 1 \in 1..Len(q)
    <2>1. Len(q) \in Nat /\ Len(q) # 0
      OBVIOUS
    <2>2. \A l \in Nat : l # 0 => l - 1 \in Nat /\ l = (l - 1) + 1 /\ (l - 1) + 1 \in 1..l
      OBVIOUS
    <2> QED
      BY <2>1, <2>2, Zenon
  <1>2. PICK x \in T : x = Last(q) /\ x = q[n + 1]
    BY <1>1 DEF Last
  <1>3. Front(q) = SubSeq(q, 1, n)
    BY <1>1, Zenon DEF Front
  <1>4. SubSeq(q, 1, n) \in Seq(T) /\ Len(SubSeq(q, 1, n)) = n /\ \A i \in 1..n : SubSeq(q, 1, n)[i] = q[i]
    <2>1. n <= Len(q)
      BY <1>1
    <2> QED
      BY <1>1, <2>1, FirstPiece
  <1>5. PICK f \in Seq(T) : f = SubSeq(q, 1, n) /\ Len(f) = n
    BY <1>4
  <1>6. PICK r \in Seq(T) : r = Append(f, x) /\ Len(r) = n + 1 /\ r[n + 1] = x /\ \A i \in 1..n : r[i] = f[i]
    <2>1. /\ Append(f, x) \in Seq(T) /\ Len(Append(f, x)) = Len(f) + 1 /\ Append(f, x)[Len(f) + 1] = x
          /\ \A i \in 1..Len(f) : Append(f, x)[i] = f[i]
      BY Appended
    <2> QED
      BY <1>5, <2>1, Zenon
  <1>7. \A i \in 1..(n + 1) : i \in 1..n \/ i = n + 1
    OBVIOUS
  <1>8. Len(q) = Len(r) /\ \A i \in 1..Len(q) : q[i] = r[i]
    BY <1>1, <1>2, <1>4, <1>5, <1>6, <1>7, Zenon
  <1>9. q = r
    BY <1>8, SameText
  <1> QED
    BY <1>2, <1>3, <1>5, <1>6, <1>9, Zenon

\* One character more: it begins a piece or is the end of the last one.
PieceLists == {q \in Seq(Seq(Nat)) : q # <<>>}
OnePiece == <<<<>>>>

LEMMA OnePieceIs == OnePiece \in PieceLists /\ Front(OnePiece) = <<>> /\ Last(OnePiece) = <<>>
  <1>1. <<>> \in Seq(Nat)
    OBVIOUS
  <1>2. PICK e \in Seq(Nat) : e = <<>>
    BY <1>1
  <1>3. <<e>> \in Seq(Seq(Nat)) /\ <<e>> # <<>> /\ <<e>> = Append(<<>>, e) /\ <<>> \in Seq(Seq(Nat))
    OBVIOUS
  <1>4. Front(Append(<<>>, e)) = <<>> /\ Last(Append(<<>>, e)) = e
    BY <1>3, FrontLast
  <1> QED
    BY <1>2, <1>3, <1>4, Zenon DEF OnePiece, PieceLists

LEMMA SplitIs ==
    ASSUME NEW q \in PieceLists, NEW c \in Nat
    PROVE  /\ Split(q, c) \in PieceLists
           /\ c = Ampersand => Front(Split(q, c)) = q /\ Last(Split(q, c)) = <<>>
           /\ c # Ampersand => Front(Split(q, c)) = Front(q) /\ Last(Split(q, c)) = Append(Last(q), c)
  <1>1. q \in Seq(Seq(Nat)) /\ q # <<>>
    BY DEF PieceLists
  <1>2. PICK f \in Seq(Seq(Nat)), l \in Seq(Nat) : f = Front(q) /\ l = Last(q)
    BY <1>1, FrontAndLast
  <1>3. PICK e \in Seq(Nat) : e = <<>>
    <2>1. <<>> \in Seq(Nat)
      OBVIOUS
    <2> QED
      BY <2>1, Zenon
  <1>4. ASSUME NEW g \in Seq(Seq(Nat)), NEW x \in Seq(Nat)
        PROVE  Append(g, x) \in PieceLists /\ Front(Append(g, x)) = g /\ Last(Append(g, x)) = x
    <2>1. Append(g, x) \in Seq(Seq(Nat)) /\ Append(g, x) # <<>>
      <3>1. Append(g, x) \in Seq(Seq(Nat)) /\ Len(Append(g, x)) = Len(g) + 1
        BY Appended
      <3>2. Len(g) \in Nat /\ Len(g) + 1 # 0
        OBVIOUS
      <3>3. Len(<<>>) = 0
        OBVIOUS
      <3> QED
        BY <3>1, <3>2, <3>3, Zenon
    <2>2. Front(Append(g, x)) = g /\ Last(Append(g, x)) = x
      BY FrontLast
    <2> QED
      BY <2>1, <2>2, Zenon DEF PieceLists
  <1>5. CASE c = Ampersand
    <2>1. Split(q, c) = Append(q, e)
      BY <1>3, <1>5, Zenon DEF Split
    <2> QED
      BY <1>1, <1>3, <1>4, <1>5, <2>1, Zenon
  <1>6. CASE c # Ampersand
    <2>1. PICK m \in Seq(Nat) : m = Append(l, c)
      <3>1. Append(l, c) \in Seq(Nat)
        BY Appended
      <3> QED
        BY <3>1, Zenon
    <2>2. Split(q, c) = Append(f, m)
      BY <1>2, <1>6, <2>1, Zenon DEF Split
    <2> QED
      BY <1>2, <1>4, <1>6, <2>1, <2>2, Zenon
  <1> QED
    BY <1>5, <1>6

LEMMA SplitTyped == \A q \in PieceLists, c \in Nat : Split(q, c) \in PieceLists
  BY SplitIs

\* The pieces, character by character.
LEMMA SplitSteps ==
    ASSUME NEW s \in Seq(Nat)
    PROVE  \E f \in [0..Len(s) -> PieceLists] :
              /\ f[0] = OnePiece /\ f[Len(s)] = FoldLeft(Split, OnePiece, s)
              /\ \A k \in 1..Len(s) : f[k] = Split(f[k - 1], s[k])
  <1> DEFINE N == Len(s)
             step == [k \in 1..N |-> [r \in PieceLists |-> Split(r, s[k])]]
             Equation(g) == g = [S \in SUBSET (1..N) |->
                                   IF S = {} THEN OnePiece ELSE Split(g[S \ {Max(S)}], s[Max(S)])]
             h == CHOOSE g : Equation(g)
  <1>1. N \in Nat /\ DOMAIN s = 1..N /\ \A k \in 1..N : s[k] \in Nat
    OBVIOUS
  <1>2. \A r \in PieceLists, c \in Nat : Split(r, c) \in PieceLists
    BY SplitTyped
  <1>3. OnePiece \in PieceLists
    BY OnePieceIs
  <1>4. step \in [1..N -> [PieceLists -> PieceLists]]
    BY <1>1, <1>2
  <1>5. \A k \in 1..N, r \in PieceLists : step[k][r] = Split(r, s[k])
    OBVIOUS
  <1> HIDE DEF N, step
  <1>6. PICK g : FoldedBy(g, N, PieceLists, OnePiece, step)
    BY <1>1, <1>3, <1>4, FoldExists
  <1>7. ASSUME NEW S \in SUBSET (1..N)
        PROVE  g[S] = IF S = {} THEN OnePiece ELSE Split(g[S \ {Max(S)}], s[Max(S)])
    <2>1. CASE S = {}
      BY <1>6, <2>1 DEF FoldedBy
    <2>2. CASE S # {}
      <3>1. S \in SUBSET (0..N)
        BY <1>1
      <3>2. Max(S) \in 1..N
        BY <1>1, <2>2, <3>1, Greatest
      <3>3. S \ {Max(S)} \in SUBSET (1..N)
        OBVIOUS
      <3>4. g[S \ {Max(S)}] \in PieceLists
        BY <1>6, <3>3 DEF FoldedBy
      <3>5. g[S] = step[Max(S)][g[S \ {Max(S)}]]
        BY <1>6, <2>2 DEF FoldedBy
      <3> QED
        BY <1>5, <2>2, <3>2, <3>4, <3>5
    <2> QED
      BY <2>1, <2>2
  <1>8. Equation(g)
    <2>1. g = [S \in SUBSET (1..N) |-> g[S]]
      BY <1>6 DEF FoldedBy
    <2> QED
      BY <1>7, <2>1, Zenon
  <1>9. Equation(h)
    BY <1>8, Zenon
  <1>10. FoldLeft(Split, OnePiece, s) = h[1..N]
    BY <1>1, Zenon DEF FoldLeft, MapThenFoldSet
  <1>11. \A S \in SUBSET (1..N) :
            h[S] = IF S = {} THEN OnePiece ELSE Split(h[S \ {Max(S)}], s[Max(S)])
    <2> DEFINE e == [S \in SUBSET (1..N) |->
                       IF S = {} THEN OnePiece ELSE Split(h[S \ {Max(S)}], s[Max(S)])]
    <2>1. h = e
      BY <1>9
    <2>2. \A S \in SUBSET (1..N) :
             e[S] = IF S = {} THEN OnePiece ELSE Split(h[S \ {Max(S)}], s[Max(S)])
      OBVIOUS
    <2> HIDE DEF e, h
    <2> QED
      BY <2>1, <2>2
  <1> HIDE DEF h
  <1> DEFINE f == [k \in 0..N |-> h[1..k]]
  <1>12. \A k \in 0..N : f[k] = h[1..k] /\ 1..k \in SUBSET (1..N)
    BY <1>1
  <1>13. f[0] = OnePiece
    <2>1. 1..0 = {} /\ 0 \in 0..N
      BY <1>1
    <2> QED
      BY <1>11, <1>12, <2>1
  <1> HIDE DEF f
  <1>14. ASSUME NEW k \in 1..N PROVE f[k] = Split(f[k - 1], s[k])
    <2>1. k \in 0..N /\ k - 1 \in 0..N /\ k \in Nat /\ k # 0
      BY <1>1
    <2>2. Max(1..k) = k /\ (1..k) \ {k} = 1..(k - 1) /\ 1..k # {}
      BY <2>1, PrefixEnd
    <2>3. h[1..k] = Split(h[1..(k - 1)], s[k])
      BY <1>11, <1>12, <2>1, <2>2
    <2> QED
      BY <1>12, <2>1, <2>3
  <1>15. \A k \in 0..N : f[k] \in PieceLists
    <2> DEFINE P == {k \in 0..N : f[k] \in PieceLists}
    <2>1. 0 \in P
      BY <1>1, <1>3, <1>13
    <2>2. ASSUME NEW k \in 0..N, k \in P, k < N PROVE k + 1 \in P
      <3>1. k + 1 \in 1..N /\ k + 1 \in 0..N /\ k + 1 - 1 = k
        BY <1>1, <2>2
      <3>2. f[k + 1] = Split(f[k], s[k + 1])
        BY <1>14, <3>1
      <3>3. f[k + 1] \in PieceLists
        BY <1>1, <1>2, <2>2, <3>1, <3>2
      <3> QED
        BY <3>1, <3>3
    <2>3. 0..N \subseteq P
      <3> HIDE DEF P
      <3> QED
        BY <1>1, <2>1, <2>2, Induction
    <2> QED
      BY <2>3
  <1>16. f \in [0..N -> PieceLists] /\ f[N] = FoldLeft(Split, OnePiece, s)
    <2>1. f \in [0..N -> PieceLists]
      BY <1>15 DEF f
    <2>2. N \in 0..N
      BY <1>1
    <2> QED
      BY <1>10, <1>12, <2>1, <2>2
  <1> QED
    BY <1>13, <1>14, <1>16 DEF N

-----------------------------------------------------------------------------
\* Pieces, each cut into key and value.
Cuts(q) == [n \in DOMAIN q |-> CutPiece(q[n])]

LEMMA CutsGrow ==
    ASSUME NEW q \in Seq(Seq(Nat)), NEW x \in Seq(Nat), Cuts(q) \in Seq(KeyAndValue), CutPiece(x) \in KeyAndValue
    PROVE  Cuts(Append(q, x)) = Append(Cuts(q), CutPiece(x)) /\ Cuts(Append(q, x)) \in Seq(KeyAndValue)
  <1>1. PICK n \in Nat : n = Len(q) /\ DOMAIN q = 1..n
    OBVIOUS
  <1>2. PICK r \in Seq(Seq(Nat)) : r = Append(q, x) /\ Len(r) = n + 1 /\ r[n + 1] = x /\ \A i \in 1..n : r[i] = q[i]
    <2>1. /\ Append(q, x) \in Seq(Seq(Nat)) /\ Len(Append(q, x)) = Len(q) + 1 /\ Append(q, x)[Len(q) + 1] = x
          /\ \A i \in 1..Len(q) : Append(q, x)[i] = q[i]
      BY Appended
    <2> QED
      BY <1>1, <2>1, Zenon
  <1>3. DOMAIN r = 1..(n + 1)
    BY <1>2
  <1>4. \A i \in 1..n : Cuts(q)[i] = CutPiece(q[i])
    BY <1>1, Zenon DEF Cuts
  <1>5. DOMAIN Cuts(q) = 1..n
    BY <1>1, Zenon DEF Cuts
  <1>6. PICK y \in Seq(KeyAndValue) : y = Cuts(q) /\ Len(y) = n
    <2>1. Len(Cuts(q)) = n
      BY <1>5
    <2> QED
      BY <2>1, Zenon
  <1>7. PICK e \in KeyAndValue : e = CutPiece(x)
    OBVIOUS
  <1>8. PICK z \in Seq(KeyAndValue) : z = Append(y, e) /\ Len(z) = n + 1 /\ z[n + 1] = e /\ \A i \in 1..n : z[i] = y[i]
    <2>1. /\ Append(y, e) \in Seq(KeyAndValue) /\ Len(Append(y, e)) = Len(y) + 1 /\ Append(y, e)[Len(y) + 1] = e
          /\ \A i \in 1..Len(y) : Append(y, e)[i] = y[i]
      BY Appended
    <2> QED
      BY <1>6, <2>1, Zenon
  <1>9. \A i \in 1..(n + 1) : i \in 1..n \/ i = n + 1
    OBVIOUS
  <1>10. \A i \in 1..(n + 1) : CutPiece(r[i]) = z[i]
    BY <1>2, <1>4, <1>6, <1>7, <1>8, <1>9, Zenon
  <1>11. Cuts(r) = [i \in 1..(n + 1) |-> z[i]]
    BY <1>3, <1>10, Zenon DEF Cuts
  <1>12. z = [i \in 1..(n + 1) |-> z[i]]
    <2>1. \A t \in Seq(KeyAndValue) : t = [i \in 1..Len(t) |-> t[i]]
      OBVIOUS
    <2> QED
      BY <1>8, <2>1, Zenon
  <1>13. Cuts(r) = z
    BY <1>11, <1>12, Zenon
  <1> QED
    BY <1>2, <1>6, <1>7, <1>8, <1>13, Zenon

\* Brackets do not matter.
Rebracketed(x, e, r) == x \o Before(e, r) = Append(x, e) \o r

LEMMA BeforeJoined ==
    ASSUME NEW T, NEW x \in Seq(T), NEW e \in T, NEW r \in Seq(T)
    PROVE  Rebracketed(x, e, r)
  <1>1. <<e>> \in Seq(T)
    OBVIOUS
  <1>2. PICK y \in Seq(T) : y = <<e>>
    BY <1>1, Zenon
  <1>3. (x \o y) \o r = x \o (y \o r)
    BY ConcatAssociative
  <1>4. Append(x, e) = x \o <<e>>
    BY AppendIsConcat
  <1> QED
    BY <1>2, <1>3, <1>4, Zenon DEF Before, Rebracketed

\* What is known of the pieces q of the first k characters: all but the last give
\* pairs already, the last begins at a.
PiecesTo(h, s, k, q, a) ==
    /\ a \in 1..(k + 1) /\ Last(q) = SubSeq(s, a, k) /\ \A j \in a..k : s[j] # Ampersand
    /\ Cuts(Front(q)) \in Seq(KeyAndValue) /\ Pairs(s) = Cuts(Front(q)) \o h[a]

\* A piece and the character behind it.
LEMMA PieceGrows ==
    ASSUME NEW s \in Seq(Nat), NEW a \in Nat, NEW k \in Nat, 1 <= a, a <= k + 1, k < Len(s)
    PROVE  SubSeq(s, a, k + 1) = Append(SubSeq(s, a, k), s[k + 1])
  <1>1. PICK L \in Nat : L = Len(s)
    OBVIOUS
  <1>2. k \in Int /\ a \in Int /\ k <= L /\ a <= k + 1 /\ k + 1 \in Int /\ k + 1 <= L /\ a <= k + 1 + 1 /\ k < L
    BY <1>1
  <1>3. PICK b \in Int : b = k + 1 /\ b <= L /\ a <= b + 1
    BY <1>2
  <1>4. PICK x \in Seq(Nat) : x = SubSeq(s, a, k) /\ Len(x) = k - a + 1 /\ \A i \in 1..(k - a + 1) : x[i] = s[a + i - 1]
    <2>1. /\ SubSeq(s, a, k) \in Seq(Nat) /\ Len(SubSeq(s, a, k)) = k - a + 1
          /\ \A i \in 1..(k - a + 1) : SubSeq(s, a, k)[i] = s[a + i - 1]
      <3>1. 1 <= a /\ k <= Len(s) /\ a <= k + 1 /\ a \in Int /\ k \in Int
        BY <1>1, <1>2
      <3> QED
        BY <3>1, Piece
    <2> QED
      BY <2>1, Zenon
  <1>5. PICK y \in Seq(Nat) : y = SubSeq(s, a, b) /\ Len(y) = b - a + 1 /\ \A i \in 1..(b - a + 1) : y[i] = s[a + i - 1]
    <2>1. /\ SubSeq(s, a, b) \in Seq(Nat) /\ Len(SubSeq(s, a, b)) = b - a + 1
          /\ \A i \in 1..(b - a + 1) : SubSeq(s, a, b)[i] = s[a + i - 1]
      <3>1. 1 <= a /\ b <= Len(s) /\ a <= b + 1 /\ a \in Int /\ b \in Int
        BY <1>1, <1>2, <1>3
      <3> QED
        BY <3>1, Piece
    <2> QED
      BY <2>1, Zenon
  <1>6. PICK n \in Nat : n = k - a + 1 /\ b - a + 1 = n + 1 /\ a + (n + 1) - 1 = b
    BY <1>2, <1>3
  <1>7. s[b] \in Nat
    BY <1>1, <1>2, <1>3
  <1>8. PICK z \in Seq(Nat) : z = Append(x, s[b]) /\ Len(z) = n + 1 /\ z[n + 1] = s[b] /\ \A i \in 1..n : z[i] = x[i]
    <2>1. PICK c \in Nat : c = s[b]
      BY <1>7
    <2>2. /\ Append(x, c) \in Seq(Nat) /\ Len(Append(x, c)) = Len(x) + 1 /\ Append(x, c)[Len(x) + 1] = c
          /\ \A i \in 1..Len(x) : Append(x, c)[i] = x[i]
      BY Appended
    <2> QED
      BY <1>4, <1>6, <2>1, <2>2, Zenon
  <1>9. n + 1 \in 1..(n + 1) /\ \A i \in 1..(n + 1) : i \in 1..n \/ i = n + 1
    OBVIOUS
  <1>10. y[n + 1] = s[b]
    BY <1>5, <1>6, <1>9, Zenon
  <1>11. \A i \in 1..n : i \in 1..(n + 1)
    OBVIOUS
  <1>12. \A i \in 1..n : y[i] = x[i]
    BY <1>4, <1>5, <1>6, <1>11, Zenon
  <1>13. Len(y) = Len(z) /\ \A i \in 1..Len(y) : y[i] = z[i]
    <2>1. Len(y) = n + 1
      BY <1>5, <1>6, Zenon
    <2> QED
      BY <1>8, <1>9, <1>10, <1>12, <2>1, Zenon
  <1>14. y = z
    BY <1>13, SameText
  <1> QED
    BY <1>3, <1>4, <1>5, <1>8, <1>14, Zenon

\* One character more.
LEMMA PiecesToNext ==
    ASSUME NEW s \in Seq(Nat), NEW h, PairsBy(h, s), NEW k \in Nat, k < Len(s), NEW q \in PieceLists, NEW a,
           PiecesTo(h, s, k, q, a)
    PROVE  \E b : PiecesTo(h, s, k + 1, Split(q, s[k + 1]), b)
  <1>1. PICK L \in Nat : L = Len(s)
    OBVIOUS
  <1>2. PICK c \in Nat : c = s[k + 1]
    BY <1>1
  <1>3. /\ a \in 1..(k + 1) /\ a \in Nat /\ Last(q) = SubSeq(s, a, k) /\ \A j \in a..k : s[j] # Ampersand
        /\ Cuts(Front(q)) \in Seq(KeyAndValue) /\ Pairs(s) = Cuts(Front(q)) \o h[a]
    BY DEF PiecesTo
  <1>4. q \in Seq(Seq(Nat)) /\ q # <<>>
    BY DEF PieceLists
  <1>5. PICK f \in Seq(Seq(Nat)), l \in Seq(Nat) : f = Front(q) /\ l = Last(q) /\ q = Append(f, l)
    BY <1>4, FrontAndLast
  <1>6. PICK r \in PieceLists : r = Split(q, c)
    BY SplitIs
  <1>7. CASE c = Ampersand
    <2>1. Front(r) = q /\ Last(r) = <<>>
      BY <1>6, <1>7, SplitIs
    <2>2. PieceEnds(s, a, k)
      <3>1. a \in 1..(L + 1) /\ k \in 0..L /\ a <= k + 1
        BY <1>1, <1>3
      <3> QED
        BY <1>1, <1>2, <1>3, <1>7, <3>1, Zenon DEF PieceEnds
    <2>3. ValueEnd(s, a) = k + 1
      BY <2>2, EndsAt
    <2>4. PairAt(s, a) = CutPiece(l)
      <3>1. PairAt(s, a) = CutPiece(SubSeq(s, a, k))
        BY <2>2, PairIsCut
      <3> QED
        BY <1>3, <1>5, <3>1, Zenon
    <2>5. a \in 1..(L + 1) /\ a \in 1..L /\ k + 2 \in 1..(L + 2) /\ k + 1 + 1 = k + 2
      BY <1>1, <1>3
    <2>6. PICK e \in KeyAndValue : e = CutPiece(l)
      <3>1. PairAt(s, a) \in KeyAndValue
        BY <1>1, <2>5, PairAtIs
      <3> QED
        BY <2>4, <3>1, Zenon
    <2>7. h[a] = Before(e, h[k + 2])
      <3>1. h[a] = Before(PairAt(s, a), h[ValueEnd(s, a) + 1])
        BY <1>1, <2>5, Zenon DEF PairsBy
      <3> QED
        BY <2>3, <2>4, <2>5, <2>6, <3>1, Zenon
    <2>8. PICK y \in Seq(KeyAndValue) : y = h[k + 2]
      BY <1>1, <2>5, Zenon DEF PairsBy
    <2>9. PICK x \in Seq(KeyAndValue) : x = Cuts(f)
      BY <1>3, <1>5, Zenon
    <2>10. Cuts(q) = Append(x, e) /\ Cuts(q) \in Seq(KeyAndValue)
      <3>1. Cuts(f) \in Seq(KeyAndValue) /\ CutPiece(l) \in KeyAndValue
        BY <2>6, <2>9, Zenon
      <3>2. Cuts(Append(f, l)) = Append(Cuts(f), CutPiece(l)) /\ Cuts(Append(f, l)) \in Seq(KeyAndValue)
        BY <3>1, CutsGrow
      <3> QED
        BY <1>5, <2>6, <2>9, <3>2, Zenon
    <2>11. x \o Before(e, y) = Append(x, e) \o y
      <3>1. Rebracketed(x, e, y)
        BY BeforeJoined
      <3> QED
        BY <3>1, Zenon DEF Rebracketed
    <2>12. Pairs(s) = Cuts(Front(r)) \o h[k + 2]
      BY <1>3, <1>5, <2>1, <2>7, <2>8, <2>9, <2>10, <2>11, Zenon
    <2>13. SubSeq(s, k + 2, k + 1) = <<>>
      <3>1. PICK m \in Int, n \in Int : m = k + 2 /\ n = k + 1 /\ m > n
        OBVIOUS
      <3>2. \A j \in m..n : s[j] \in Nat
        BY <3>1
      <3>3. SubSeq(s, m, n) \in Seq(Nat) /\ Len(SubSeq(s, m, n)) = 0
        BY <3>1, <3>2, SubSeqProperties
      <3>4. SubSeq(s, m, n) = <<>>
        BY <3>3
      <3> QED
        BY <3>1, <3>4, Zenon
    <2>14. k + 2 \in 1..(k + 1 + 1) /\ \A j \in (k + 2)..(k + 1) : s[j] # Ampersand
      OBVIOUS
    <2>15. PiecesTo(h, s, k + 1, r, k + 2)
      BY <2>1, <2>10, <2>12, <2>13, <2>14, Zenon DEF PiecesTo
    <2> QED
      BY <1>2, <1>6, <2>15, Zenon
  <1>8. CASE c # Ampersand
    <2>1. Front(r) = Front(q) /\ Last(r) = Append(Last(q), c)
      BY <1>6, <1>8, SplitIs
    <2>2. Last(r) = SubSeq(s, a, k + 1)
      <3>1. SubSeq(s, a, k + 1) = Append(SubSeq(s, a, k), s[k + 1])
        BY <1>3, PieceGrows, SMTT(20)
      <3> QED
        BY <1>2, <1>3, <2>1, <3>1, Zenon
    <2>3. a \in 1..(k + 1 + 1) /\ \A j \in a..(k + 1) : j \in a..k \/ j = k + 1
      BY <1>3
    <2>4. \A j \in a..(k + 1) : s[j] # Ampersand
      BY <1>2, <1>3, <1>8, <2>3, Zenon
    <2>5. PiecesTo(h, s, k + 1, r, a)
      BY <1>3, <2>1, <2>2, <2>3, <2>4, Zenon DEF PiecesTo
    <2> QED
      BY <1>2, <1>6, <2>5, Zenon
  <1> QED
    BY <1>7, <1>8

\* The pairs of any query are its pieces, cut.
LEMMA PairsArePieces ==
    ASSUME NEW s \in Seq(Nat)
    PROVE  Pairs(s) = IF Last(Pieces(s)) = <<>> THEN Front(Cuts(Pieces(s))) ELSE Cuts(Pieces(s))
  <1>1. PICK N \in Nat : N = Len(s)
    OBVIOUS
  <1>2. PICK h : PairsBy(h, s)
    BY PairsSteps
  <1>3. FoldLeft(Split, OnePiece, s) = Pieces(s)
    BY Zenon DEF Pieces, OnePiece
  <1>4. PICK f \in [0..N -> PieceLists] : /\ f[0] = OnePiece /\ f[N] = Pieces(s)
                                          /\ \A k \in 1..N : f[k] = Split(f[k - 1], s[k])
    BY <1>1, <1>3, SplitSteps
  <1> DEFINE Told(k) == \E a : PiecesTo(h, s, k, f[k], a)
             P == {k \in 0..N : Told(k)}
  <1>5. 0 \in P
    <2>1. Front(OnePiece) = <<>> /\ Last(OnePiece) = <<>>
      BY OnePieceIs
    <2>2. Cuts(<<>>) = <<>>
      <3>1. DOMAIN <<>> = {} /\ <<>> = [n \in {} |-> CutPiece(<<>>[n])]
        OBVIOUS
      <3> QED
        BY <3>1, Zenon DEF Cuts
    <2>3. <<>> \in Seq(KeyAndValue)
      OBVIOUS
    <2>4. PICK y \in Seq(KeyAndValue) : y = h[1] /\ Pairs(s) = y
      <3>1. 1 \in 1..(N + 2)
        OBVIOUS
      <3> QED
        BY <1>1, <1>2, <3>1, Zenon DEF PairsBy
    <2>5. <<>> \o y = y
      BY ConcatEmptySeq
    <2>6. SubSeq(s, 1, 0) = <<>>
      <3>1. PICK m \in Int, n \in Int : m = 1 /\ n = 0 /\ m > n
        OBVIOUS
      <3>2. \A j \in m..n : s[j] \in Nat
        BY <3>1
      <3>3. SubSeq(s, m, n) \in Seq(Nat) /\ Len(SubSeq(s, m, n)) = 0
        BY <3>1, <3>2, SubSeqProperties
      <3>4. SubSeq(s, m, n) = <<>>
        BY <3>3
      <3> QED
        BY <3>1, <3>4, Zenon
    <2>7. 1 \in 1..(0 + 1) /\ \A j \in 1..0 : s[j] # Ampersand
      OBVIOUS
    <2>8. PiecesTo(h, s, 0, OnePiece, 1)
      BY <2>1, <2>2, <2>3, <2>4, <2>5, <2>6, <2>7, Zenon DEF PiecesTo
    <2>9. 0 \in 0..N
      OBVIOUS
    <2> QED
      BY <1>4, <2>8, <2>9, Zenon
  <1>6. ASSUME NEW k \in 0..N, k \in P, k < N PROVE k + 1 \in P
    <2>1. k \in Nat /\ k < Len(s) /\ k + 1 \in 1..N /\ k + 1 \in 0..N /\ k + 1 - 1 = k
      BY <1>1, <1>6
    <2>2. PICK a : PiecesTo(h, s, k, f[k], a)
      BY <1>6, Zenon
    <2>3. PICK q \in PieceLists : q = f[k]
      BY <1>4
    <2>4. f[k + 1] = Split(q, s[k + 1])
      BY <1>4, <2>1, <2>3
    <2>5. PiecesTo(h, s, k, q, a)
      BY <2>2, <2>3, Zenon
    <2>6. \E b : PiecesTo(h, s, k + 1, Split(q, s[k + 1]), b)
      BY <1>2, <2>1, <2>5, PiecesToNext
    <2>7. Told(k + 1)
      BY <2>4, <2>6, Zenon
    <2> HIDE DEF Told
    <2> QED
      BY <2>1, <2>7
  <1>7. 0..N \subseteq P
    <2> HIDE DEF P
    <2> QED
      BY <1>5, <1>6, Induction
  <1>8. PICK a : PiecesTo(h, s, N, f[N], a)
    <2>1. N \in 0..N
      OBVIOUS
    <2> QED
      BY <1>7, <2>1, Zenon
  <1>9. PICK q \in PieceLists : q = Pieces(s)
    <2>1. N \in 0..N
      OBVIOUS
    <2> QED
      BY <1>4, <2>1
  <1>10. PiecesTo(h, s, N, q, a)
    BY <1>4, <1>8, <1>9, Zenon
  <1>11. /\ a \in 1..(N + 1) /\ Last(q) = SubSeq(s, a, N) /\ \A j \in a..N : s[j] # Ampersand
         /\ Cuts(Front(q)) \in Seq(KeyAndValue) /\ Pairs(s) = Cuts(Front(q)) \o h[a]
    BY <1>10 DEF PiecesTo
  <1>12. PieceEnds(s, a, N)
    <2>1. N \in 0..N /\ a <= N + 1 /\ ~(N < N)
      BY <1>11
    <2> QED
      BY <1>1, <1>11, <2>1, Zenon DEF PieceEnds
  <1>13. q \in Seq(Seq(Nat)) /\ q # <<>>
    BY DEF PieceLists
  <1>14. PICK g \in Seq(Seq(Nat)), l \in Seq(Nat) : g = Front(q) /\ l = Last(q) /\ q = Append(g, l)
    BY <1>13, FrontAndLast
  <1>15. PICK e \in KeyAndValue : e = PairAt(s, a) /\ e = CutPiece(l)
    <2>1. PairAt(s, a) = CutPiece(SubSeq(s, a, N))
      BY <1>12, PairIsCut
    <2>2. PairAt(s, a) \in KeyAndValue
      BY <1>1, <1>11, PairAtIs
    <2> QED
      BY <1>11, <1>14, <2>1, <2>2, Zenon
  <1>16. PICK x \in Seq(KeyAndValue) : x = Cuts(g)
    BY <1>11, <1>14, Zenon
  <1>17. Cuts(q) = Append(x, e)
    <2>1. Cuts(g) \in Seq(KeyAndValue) /\ CutPiece(l) \in KeyAndValue
      BY <1>15, <1>16, Zenon
    <2>2. Cuts(Append(g, l)) = Append(Cuts(g), CutPiece(l))
      BY <2>1, CutsGrow
    <2> QED
      BY <1>14, <1>15, <1>16, <2>2, Zenon
  <1>18. Front(Append(x, e)) = x /\ Append(x, e) \in Seq(KeyAndValue)
    <2>1. Front(Append(x, e)) = x
      BY FrontLast
    <2>2. Append(x, e) \in Seq(KeyAndValue)
      BY Appended
    <2> QED
      BY <2>1, <2>2
  <1>19. h[N + 1] = <<>> /\ h[N + 2] = <<>>
    BY <1>1, <1>2, Zenon DEF PairsBy
  <1>20. Len(l) = N - a + 1
    <2>1. a \in Int /\ N \in Int /\ 1 <= a /\ N <= Len(s) /\ a <= N + 1
      BY <1>1, <1>11
    <2>2. Len(SubSeq(s, a, N)) = N - a + 1
      BY <2>1, Piece
    <2> QED
      BY <1>11, <1>14, <2>2, Zenon
  <1>21. CASE l = <<>>
    <2>1. Len(l) = 0
      BY <1>21
    <2>2. a = N + 1
      BY <1>11, <1>20, <2>1
    <2>3. Pairs(s) = x \o <<>>
      BY <1>11, <1>14, <1>16, <1>19, <2>2, Zenon
    <2>4. x \o <<>> = x
      BY ConcatEmptySeq
    <2> QED
      BY <1>9, <1>14, <1>17, <1>18, <1>21, <2>3, <2>4, Zenon
  <1>22. CASE l # <<>>
    <2>1. Len(l) # 0
      BY <1>22
    <2>2. a \in 1..N /\ N + 1 + 1 = N + 2
      BY <1>11, <1>20, <2>1
    <2>3. ValueEnd(s, a) = N + 1
      BY <1>12, EndsAt
    <2>4. h[a] = Before(PairAt(s, a), h[ValueEnd(s, a) + 1])
      BY <1>1, <1>2, <2>2, Zenon DEF PairsBy
    <2>5. h[a] = Before(e, <<>>)
      BY <1>15, <1>19, <2>2, <2>3, <2>4, Zenon
    <2>6. PICK y \in Seq(KeyAndValue) : y = <<>>
      <3>1. <<>> \in Seq(KeyAndValue)
        OBVIOUS
      <3> QED
        BY <3>1, Zenon
    <2>7. Rebracketed(x, e, y)
      BY BeforeJoined
    <2>8. Pairs(s) = Append(x, e) \o y
      BY <1>11, <1>14, <1>16, <2>5, <2>6, <2>7, Zenon DEF Rebracketed
    <2>9. PICK z \in Seq(KeyAndValue) : z = Append(x, e)
      BY <1>18, Zenon
    <2>10. z \o <<>> = z
      BY ConcatEmptySeq
    <2>11. Pairs(s) = z
      BY <2>6, <2>8, <2>9, <2>10, Zenon
    <2> QED
      BY <1>9, <1>14, <1>17, <1>22, <2>9, <2>11, Zenon
  <1> QED
    BY <1>21, <1>22

\* What is written has no separators.
LEMMA EscapedClean ==
    ASSUME NEW s \in Seq(Octet)
    PROVE  Escaped(s) \in Seq(Nat) /\ \A i \in 1..Len(Escaped(s)) : Escaped(s)[i] \notin {Ampersand, Equals}
  <1>1. PICK f : Writing(f, s)
    BY EscapedSteps
  <1>2. Len(s) \in 0..Len(s)
    OBVIOUS
  <1>3. f[Len(s)] = Escaped(s) /\ Escaped(s) \in Seq(Nat)
    BY <1>1, <1>2 DEF Writing, Texts
  <1>4. \A i \in 1..Len(f[Len(s)]) : f[Len(s)][i] \notin {Ampersand, Equals}
    BY <1>1, <1>2, WritingHas
  <1> QED
    BY <1>3, <1>4, Zenon

\* A key and a value without separators are one pair.
LEMMA OnePair ==
    ASSUME NEW e \in Seq(Nat), \A i \in 1..Len(e) : e[i] \notin {Ampersand, Equals}
    PROVE  Pairs(e \o <<Equals>> \o e) = <<<<e, e>>>>
  <1>1. PICK m \in Nat : m = Len(e)
    OBVIOUS
  <1>2. PICK y \in Seq(Nat) : y = <<Equals>> /\ Len(y) = 1 /\ y[1] = Equals
    <2>1. Equals \in Nat
      BY DEF Equals
    <2>2. <<Equals>> \in Seq(Nat) /\ Len(<<Equals>>) = 1 /\ <<Equals>>[1] = Equals
      BY <2>1
    <2> QED
      BY <2>2, Zenon
  <1>3. PICK x \in Seq(Nat) : /\ x = e \o y /\ Len(x) = m + 1 /\ x[m + 1] = Equals
                              /\ \A i \in 1..m : x[i] = e[i]
    <2>1. /\ e \o y \in Seq(Nat) /\ Len(e \o y) = Len(e) + Len(y)
          /\ \A i \in 1..Len(e) : (e \o y)[i] = e[i]
          /\ \A i \in 1..Len(y) : (e \o y)[Len(e) + i] = y[i]
      BY JoinedTexts, Zenon
    <2>2. 1 \in 1..1
      OBVIOUS
    <2> QED
      BY <1>1, <1>2, <2>1, <2>2, Zenon
  <1>4. PICK q \in Seq(Nat) : /\ q = x \o e /\ Len(q) = (m + 1) + m
                              /\ \A i \in 1..(m + 1) : q[i] = x[i]
                              /\ \A i \in 1..m : q[(m + 1) + i] = e[i]
    <2>1. /\ x \o e \in Seq(Nat) /\ Len(x \o e) = Len(x) + Len(e)
          /\ \A i \in 1..Len(x) : (x \o e)[i] = x[i]
          /\ \A i \in 1..Len(e) : (x \o e)[Len(x) + i] = e[i]
      BY JoinedTexts, Zenon
    <2>2. Len(x) = m + 1 /\ Len(e) = m
      BY <1>1, <1>3, Zenon
    <2>3. PICK q : q = x \o e
      OBVIOUS
    <2>4. /\ q \in Seq(Nat) /\ Len(q) = Len(x) + Len(e) /\ \A i \in 1..Len(x) : q[i] = x[i]
          /\ \A i \in 1..Len(e) : q[Len(x) + i] = e[i]
      BY <2>1, <2>3, Zenon
    <2>5. Len(q) = (m + 1) + m
      BY <2>2, <2>4
    <2>6. \A i \in 1..(m + 1) : q[i] = x[i]
      BY <2>2, <2>4, Zenon
    <2>7. \A i \in 1..m : q[(m + 1) + i] = e[i]
      <3>1. \A i \in 1..m : q[Len(x) + i] = e[i]
        BY <2>2, <2>4, Zenon
      <3> QED
        BY <2>2, <3>1, Zenon
    <2> QED
      BY <2>3, <2>4, <2>5, <2>6, <2>7, Zenon
  <1>5. q = e \o <<Equals>> \o e
    BY <1>2, <1>3, <1>4, Zenon
  <1>6. PICK L \in Nat : L = Len(q) /\ L = m + 1 + m
    BY <1>4
  <1>7. m + 1 \in 1..(m + 1) /\ \A i \in 1..m : i \in 1..(m + 1)
    OBVIOUS
  <1>8. q[m + 1] = Equals /\ \A i \in 1..m : q[i] = e[i]
    BY <1>3, <1>4, <1>7, Zenon
  <1>9. Equals # Ampersand
    BY DEF Equals, Ampersand
  <1>10. \A j \in 1..L : j \in 1..m \/ j = m + 1 \/ \E i \in 1..m : j = (m + 1) + i
    <2> TAKE j \in 1..L
    <2>1. CASE j <= m + 1
      BY <2>1
    <2>2. CASE j > m + 1
      <3>1. PICK i \in 1..m : i = j - (m + 1) /\ j = (m + 1) + i
        BY <1>6, <2>2
      <3> QED
        BY <3>1
    <2> QED
      BY <2>1, <2>2
  <1>11. \A j \in 1..L : q[j] # Ampersand
    <2>1. \A i \in 1..m : e[i] # Ampersand
      BY <1>1
    <2> QED
      <3> TAKE j \in 1..L
      <3>1. CASE j \in 1..m
        BY <1>8, <2>1, <3>1, Zenon
      <3>2. CASE j = m + 1
        BY <1>8, <1>9, <3>2, Zenon
      <3>3. CASE \E i \in 1..m : j = (m + 1) + i
        <4>1. PICK i \in 1..m : j = (m + 1) + i
          BY <3>3, Zenon
        <4>2. q[j] = e[i]
          BY <1>4, <4>1, Zenon
        <4> QED
          BY <2>1, <4>2, Zenon
      <3> QED
        BY <1>10, <3>1, <3>2, <3>3, Zenon
  <1>12. PieceEnds(q, 1, L)
    <2>1. 1 \in 1..(L + 1) /\ L \in 0..L /\ 1 <= L + 1 /\ ~(L < L)
      BY <1>6
    <2> QED
      BY <1>6, <1>11, <2>1, Zenon DEF PieceEnds
  <1>13. ValueEnd(q, 1) = L + 1
    BY <1>12, EndsAt
  <1>14. PICK k \in 1..(L + 1) : /\ k = KeyEnd(q, 1)
                                 /\ k <= L => q[k] = Equals
                                 /\ \A j \in 1..L : q[j] = Equals => k <= j
    BY <1>12, EndsAt
  <1>15. k <= m + 1 /\ k <= L
    <2>1. m + 1 \in 1..L
      BY <1>6
    <2>2. k <= m + 1
      BY <1>8, <1>14, <2>1, Zenon
    <2> QED
      BY <1>6, <2>2
  <1>16. k = m + 1
    <2> SUFFICES ASSUME k # m + 1 PROVE FALSE
      OBVIOUS
    <2>1. k \in 1..m
      BY <1>15
    <2>2. e[k] = Equals
      BY <1>8, <1>14, <1>15, <2>1, Zenon
    <2> QED
      BY <1>1, <2>1, <2>2
  <1>17. PairAt(q, 1) = <<SubSeq(q, 1, m), SubSeq(q, m + 2, L)>>
    <2>1. KeyEnd(q, 1) - 1 = m /\ KeyEnd(q, 1) + 1 = m + 2 /\ ValueEnd(q, 1) - 1 = L
      <3>1. KeyEnd(q, 1) = m + 1
        BY <1>14, <1>16, Zenon
      <3> QED
        BY <1>13, <3>1, SMTT(20)
    <2> QED
      BY <2>1, Zenon DEF PairAt
  <1>18. SubSeq(q, 1, m) = e
    <2>1. m <= Len(q)
      BY <1>6
    <2>2. PICK p : p = SubSeq(q, 1, m)
      OBVIOUS
    <2>3. p \in Seq(Nat) /\ Len(p) = m /\ \A i \in 1..m : p[i] = q[i]
      BY <2>1, <2>2, FirstPiece
    <2>4. Len(p) = Len(e) /\ \A i \in 1..Len(p) : p[i] = e[i]
      BY <1>1, <1>8, <2>3, Zenon
    <2>5. p = e
      BY <2>3, <2>4, SameText
    <2> QED
      BY <2>2, <2>5, Zenon
  <1>19. SubSeq(q, m + 2, L) = e
    <2>1. PICK a \in Int, b \in Int : a = m + 2 /\ b = L
      BY <1>6
    <2>2. 1 <= a /\ b <= Len(q) /\ a <= b + 1
      BY <1>6, <2>1
    <2>3. PICK p : p = SubSeq(q, a, b)
      OBVIOUS
    <2>4. p \in Seq(Nat) /\ Len(p) = b - a + 1 /\ \A i \in 1..(b - a + 1) : p[i] = q[a + i - 1]
      BY <2>2, <2>3, Piece, SMTT(20)
    <2>5. b - a + 1 = m /\ \A i \in 1..m : a + i - 1 = (m + 1) + i
      BY <1>6, <2>1
    <2>6. Len(p) = m /\ \A i \in 1..m : p[i] = e[i]
      BY <1>4, <2>4, <2>5, ZenonT(30)
    <2>7. Len(p) = Len(e) /\ \A i \in 1..Len(p) : p[i] = e[i]
      BY <1>1, <2>6, Zenon
    <2>8. p = e
      BY <2>4, <2>7, SameText
    <2> QED
      BY <2>1, <2>3, <2>8, Zenon
  <1>20. PICK h : PairsBy(h, q)
    BY PairsSteps
  <1>21. h[1] = Before(PairAt(q, 1), h[ValueEnd(q, 1) + 1]) /\ Pairs(q) = h[1]
    <2>1. 1 \in 1..L
      BY <1>6
    <2> QED
      BY <1>6, <1>20, <2>1, Zenon DEF PairsBy
  <1>22. h[ValueEnd(q, 1) + 1] = <<>>
    <2>1. ValueEnd(q, 1) + 1 = L + 2
      BY <1>13
    <2> QED
      BY <1>6, <1>20, <2>1, Zenon DEF PairsBy
  <1>23. PICK p \in KeyAndValue : p = <<e, e>>
    <2>1. \A a, b \in Seq(Nat) : <<a, b>> \in KeyAndValue
      BY DEF KeyAndValue
    <2> QED
      BY <2>1, Zenon
  <1>24. Pairs(q) = Before(p, <<>>)
    BY <1>17, <1>18, <1>19, <1>21, <1>22, <1>23, Zenon
  <1>25. <<p>> \in Seq(KeyAndValue)
    OBVIOUS
  <1>26. PICK z \in Seq(KeyAndValue) : z = <<p>>
    BY <1>25, Zenon
  <1>27. z \o <<>> = z
    BY ConcatEmptySeq
  <1>28. Before(p, <<>>) = <<p>>
    BY <1>26, <1>27, Zenon DEF Before
  <1> QED
    BY <1>5, <1>23, <1>24, <1>28, Zenon

\* The whole of a query: what was written is read back, any query falls into its
\* pairs, and a failure to unescape is a "%" without two digits behind it.
THEOREM QueriesRead == \A s \in Seq(Octet) : ReadsQuery(s)
  <1> TAKE s \in Seq(Octet)
  <1>1. s \in Seq(Nat)
    <2>1. Octet \subseteq Nat
      BY DEF Octet
    <2> QED
      BY <2>1, SeqMonotonic
  <1>2. Unescape(Escaped(s)) = [out |-> "true", text |-> s]
    BY EscapedUndone
  <1>3. ParseQuery(Escaped(s) \o <<Equals>> \o Escaped(s)) = <<<<s, s>>>>
    <2>1. PICK e \in Seq(Nat) : e = Escaped(s) /\ \A i \in 1..Len(e) : e[i] \notin {Ampersand, Equals}
      BY EscapedClean
    <2>2. PICK q : q = e \o <<Equals>> \o e
      OBVIOUS
    <2>3. Pairs(e \o <<Equals>> \o e) = <<<<e, e>>>>
      BY <2>1, OnePair, Zenon
    <2>4. Pairs(q) = <<<<e, e>>>>
      BY <2>2, <2>3, Zenon
    <2>5. PICK w : w = <<e, e>> /\ w[1] = e /\ w[2] = e
      <3>1. <<e, e>>[1] = e /\ <<e, e>>[2] = e
        OBVIOUS
      <3> QED
        BY <3>1, Zenon
    <2>6. PICK z : z = <<w>> /\ DOMAIN z = {1} /\ z[1] = w
      <3>1. DOMAIN <<w>> = {1} /\ <<w>>[1] = w
        OBVIOUS
      <3> QED
        BY <3>1, Zenon
    <2>7. Pairs(q) = z
      BY <2>4, <2>5, <2>6, Zenon
    <2>8. Unescape(e).text = s
      <3>1. \A o, x : [out |-> o, text |-> x].text = x
        OBVIOUS
      <3> QED
        BY <1>2, <2>1, <3>1, Zenon
    <2>9. ParseQuery(q) = [n \in {1} |-> <<Unescape(z[n][1]).text, Unescape(z[n][2]).text>>]
      BY <2>6, <2>7, Zenon DEF ParseQuery
    <2>10. \A n \in {1} : <<Unescape(z[n][1]).text, Unescape(z[n][2]).text>> = <<s, s>>
      BY <2>5, <2>6, <2>8, Zenon
    <2>11. ParseQuery(q) = [n \in {1} |-> <<s, s>>]
      BY <2>9, <2>10, Zenon
    <2>12. \A x : [n \in {1} |-> x] = <<x>>
      OBVIOUS
    <2>13. ParseQuery(q) = <<<<s, s>>>>
      BY <2>11, <2>12, Zenon
    <2> QED
      BY <2>1, <2>2, <2>13, Zenon
  <1>4. Pairs(s) = IF Last(Pieces(s)) = <<>> THEN Front(Cuts(Pieces(s))) ELSE Cuts(Pieces(s))
    BY <1>1, PairsArePieces
  <1>5. Unescape(s).out # "true" =>
          /\ Len(Unescape(s).text) = Len(s)
          /\ \E i \in DOMAIN s : s[i] = Percent /\ ~HasHexDigits(s, i)
    BY <1>1, UnescapeFails
  <1> QED
    BY <1>2, <1>3, <1>4, <1>5, Zenon DEF ReadsQuery, Cuts

\* cflare_url_parse_query and cflare_unescape_url_mutate on the inputs of the runs,
\* whatever MaxParts is.
THEOREM QueriesParsed == Spec => []QueryCorrect
  <1>1. TextInv => QueryCorrect
    <2> SUFFICES ASSUME TextInv, kind = "query"
                 PROVE  ReadsQuery(input)
      BY DEF QueryCorrect
    <2>1. QueryChars \subseteq Octet
      BY DEF QueryChars, Octet
    <2>2. Parts["query"] = QueryChars
      BY Zenon DEF Parts
    <2>3. input \in Seq(Octet)
      BY <2>1, <2>2, SeqMonotonic DEF TextInv
    <2> QED
      BY <2>3, QueriesRead
  <1> QED
    BY <1>1, TextInvInductive, PTL
=============================================================================

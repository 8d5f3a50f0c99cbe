--------------------------- MODULE PingMathProofs ---------------------------
(***************************************************************************)
(* Proofs about PingMath, for every size of a byte, length of a packet,    *)
(* length of a second, clock value and number of replies.                  *)
(*                                                                         *)
(* The loops of the code are folds in the model.  A fold is the value of   *)
(* the function that solves its recursion equation.  The first section     *)
(* shows that the equation has a solution and that any solution is reached *)
(* by stepping through the indices; from there on a loop is a function of  *)
(* its step number, and what it computes is shown by counting up.          *)
(***************************************************************************)
EXTENDS PingMath, DataFacts, FiniteSetTheorems, TLAPS

-----------------------------------------------------------------------------
(* Folds *)

\* Counting up to n.
LEMMA UpTo ==
    ASSUME NEW n \in Nat, NEW P \in SUBSET (0..n), 0 \in P,
           \A k \in 0..n : k \in P /\ k + 1 <= n => k + 1 \in P
    PROVE  \A k \in 0..n : k \in P
<1> DEFINE C == (0..n) \ P
<1> SUFFICES ASSUME C # {} PROVE FALSE
  OBVIOUS
<1>1. C \in SUBSET Nat
  OBVIOUS
<1>2. PICK x \in C : \A y \in C : x <= y
  BY <1>1, NatMin
<1>3. x \in 0..n /\ x # 0 /\ x - 1 \in 0..n /\ x - 1 \notin C
  BY <1>2
<1>4. x - 1 \in P /\ (x - 1) + 1 = x
  BY <1>3
<1> QED BY <1>3, <1>4

\* The choice of FoldLeft: the last index that is left.
LEMMA MaxFound ==
    ASSUME NEW n \in Nat, NEW T \in SUBSET (1..n), T # {}
    PROVE  /\ Max(T) \in T /\ \A y \in T : y <= Max(T)
           /\ \A x \in T : (\A y \in T : y <= x) => Max(T) = x
<1> DEFINE C == {n - t : t \in T}
<1>1. C \in SUBSET Nat /\ C # {}
  <2>1. \A t \in T : n - t \in Nat
    OBVIOUS
  <2>2. \E t \in T : n - t \in C
    OBVIOUS
  <2> QED BY <2>1, <2>2
<1>2. PICK c \in C : \A d \in C : c <= d
  BY <1>1, NatMin
<1>3. PICK x \in T : c = n - x
  OBVIOUS
<1>4. \A y \in T : x >= y
  <2> SUFFICES ASSUME NEW y \in T PROVE x >= y
    OBVIOUS
  <2>1. n - y \in C
    OBVIOUS
  <2>2. n - x <= n - y
    BY <1>2, <1>3, <2>1
  <2> QED BY <2>2
<1>5. Max(T) \in T /\ \A y \in T : Max(T) >= y
  BY <1>4 DEF Max
<1>6. ASSUME NEW z \in T, \A y \in T : y <= z PROVE Max(T) = z
  <2> DEFINE m == Max(T)
  <2>1. m \in T /\ m >= z
    BY <1>5
  <2> HIDE DEF m
  <2>2. m <= z
    BY <2>1, <1>6
  <2>3. m \in Int /\ z \in Int
    BY <2>1
  <2>4. m = z
    BY <2>1, <2>2, <2>3
  <2> QED BY <2>4 DEF m
<1> QED BY <1>5, <1>6

\* The equation that defines a fold from the left, with base a and step g, over
\* the indices up to n has a solution with values in S.
HasFold(n, S, a, g) ==
    \E it \in [SUBSET (1..n) -> S] :
        \A T \in SUBSET (1..n) :
            it[T] = IF T = {} THEN a ELSE g[<<it[T \ {Max(T)}], Max(T)>>]

\* It has one, by counting up n.
LEMMA FoldExists ==
    ASSUME NEW n \in Nat, NEW S, NEW a \in S, NEW g \in [S \X (1..n) -> S]
    PROVE  HasFold(n, S, a, g)
<1> DEFINE Solves(it, k) ==
               \A T \in SUBSET (1..k) :
                  it[T] = IF T = {} THEN a ELSE g[<<it[T \ {Max(T)}], Max(T)>>]
           P == {k \in 0..n : \E it \in [SUBSET (1..k) -> S] : Solves(it, k)}
<1>1. 0 \in P
  <2> DEFINE it == [T \in SUBSET (1..0) |-> a]
  <2>1. it \in [SUBSET (1..0) -> S]
    OBVIOUS
  <2>2. \A T \in SUBSET (1..0) : T = {}
    OBVIOUS
  <2>3. Solves(it, 0)
    BY <2>2
  <2>4. 0 \in 0..n
    OBVIOUS
  <2> HIDE DEF it, Solves
  <2> QED BY <2>1, <2>3, <2>4
<1>2. ASSUME NEW k \in 0..n, k \in P, k + 1 <= n PROVE k + 1 \in P
  <2>1. PICK it \in [SUBSET (1..k) -> S] : Solves(it, k)
    BY <1>2
  <2> DEFINE m == k + 1
             jt == [T \in SUBSET (1..m) |->
                       IF m \in T THEN g[<<it[T \ {m}], m>>] ELSE it[T]]
  <2>2. m \in 1..n /\ 1..m = (1..k) \cup {m} /\ m \notin 1..k /\ m \in 0..n
    BY <1>2
  <2> HIDE DEF m
  <2>3. ASSUME NEW T \in SUBSET (1..m)
        PROVE  T \ {m} \in SUBSET (1..k) /\ (m \notin T => T \in SUBSET (1..k))
    BY <2>2
  <2>4. jt \in [SUBSET (1..m) -> S]
    <3> SUFFICES ASSUME NEW T \in SUBSET (1..m)
                 PROVE  (IF m \in T THEN g[<<it[T \ {m}], m>>] ELSE it[T]) \in S
      OBVIOUS
    <3>1. it[T \ {m}] \in S /\ (m \notin T => it[T] \in S)
      BY <2>3
    <3> QED BY <3>1, <2>2
  <2>5. ASSUME NEW T \in SUBSET (1..m)
        PROVE  jt[T] = IF T = {} THEN a ELSE g[<<jt[T \ {Max(T)}], Max(T)>>]
    <3>1. CASE m \in T
      <4>1. Max(T) = m
        <5>1. \A y \in T : y <= m
          BY <2>2
        <5>2. m \in Nat
          BY <2>2
        <5> QED BY <5>1, <5>2, <3>1, MaxFound
      <4>2. T \ {m} \in SUBSET (1..m) /\ m \notin T \ {m}
        BY <2>2
      <4>3. jt[T \ {m}] = it[T \ {m}]
        BY <4>2
      <4>4. jt[T] = g[<<it[T \ {m}], m>>]
        BY <3>1
      <4> HIDE DEF jt
      <4> QED BY <3>1, <4>1, <4>3, <4>4
    <3>2. CASE m \notin T
      <4>1. T \in SUBSET (1..k) /\ jt[T] = it[T]
        BY <2>3, <3>2
      <4>2. CASE T = {}
        BY <4>1, <4>2, <2>1
      <4>3. CASE T # {}
        <5>1. T \ {Max(T)} \in SUBSET (1..m) /\ m \notin T \ {Max(T)}
          BY <3>2
        <5>2. jt[T \ {Max(T)}] = it[T \ {Max(T)}]
          BY <5>1
        <5>3. it[T] = g[<<it[T \ {Max(T)}], Max(T)>>]
          BY <2>1, <4>1, <4>3
        <5> HIDE DEF jt
        <5> QED BY <4>1, <4>3, <5>2, <5>3
      <4> QED BY <4>2, <4>3
    <3> QED BY <3>1, <3>2
  <2>6. Solves(jt, m)
    BY <2>5
  <2>7. m \in P
    <3> HIDE DEF jt, Solves
    <3> QED BY <2>2, <2>4, <2>6
  <2> QED BY <2>7 DEF m
<1> HIDE DEF Solves
<1>3. P \in SUBSET (0..n)
  OBVIOUS
<1>4. n \in P
  <2> HIDE DEF P
  <2>1. \A k \in 0..n : k \in P /\ k + 1 <= n => k + 1 \in P
    BY <1>2
  <2>2. \A k \in 0..n : k \in P
    BY <1>1, <1>3, <2>1, UpTo
  <2> QED BY <2>2
<1>5. \E it \in [SUBSET (1..n) -> S] : Solves(it, n)
  BY <1>4
<1> QED BY <1>5 DEF Solves, HasFold

\* The indices up to k.
LEMMA Prefix ==
    ASSUME NEW n \in Nat, NEW k \in 1..n
    PROVE  /\ 1..k \in SUBSET (1..n) /\ 1..k # {} /\ k - 1 \in 0..n
           /\ Max(1..k) = k
           /\ (1..k) \ {Max(1..k)} = 1..(k - 1)
<1>1. 1..k \in SUBSET (1..n) /\ k \in 1..k /\ k - 1 \in 0..n /\ \A y \in 1..k : y <= k
  OBVIOUS
<1>2. Max(1..k) = k
  BY <1>1, MaxFound
<1>3. (1..k) \ {k} = 1..(k - 1)
  OBVIOUS
<1> QED BY <1>1, <1>2, <1>3

\* The sum over a set of indices, whatever the order.
LEMMA SumExists ==
    ASSUME NEW n \in Nat, NEW w \in [1..n -> Int]
    PROVE  \E it \in [SUBSET (1..n) -> Int] :
              /\ it[{}] = 0
              /\ \A T \in SUBSET (1..n) : \A x \in T : it[T] = w[x] + it[T \ {x}]
<1> DEFINE Sums(it, k) ==
               /\ it[{}] = 0
               /\ \A T \in SUBSET (1..k) : \A x \in T : it[T] = w[x] + it[T \ {x}]
           P == {k \in 0..n : \E it \in [SUBSET (1..k) -> Int] : Sums(it, k)}
<1>1. 0 \in P
  <2> DEFINE it == [T \in SUBSET (1..0) |-> 0]
  <2>1. it \in [SUBSET (1..0) -> Int] /\ 0 \in 0..n
    OBVIOUS
  <2>2. \A T \in SUBSET (1..0) : T = {}
    OBVIOUS
  <2>3. Sums(it, 0)
    BY <2>2
  <2> HIDE DEF it, Sums
  <2> QED BY <2>1, <2>3
<1>2. ASSUME NEW k \in 0..n, k \in P, k + 1 <= n PROVE k + 1 \in P
  <2>1. PICK it \in [SUBSET (1..k) -> Int] : Sums(it, k)
    BY <1>2
  <2> DEFINE m == k + 1
             jt == [T \in SUBSET (1..m) |->
                       IF m \in T THEN w[m] + it[T \ {m}] ELSE it[T]]
  <2>2. m \in 1..n /\ 1..m = (1..k) \cup {m} /\ m \notin 1..k /\ m \in 0..n
    BY <1>2
  <2> HIDE DEF m
  <2>3. ASSUME NEW T \in SUBSET (1..m)
        PROVE  T \ {m} \in SUBSET (1..k) /\ (m \notin T => T \in SUBSET (1..k))
    BY <2>2
  <2>4. w[m] \in Int /\ \A x \in 1..m : w[x] \in Int
    BY <2>2
  <2>5. jt \in [SUBSET (1..m) -> Int]
    <3> SUFFICES ASSUME NEW T \in SUBSET (1..m)
                 PROVE  (IF m \in T THEN w[m] + it[T \ {m}] ELSE it[T]) \in Int
      OBVIOUS
    <3>1. it[T \ {m}] \in Int /\ (m \notin T => it[T] \in Int)
      BY <2>3
    <3> QED BY <3>1, <2>4
  <2>6. jt[{}] = 0
    BY <2>1
  <2>7. ASSUME NEW T \in SUBSET (1..m), NEW x \in T
        PROVE  jt[T] = w[x] + jt[T \ {x}]
    <3> DEFINE R == T \ {x}
    <3>1. R \in SUBSET (1..m)
      OBVIOUS
    <3>2. CASE x = m
      <4>1. jt[T] = w[m] + it[R] /\ jt[R] = it[R]
        BY <3>1, <3>2
      <4> HIDE DEF jt
      <4> QED BY <3>2, <4>1
    <3>3. CASE x # m /\ m \in T
      <4> DEFINE Q == T \ {m}
      <4>1. jt[T] = w[m] + it[Q] /\ jt[R] = w[m] + it[R \ {m}]
        BY <3>1, <3>3
      <4>2. Q \in SUBSET (1..k) /\ x \in Q /\ R \ {m} = Q \ {x} /\ Q \ {x} \in SUBSET (1..k)
        BY <2>3, <3>3
      <4>3. it[Q] = w[x] + it[Q \ {x}]
        BY <2>1, <4>2
      <4>4. it[Q] \in Int /\ it[Q \ {x}] \in Int /\ w[x] \in Int
        BY <2>4, <4>2
      <4>5. jt[R] = w[m] + it[Q \ {x}]
        BY <4>1, <4>2
      <4> HIDE DEF jt, Q, R
      <4>6. jt[T] = w[x] + jt[R]
        BY <2>4, <4>1, <4>3, <4>4, <4>5
      <4> QED BY <4>6 DEF R
    <3>4. CASE m \notin T
      <4>1. T \in SUBSET (1..k) /\ jt[T] = it[T] /\ jt[R] = it[R]
        BY <2>3, <3>1, <3>4
      <4>2. it[T] = w[x] + it[R]
        BY <2>1, <4>1
      <4> HIDE DEF jt
      <4> QED BY <4>1, <4>2
    <3> QED BY <3>2, <3>3, <3>4
  <2>8. Sums(jt, m)
    BY <2>6, <2>7
  <2>9. m \in P
    <3> HIDE DEF jt, Sums
    <3> QED BY <2>2, <2>5, <2>8
  <2> QED BY <2>9 DEF m
<1> HIDE DEF Sums
<1>3. P \in SUBSET (0..n)
  OBVIOUS
<1>4. n \in P
  <2> HIDE DEF P
  <2>1. \A k \in 0..n : k \in P /\ k + 1 <= n => k + 1 \in P
    BY <1>2
  <2>2. \A k \in 0..n : k \in P
    BY <1>1, <1>3, <2>1, UpTo
  <2> QED BY <2>2
<1>5. \E it \in [SUBSET (1..n) -> Int] : Sums(it, n)
  BY <1>4
<1> QED BY <1>5 DEF Sums

\* It is what MapThenSumSet computes.
LEMMA SumOfIndices ==
    ASSUME NEW n \in Nat, NEW w \in [1..n -> Int]
    PROVE  \E it \in [SUBSET (1..n) -> Int] :
              /\ it[{}] = 0
              /\ \A T \in SUBSET (1..n) : \A x \in T : it[T] = w[x] + it[T \ {x}]
              /\ MapThenSumSet(LAMBDA k : w[k], 1..n) = it[1..n]
<1> DEFINE one(T) == CHOOSE x \in T : TRUE
           D == 1..n
<1>1. PICK it \in [SUBSET D -> Int] :
              /\ it[{}] = 0
              /\ \A T \in SUBSET D : \A x \in T : it[T] = w[x] + it[T \ {x}]
  BY SumExists
<1>2. \A T \in SUBSET D : T # {} => one(T) \in T
  OBVIOUS
<1>3. it = [T \in SUBSET D |-> IF T = {} THEN 0 ELSE w[one(T)] + it[T \ {one(T)}]]
  <2>1. \A T \in SUBSET D : it[T] = IF T = {} THEN 0 ELSE w[one(T)] + it[T \ {one(T)}]
    <3> HIDE DEF one
    <3> QED BY <1>1, <1>2
  <2> HIDE DEF one
  <2> QED BY <2>1
<1>4. PICK c : /\ c = [T \in SUBSET D |-> IF T = {} THEN 0 ELSE w[one(T)] + c[T \ {one(T)}]]
               /\ MapThenSumSet(LAMBDA k : w[k], D) = c[D]
  BY <1>3, Zenon DEF MapThenSumSet, MapThenFoldSet
<1> HIDE DEF one
<1>5. \A T \in SUBSET D : c[T] = IF T = {} THEN 0 ELSE w[one(T)] + c[T \ {one(T)}]
  BY <1>4
<1>6. \A T \in SUBSET D : IsFiniteSet(T) /\ Cardinality(T) \in Nat
  <2>1. IsFiniteSet(D)
    BY FS_Interval
  <2> QED BY <2>1, FS_Subset, FS_CardinalityType
<1> DEFINE Differ == {T \in SUBSET D : c[T] # it[T]}
           Sizes == {Cardinality(T) : T \in Differ}
<1>7. Differ = {}
  <2> SUFFICES ASSUME Differ # {} PROVE FALSE
    OBVIOUS
  <2>1. Sizes \in SUBSET Nat /\ Sizes # {}
    BY <1>6
  <2>2. PICK s \in Sizes : \A t \in Sizes : s <= t
    BY <2>1, NatMin
  <2>3. PICK T \in Differ : s = Cardinality(T)
    OBVIOUS
  <2>4. T \in SUBSET D /\ T # {}
    BY <1>1, <1>5, <2>3
  <2> DEFINE x == one(T)
             R == T \ {x}
  <2>5. x \in T /\ R \in SUBSET D
    BY <1>2, <2>4
  <2>6. Cardinality(R) = Cardinality(T) - 1 /\ Cardinality(T) \in Nat
    BY <1>6, <2>4, <2>5, FS_RemoveElement
  <2>7. R \notin Differ
    <3> SUFFICES ASSUME R \in Differ PROVE FALSE
      OBVIOUS
    <3>1. Cardinality(R) \in Sizes
      OBVIOUS
    <3>2. Cardinality(T) <= Cardinality(R)
      BY <2>2, <2>3, <3>1
    <3> QED BY <2>6, <3>2
  <2>8. c[R] = it[R]
    BY <2>5, <2>7
  <2>9. c[T] = w[x] + c[R] /\ it[T] = w[x] + it[R]
    BY <1>1, <1>5, <2>4, <2>5
  <2>10. c[T] = it[T]
    BY <2>8, <2>9
  <2> QED BY <2>3, <2>10
<1>8. c[D] = it[D]
  BY <1>7
<1> QED BY <1>1, <1>4, <1>8

\* A value v that is reached from a in n steps of g within S.
Reached(n, S, a, g, v) ==
    \E r \in [0..n -> S] : /\ r[0] = a
                           /\ \A k \in 1..n : r[k] = g[<<r[k - 1], k>>]
                           /\ r[n] = v

\* Any solution c of the equation, of which the step is known only for values
\* in S, is computed by stepping through the indices.
LEMMA FoldSteps ==
    ASSUME NEW n \in Nat, NEW S, NEW a \in S, NEW g \in [S \X (1..n) -> S], NEW c,
           c[{}] = a,
           \A T \in SUBSET (1..n) :
               T # {} /\ c[T \ {Max(T)}] \in S => c[T] = g[<<c[T \ {Max(T)}], Max(T)>>]
    PROVE  Reached(n, S, a, g, c[1..n])
<1>1. c[1..0] = a
  <2>1. 1..0 = {}
    OBVIOUS
  <2> QED BY <2>1
<1>2. ASSUME NEW k \in 1..n
      PROVE  k - 1 \in 0..n /\ (c[1..(k - 1)] \in S => c[1..k] = g[<<c[1..(k - 1)], k>>])
  <2>1. /\ 1..k \in SUBSET (1..n) /\ 1..k # {} /\ k - 1 \in 0..n
        /\ Max(1..k) = k /\ (1..k) \ {Max(1..k)} = 1..(k - 1)
    BY Prefix
  <2> QED BY <2>1
<1> DEFINE P == {k \in 0..n : c[1..k] \in S}
<1>3. 0 \in P /\ P \in SUBSET (0..n)
  BY <1>1
<1>4. ASSUME NEW k \in 0..n, k \in P, k + 1 <= n PROVE k + 1 \in P
  <2>1. k + 1 \in 1..n /\ k + 1 \in 0..n /\ (k + 1) - 1 = k
    BY <1>4
  <2>2. c[1..(k + 1)] = g[<<c[1..k], k + 1>>]
    BY <1>2, <1>4, <2>1
  <2>3. c[1..(k + 1)] \in S
    BY <1>4, <2>1, <2>2
  <2> QED BY <2>1, <2>3
<1>5. \A k \in 0..n : c[1..k] \in S
  <2>1. \A k \in 0..n : k \in P
    <3> HIDE DEF P
    <3>1. \A k \in 0..n : k \in P /\ k + 1 <= n => k + 1 \in P
      BY <1>4
    <3> QED BY <1>3, <3>1, UpTo
  <2> QED BY <2>1
<1> DEFINE r == [k \in 0..n |-> c[1..k]]
<1>6. r \in [0..n -> S] /\ r[0] = a /\ r[n] = c[1..n]
  BY <1>1, <1>5
<1>7. \A k \in 1..n : r[k] = g[<<r[k - 1], k>>]
  BY <1>2, <1>5
<1> HIDE DEF r
<1> QED BY <1>6, <1>7 DEF Reached

-----------------------------------------------------------------------------
(* tv_sub *)

\* With a borrow or without, and for a clock that was set back, tv_sub returns
\* the difference of the two times, with microseconds in their range.
LEMMA TvSubExact ==
    ASSUME NEW out \in timeval, NEW in \in timeval
    PROVE  /\ tv_sub(out, in) \in timeval
           /\ Micros(tv_sub(out, in)) = Micros(out) - Micros(in)
           /\ Micros(tv_sub(out, in)) \in Int
<1>1. /\ out.tv_sec \in Int /\ in.tv_sec \in Int
      /\ out.tv_usec \in 0..(Usec - 1) /\ in.tv_usec \in 0..(Usec - 1)
      /\ Usec \in Nat \ {0}
  BY PingMathAssumption DEF timeval
<1>2. tv_sub(out, in) \in timeval
  BY <1>1 DEF tv_sub, timeval
<1>3. CASE out.tv_usec - in.tv_usec < 0
  <2>1. /\ tv_sub(out, in).tv_sec = out.tv_sec - 1 - in.tv_sec
        /\ tv_sub(out, in).tv_usec = out.tv_usec - in.tv_usec + Usec
    BY <1>3 DEF tv_sub
  <2>2. (out.tv_sec - 1 - in.tv_sec) * Usec = out.tv_sec * Usec - Usec - in.tv_sec * Usec
    BY <1>1
  <2> QED BY <1>1, <1>2, <2>1, <2>2 DEF Micros
<1>4. CASE ~(out.tv_usec - in.tv_usec < 0)
  <2>1. /\ tv_sub(out, in).tv_sec = out.tv_sec - in.tv_sec
        /\ tv_sub(out, in).tv_usec = out.tv_usec - in.tv_usec
    BY <1>4 DEF tv_sub
  <2>2. (out.tv_sec - in.tv_sec) * Usec = out.tv_sec * Usec - in.tv_sec * Usec
    BY <1>1
  <2> QED BY <1>1, <1>2, <2>1, <2>2 DEF Micros
<1> QED BY <1>2, <1>3, <1>4

-----------------------------------------------------------------------------
(* The carries of in_cksum *)

\* A sum of two words carries once.
LEMMA OneCarry ==
    ASSUME NEW w \in Nat, w > 0, NEW a \in w..(2 * w - 1)
    PROVE  a \div w = 1 /\ a % w = a - w
<1>1. a = w * 1 + (a - w) /\ a - w \in 0..(w - 1)
  OBVIOUS
<1>2. a \div w = 1
  BY <1>1
<1> QED BY <1>1, <1>2

\* Two additions of the carries are enough for every value of the uint32_t sum:
\* what in_cksum complements is the one's complement sum of its two halves, a
\* word, and no carry is left over or lost.
THEOREM CarriesFolded ==
    ASSUME NEW sum \in 0..(W * W - 1)
    PROVE  /\ FoldCarries(sum) = OnesAdd(sum \div W, sum % W)
           /\ FoldCarries(sum) \in 0..(W - 1)
<1> DEFINE h == sum \div W
           l == sum % W
<1>1. W \in Nat /\ W > 1 /\ sum \in Nat /\ sum < W * W
  BY PingMathAssumption DEF W
<1>2. h \in Nat /\ l \in 0..(W - 1) /\ sum = W * h + l
  BY <1>1
<1>3. h < W
  BY <1>1, <1>2
<1> HIDE DEF h, l
<1>4. CASE h + l < W
  BY <1>1, <1>2, <1>3, <1>4 DEF FoldCarries, OnesAdd, h, l
<1>5. CASE h + l >= W
  <2>1. h + l \in W..(2 * W - 1) /\ h + l + 1 \in W..(2 * W - 1)
    BY <1>1, <1>2, <1>3, <1>5
  <2>2. (h + l) \div W = 1 /\ (h + l + 1) % W = h + l + 1 - W
    BY <1>1, <2>1, OneCarry
  <2>3. FoldCarries(sum) = h + l + 1 - W
    BY <2>2 DEF FoldCarries, h, l
  <2>4. OnesAdd(sum \div W, sum % W) = h + l - (W - 1)
    BY <1>5 DEF OnesAdd, h, l
  <2> QED BY <1>1, <1>2, <1>3, <1>5, <2>3, <2>4
<1> QED BY <1>1, <1>2, <1>4, <1>5

-----------------------------------------------------------------------------

-----------------------------------------------------------------------------
(* The loop of in_cksum *)

\* The sizes of a byte and of a word.
LEMMA WordBase == /\ W \in Nat /\ W > 3 /\ B \in Nat /\ B > 1 /\ W = B * B
                  /\ W * W \in Nat /\ W * W > 0
<1>1. B \in Nat /\ B >= 2
  BY PingMathAssumption
<1>2. B * B >= 2 * B /\ B * B \in Nat
  BY <1>1
<1>3. W \in Nat /\ W > 3
  BY <1>1, <1>2 DEF W
<1>4. W * W \in Nat /\ W * W > 0
  BY <1>3
<1> QED BY <1>1, <1>3, <1>4 DEF W

\* Two bytes make a word.
LEMMA TwoBytes ==
    ASSUME NEW x \in Byte, NEW y \in Byte
    PROVE  x + B * y \in 0..(W - 1) /\ x \in 0..(W - 1)
<1>1. x \in Nat /\ y \in Nat /\ x <= B - 1 /\ y <= B - 1 /\ B \in Nat /\ B > 1
  BY WordBase DEF Byte
<1>2. B * y <= B * (B - 1) /\ B * y \in Nat
  BY <1>1
<1>3. B * (B - 1) = W - B
  BY <1>1 DEF W
<1>4. W \in Nat
  BY WordBase
<1> QED BY <1>1, <1>2, <1>3, <1>4

\* The bytes of the k-th word lie inside the packet.
LEMMA WordPlace ==
    ASSUME NEW p \in Seq(Byte)
    PROVE  /\ NumWords(p) \in Nat
           /\ \A k \in 1..NumWords(p) :
                 /\ p[2 * k - 1] \in Byte
                 /\ 2 * k <= Len(p) => p[2 * k] \in Byte
<1>1. Len(p) \in Nat /\ DOMAIN p = 1..Len(p) /\ \A j \in 1..Len(p) : p[j] \in Byte
  OBVIOUS
<1>2. NumWords(p) \in Nat /\ 2 * NumWords(p) <= Len(p) + 1
  BY <1>1 DEF NumWords
<1>3. ASSUME NEW k \in 1..NumWords(p)
      PROVE  2 * k - 1 \in 1..Len(p) /\ (2 * k <= Len(p) => 2 * k \in 1..Len(p))
  BY <1>1, <1>2
<1> QED BY <1>1, <1>2, <1>3

\* A word of a packet is a word.
LEMMA WordType ==
    ASSUME NEW p \in Seq(Byte), NEW k \in 1..NumWords(p)
    PROVE  Word(p, k) \in 0..(W - 1)
<1>1. p[2 * k - 1] \in Byte /\ (2 * k <= Len(p) => p[2 * k] \in Byte)
  BY WordPlace
<1>2. p[2 * k - 1] \in 0..(W - 1)
  BY <1>1, TwoBytes
<1>3. 2 * k <= Len(p) => p[2 * k - 1] + B * p[2 * k] \in 0..(W - 1)
  BY <1>1, TwoBytes
<1> QED BY <1>2, <1>3 DEF Word

\* The sum of in_cksum, word by word.
LEMMA Sum32Steps ==
    ASSUME NEW p \in Seq(Byte)
    PROVE  \E r \in [0..NumWords(p) -> 0..(W * W - 1)] :
              /\ r[0] = 0
              /\ \A k \in 1..NumWords(p) : r[k] = (r[k - 1] + Word(p, k)) % (W * W)
              /\ Sum32(p) = r[NumWords(p)]
<1> DEFINE n == NumWords(p)
           S == 0..(W * W - 1)
           seq == [k \in 1..n |-> Word(p, k)]
           g == [z \in S \X (1..n) |-> (z[1] + Word(p, z[2])) % (W * W)]
<1>1. n \in Nat
  BY WordPlace
<1>2. \A k \in 1..n : Word(p, k) \in Nat
  BY WordType
<1>3. \A s \in S, v \in Nat : (s + v) % (W * W) \in S
  BY WordBase
<1>4. 0 \in S
  BY WordBase
<1> HIDE DEF n, S
<1>5. g \in [S \X (1..n) -> S]
  BY <1>2, <1>3
<1>6. PICK it \in [SUBSET (1..n) -> S] :
              \A T \in SUBSET (1..n) :
                  it[T] = IF T = {} THEN 0 ELSE g[<<it[T \ {Max(T)}], Max(T)>>]
  <2> HIDE DEF g
  <2>1. HasFold(n, S, 0, g)
    BY <1>1, <1>4, <1>5, FoldExists
  <2> QED BY <2>1 DEF HasFold
<1>7. DOMAIN seq = 1..n /\ \A k \in 1..n : seq[k] = Word(p, k)
  OBVIOUS
<1>8. ASSUME NEW T \in SUBSET (1..n), T # {}
      PROVE  it[T] = (it[T \ {Max(T)}] + seq[Max(T)]) % (W * W)
  <2>1. Max(T) \in 1..n /\ T \ {Max(T)} \in SUBSET (1..n)
    BY <1>1, <1>8, MaxFound
  <2>2. it[T \ {Max(T)}] \in S
    BY <2>1
  <2>3. it[T] = g[<<it[T \ {Max(T)}], Max(T)>>]
    BY <1>6, <1>8
  <2> QED BY <1>7, <2>1, <2>2, <2>3
<1> HIDE DEF seq
<1>9. it = [T \in SUBSET (DOMAIN seq) |->
               IF T = {} THEN 0 ELSE (it[T \ {Max(T)}] + seq[Max(T)]) % (W * W)]
  BY <1>6, <1>7, <1>8
<1>10. PICK c : /\ \A T \in SUBSET (1..n) :
                      c[T] = IF T = {} THEN 0 ELSE (c[T \ {Max(T)}] + seq[Max(T)]) % (W * W)
                /\ c[1..n] = Sum32(p)
  <2>1. Sum32(p) = FoldLeft(LAMBDA s, v : (s + v) % (W * W), 0, seq)
    BY Zenon DEF Sum32, seq, n
  <2>2. PICK c : /\ c = [T \in SUBSET (DOMAIN seq) |->
                           IF T = {} THEN 0 ELSE (c[T \ {Max(T)}] + seq[Max(T)]) % (W * W)]
                 /\ Sum32(p) = c[DOMAIN seq]
    BY <1>9, <2>1, Zenon DEF FoldLeft, MapThenFoldSet
  <2>3. \A T \in SUBSET (1..n) :
            c[T] = IF T = {} THEN 0 ELSE (c[T \ {Max(T)}] + seq[Max(T)]) % (W * W)
    BY <1>7, <2>2
  <2>4. c[1..n] = Sum32(p)
    BY <1>7, <2>2
  <2> QED BY <2>3, <2>4, Zenon
<1>11. Reached(n, S, 0, g, Sum32(p))
  <2>1. c[{}] = 0
    BY <1>10
  <2>2. ASSUME NEW T \in SUBSET (1..n), T # {}, c[T \ {Max(T)}] \in S
        PROVE  c[T] = g[<<c[T \ {Max(T)}], Max(T)>>]
    <3>1. Max(T) \in 1..n
      BY <1>1, <2>2, MaxFound
    <3>2. c[T] = (c[T \ {Max(T)}] + seq[Max(T)]) % (W * W)
      BY <1>7, <1>10, <2>2
    <3> QED BY <1>7, <2>2, <3>1, <3>2
  <2> HIDE DEF g
  <2>3. Reached(n, S, 0, g, c[1..n])
    BY <1>1, <1>4, <1>5, <2>1, <2>2, FoldSteps
  <2> QED BY <1>10, <2>3, Zenon
<1>12. PICK r \in [0..n -> S] : /\ r[0] = 0
                                /\ \A k \in 1..n : r[k] = g[<<r[k - 1], k>>]
                                /\ r[n] = Sum32(p)
  BY <1>11 DEF Reached
<1>13. ASSUME NEW k \in 1..n PROVE r[k] = (r[k - 1] + Word(p, k)) % (W * W)
  <2>1. k - 1 \in 0..n
    BY <1>1
  <2> QED BY <1>12, <2>1
<1>14. r[0] = 0 /\ Sum32(p) = r[n]
  BY <1>12, Zenon
<1> QED BY <1>13, <1>14, Zenon DEF n, S

\* No addition overflows: the sum is that of the words.
LEMMA WordSums ==
    ASSUME NEW p \in Seq(Byte), Len(p) <= MaxLen
    PROVE  \E r \in [0..NumWords(p) -> Nat] :
              /\ r[0] = 0
              /\ \A k \in 1..NumWords(p) : r[k] = r[k - 1] + Word(p, k)
              /\ Sum32(p) = r[NumWords(p)]
              /\ Sum32(p) \in 0..(W * W - 1)
<1> DEFINE n == NumWords(p)
           V == W - 1
           M == W * W
<1>1. n \in Nat /\ V \in Nat /\ M \in Nat /\ M > 0
  BY WordPlace, WordBase
<1>2. n * V < M
  <2>1. Len(p) \in Nat /\ MaxLen \in Nat /\ Len(p) + 1 <= MaxLen + 1
    BY PingMathAssumption
  <2>2. n <= (MaxLen + 1) \div 2
    BY <2>1 DEF NumWords
  <2>3. (MaxLen + 1) \div 2 \in Nat /\ ((MaxLen + 1) \div 2) * V < M
    BY <2>1, PingMathAssumption
  <2>4. n * V <= ((MaxLen + 1) \div 2) * V
    BY <1>1, <2>2, <2>3
  <2> QED BY <1>1, <2>3, <2>4
<1>3. PICK r \in [0..n -> 0..(M - 1)] :
          /\ r[0] = 0
          /\ \A k \in 1..n : r[k] = (r[k - 1] + Word(p, k)) % M
          /\ Sum32(p) = r[n]
  BY Sum32Steps
<1>4. \A k \in 1..n : Word(p, k) \in 0..V
  BY WordType
<1> HIDE DEF n, V, M
<1> DEFINE P == {k \in 0..n : r[k] <= k * V}
<1>5. 0 \in P /\ P \in SUBSET (0..n)
  BY <1>1, <1>3
<1>6. ASSUME NEW k \in 0..n, k \in P, k + 1 <= n
      PROVE  r[k + 1] = r[k] + Word(p, k + 1) /\ r[k + 1] <= (k + 1) * V
  <2>1. k + 1 \in 1..n /\ (k + 1) - 1 = k
    BY <1>1, <1>6
  <2>2. Word(p, k + 1) \in Nat /\ Word(p, k + 1) <= V /\ r[k] \in Nat /\ r[k] <= k * V
    <3>1. Word(p, k + 1) \in 0..V
      BY <1>4, <2>1
    <3>2. r[k] \in 0..(M - 1)
      BY <1>3
    <3>3. r[k] <= k * V
      BY <1>6
    <3> QED BY <1>1, <3>1, <3>2, <3>3
  <2>3. (k + 1) * V = k * V + V /\ k * V \in Nat
    BY <1>1
  <2>4. (k + 1) * V <= n * V
    BY <1>1, <1>6
  <2>5. r[k] + Word(p, k + 1) \in 0..(M - 1) /\ r[k] + Word(p, k + 1) <= (k + 1) * V
    <3> DEFINE x == r[k]
               y == Word(p, k + 1)
               kV == k * V
               nV == n * V
    <3>1. x \in Nat /\ y \in Nat /\ kV \in Nat /\ nV \in Nat
      BY <1>1, <2>2, <2>3
    <3>2. x <= kV /\ y <= V /\ kV + V <= nV /\ nV < M
      BY <1>2, <2>2, <2>3, <2>4
    <3> HIDE DEF x, y, kV, nV
    <3>3. x + y \in 0..(M - 1) /\ x + y <= kV + V
      BY <1>1, <3>1, <3>2
    <3> QED BY <2>3, <3>3 DEF x, y, kV
  <2>6. r[k + 1] = (r[k] + Word(p, k + 1)) % M
    BY <1>3, <2>1
  <2>7. \A x \in 0..(M - 1) : x % M = x
    BY <1>1
  <2> QED BY <2>5, <2>6, <2>7
<1>7. \A k \in 0..n : k \in P
  <2>1. \A k \in 0..n : k \in P /\ k + 1 <= n => k + 1 \in P
    BY <1>1, <1>6
  <2> HIDE DEF P
  <2> QED BY <1>1, <1>5, <2>1, UpTo
<1>8. ASSUME NEW k \in 1..n PROVE r[k] = r[k - 1] + Word(p, k)
  <2>1. k - 1 \in 0..n /\ (k - 1) + 1 = k /\ k <= n
    BY <1>1
  <2>2. k - 1 \in P
    BY <1>7, <2>1
  <2> QED BY <1>6, <2>1, <2>2
<1>9. r \in [0..n -> Nat] /\ Sum32(p) \in 0..(M - 1)
  BY <1>1, <1>3
<1>10. r[0] = 0 /\ Sum32(p) = r[n]
  BY <1>3
<1> QED BY <1>8, <1>9, <1>10, Zenon DEF n, M

-----------------------------------------------------------------------------
(* The receiver *)

\* The two bytes of a word, the second one zero behind the end of an odd packet.
Second(p, k) == IF 2 * k <= Len(p) THEN p[2 * k] ELSE 0

\* What sender and receiver read of the k-th word.
LEMMA ReceiverWordIs ==
    ASSUME NEW p \in Seq(Byte), NEW k \in 1..NumWords(p)
    PROVE  /\ p[2 * k - 1] \in Byte /\ Second(p, k) \in Byte
           /\ Word(p, k) = p[2 * k - 1] + B * Second(p, k)
           /\ ReceiverWord(p, k, TRUE) = p[2 * k - 1] + B * Second(p, k)
           /\ ReceiverWord(p, k, FALSE) = B * p[2 * k - 1] + Second(p, k)
           /\ \A little \in BOOLEAN : ReceiverWord(p, k, little) \in 0..(W - 1)
<1>1. p[2 * k - 1] \in Byte /\ (2 * k <= Len(p) => p[2 * k] \in Byte)
  BY WordPlace
<1>2. 0 \in Byte
  BY WordBase DEF Byte
<1>3. Second(p, k) \in Byte
  BY <1>1, <1>2 DEF Second
<1>4. Word(p, k) = p[2 * k - 1] + B * Second(p, k)
  <2>1. CASE 2 * k <= Len(p)
    BY <2>1 DEF Word, Second
  <2>2. CASE ~(2 * k <= Len(p))
    <3>1. Word(p, k) = p[2 * k - 1] /\ Second(p, k) = 0
      BY <2>2 DEF Word, Second
    <3>2. p[2 * k - 1] \in Int /\ B \in Int
      BY <1>1, WordBase DEF Byte
    <3> QED BY <3>1, <3>2
  <2> QED BY <2>1, <2>2
<1>5. /\ ReceiverWord(p, k, TRUE) = p[2 * k - 1] + B * Second(p, k)
      /\ ReceiverWord(p, k, FALSE) = B * p[2 * k - 1] + Second(p, k)
  BY DEF ReceiverWord, Second
<1>6. /\ p[2 * k - 1] + B * Second(p, k) \in 0..(W - 1)
      /\ B * p[2 * k - 1] + Second(p, k) \in 0..(W - 1)
  <2> DEFINE x == p[2 * k - 1]
             y == Second(p, k)
  <2>1. x \in Byte /\ y \in Byte
    BY <1>1, <1>3
  <2> HIDE DEF x, y
  <2>2. x + B * y \in 0..(W - 1) /\ y + B * x \in 0..(W - 1)
    BY <2>1, TwoBytes
  <2>3. y + B * x = B * x + y
    BY <2>1, WordBase DEF Byte
  <2> QED BY <2>2, <2>3 DEF x, y
<1>7. \A little \in BOOLEAN : ReceiverWord(p, k, little) \in 0..(W - 1)
  BY <1>5, <1>6
<1> QED BY <1>1, <1>3, <1>4, <1>5, <1>7

\* The sum of a receiver, word by word.
LEMMA ReceiverSteps ==
    ASSUME NEW p \in Seq(Byte), NEW little \in BOOLEAN
    PROVE  \E r \in [0..NumWords(p) -> 0..(W - 1)] :
              /\ r[0] = 0
              /\ \A k \in 1..NumWords(p) :
                    r[k] = OnesAdd(r[k - 1], ReceiverWord(p, k, little))
              /\ ReceiverSum(p, little) = r[NumWords(p)]
<1> DEFINE n == NumWords(p)
           S == 0..(W - 1)
           seq == [k \in 1..n |-> ReceiverWord(p, k, little)]
           g == [z \in S \X (1..n) |-> OnesAdd(z[1], ReceiverWord(p, z[2], little))]
<1>1. n \in Nat
  BY WordPlace
<1>2. \A k \in 1..n : ReceiverWord(p, k, little) \in S
  BY ReceiverWordIs
<1>3. \A s, v \in S : OnesAdd(s, v) \in S
  BY WordBase DEF OnesAdd
<1>4. 0 \in S
  BY WordBase
<1> HIDE DEF n, S
<1>5. g \in [S \X (1..n) -> S]
  BY <1>2, <1>3
<1>6. PICK it \in [SUBSET (1..n) -> S] :
              \A T \in SUBSET (1..n) :
                  it[T] = IF T = {} THEN 0 ELSE g[<<it[T \ {Max(T)}], Max(T)>>]
  <2> HIDE DEF g
  <2>1. HasFold(n, S, 0, g)
    BY <1>1, <1>4, <1>5, FoldExists
  <2> QED BY <2>1 DEF HasFold
<1>7. DOMAIN seq = 1..n /\ \A k \in 1..n : seq[k] = ReceiverWord(p, k, little)
  OBVIOUS
<1>8. ASSUME NEW T \in SUBSET (1..n), T # {}
      PROVE  it[T] = OnesAdd(it[T \ {Max(T)}], seq[Max(T)])
  <2>1. Max(T) \in 1..n /\ T \ {Max(T)} \in SUBSET (1..n)
    BY <1>1, <1>8, MaxFound
  <2>2. it[T \ {Max(T)}] \in S
    BY <2>1
  <2>3. it[T] = g[<<it[T \ {Max(T)}], Max(T)>>]
    BY <1>6, <1>8
  <2> QED BY <1>7, <2>1, <2>2, <2>3
<1> HIDE DEF seq
<1>9. it = [T \in SUBSET (DOMAIN seq) |->
               IF T = {} THEN 0 ELSE OnesAdd(it[T \ {Max(T)}], seq[Max(T)])]
  BY <1>6, <1>7, <1>8
<1>10. PICK c : /\ \A T \in SUBSET (1..n) :
                      c[T] = IF T = {} THEN 0 ELSE OnesAdd(c[T \ {Max(T)}], seq[Max(T)])
                /\ c[1..n] = ReceiverSum(p, little)
  <2>1. ReceiverSum(p, little) = FoldLeft(OnesAdd, 0, seq)
    BY Zenon DEF ReceiverSum, seq, n
  <2>2. PICK c : /\ c = [T \in SUBSET (DOMAIN seq) |->
                           IF T = {} THEN 0 ELSE OnesAdd(c[T \ {Max(T)}], seq[Max(T)])]
                 /\ ReceiverSum(p, little) = c[DOMAIN seq]
    BY <1>9, <2>1, Zenon DEF FoldLeft, MapThenFoldSet
  <2>3. \A T \in SUBSET (1..n) :
            c[T] = IF T = {} THEN 0 ELSE OnesAdd(c[T \ {Max(T)}], seq[Max(T)])
    BY <1>7, <2>2
  <2>4. c[1..n] = ReceiverSum(p, little)
    BY <1>7, <2>2
  <2> QED BY <2>3, <2>4, Zenon
<1>11. Reached(n, S, 0, g, ReceiverSum(p, little))
  <2>1. c[{}] = 0
    BY <1>10
  <2>2. ASSUME NEW T \in SUBSET (1..n), T # {}, c[T \ {Max(T)}] \in S
        PROVE  c[T] = g[<<c[T \ {Max(T)}], Max(T)>>]
    <3>1. Max(T) \in 1..n
      BY <1>1, <2>2, MaxFound
    <3>2. c[T] = OnesAdd(c[T \ {Max(T)}], seq[Max(T)])
      BY <1>10, <2>2
    <3> QED BY <1>7, <2>2, <3>1, <3>2
  <2> HIDE DEF g
  <2>3. Reached(n, S, 0, g, c[1..n])
    BY <1>1, <1>4, <1>5, <2>1, <2>2, FoldSteps
  <2> QED BY <1>10, <2>3, Zenon
<1>12. PICK r \in [0..n -> S] : /\ r[0] = 0
                                /\ \A k \in 1..n : r[k] = g[<<r[k - 1], k>>]
                                /\ r[n] = ReceiverSum(p, little)
  BY <1>11 DEF Reached
<1>13. ASSUME NEW k \in 1..n PROVE r[k] = OnesAdd(r[k - 1], ReceiverWord(p, k, little))
  <2>1. k - 1 \in 0..n
    BY <1>1
  <2> QED BY <1>12, <2>1
<1>14. r[0] = 0 /\ ReceiverSum(p, little) = r[n]
  BY <1>12, Zenon
<1> QED BY <1>13, <1>14, Zenon DEF n, S

-----------------------------------------------------------------------------
(* Sender and receiver agree *)

\* OnesAdd is addition up to multiples of W - 1, and zero only for zeros.
LEMMA OnesAddIs ==
    ASSUME NEW a \in 0..(W - 1), NEW b \in 0..(W - 1)
    PROVE  /\ \E e \in {0, 1} : a + b = OnesAdd(a, b) + (W - 1) * e
           /\ OnesAdd(a, b) = 0 => a = 0 /\ b = 0
<1>1. W \in Nat /\ W > 3
  BY WordBase
<1>2. CASE a + b >= W
  <2>1. OnesAdd(a, b) = a + b - (W - 1)
    BY <1>2 DEF OnesAdd
  <2>2. a + b = OnesAdd(a, b) + (W - 1) * 1
    BY <1>1, <2>1
  <2> QED BY <1>1, <1>2, <2>1, <2>2
<1>3. CASE ~(a + b >= W)
  <2>1. OnesAdd(a, b) = a + b
    BY <1>3 DEF OnesAdd
  <2>2. a + b = OnesAdd(a, b) + (W - 1) * 0
    BY <1>1, <2>1
  <2> QED BY <1>1, <2>1, <2>2
<1> QED BY <1>2, <1>3

\* So is the adding of the carries.
LEMMA FoldCarriesIs ==
    ASSUME NEW sum \in 0..(W * W - 1)
    PROVE  /\ FoldCarries(sum) \in 0..(W - 1)
           /\ \E j \in Int : sum = FoldCarries(sum) + (W - 1) * j
           /\ sum = 0 => FoldCarries(sum) = 0
<1> DEFINE h == sum \div W
           l == sum % W
           V == W - 1
           F == FoldCarries(sum)
<1>1. W \in Nat /\ W > 3 /\ W * W \in Nat
  BY WordBase
<1>2. h \in Nat /\ l \in 0..(W - 1) /\ sum = W * h + l /\ sum < W * W
  BY <1>1
<1>3. h < W
  BY <1>1, <1>2
<1>4. F = OnesAdd(h, l) /\ F \in 0..(W - 1)
  BY CarriesFolded
<1>5. h \in 0..(W - 1)
  BY <1>1, <1>2, <1>3
<1> HIDE DEF h, l, F
<1>6. PICK e \in {0, 1} : h + l = F + V * e
  BY <1>2, <1>4, <1>5, OnesAddIs
<1>7. W * h = V * h + h
  BY <1>1, <1>2
<1>8. sum = F + V * (h + e)
  <2>1. V * (h + e) = V * h + V * e /\ V * h \in Int /\ V * e \in Int
    BY <1>1, <1>2
  <2>2. F \in Int
    BY <1>1, <1>4
  <2> HIDE DEF V
  <2> QED BY <1>2, <1>6, <1>7, <2>1, <2>2
<1>9. h + e \in Int
  BY <1>2
<1>10. sum = 0 => F = 0
  <2> SUFFICES ASSUME sum = 0 PROVE F = 0
    OBVIOUS
  <2>1. h = 0 /\ l = 0
    BY <1>1 DEF h, l
  <2> QED BY <1>1, <1>4, <2>1 DEF OnesAdd
<1> QED BY <1>4, <1>8, <1>9, <1>10 DEF F

\* The packet of which in_cksum is computed, and the one with checksum c.
Zeroed(p) == [p EXCEPT ![3] = 0, ![4] = 0]
Stored(p, c) == [Zeroed(p) EXCEPT ![3] = c % B, ![4] = c \div B]

\* Only the second word differs, and there it is the checksum.
LEMMA PacketIs ==
    ASSUME NEW p \in Seq(Byte), Len(p) >= 4, NEW c \in 0..(W - 1)
    PROVE  /\ Zeroed(p) \in Seq(Byte) /\ Len(Zeroed(p)) = Len(p)
           /\ Stored(p, c) \in Seq(Byte) /\ NumWords(p) >= 2
           /\ NumWords(Zeroed(p)) = NumWords(p) /\ NumWords(Stored(p, c)) = NumWords(p)
           /\ \A k \in 1..NumWords(p) :
                 Word(Stored(p, c), k) = Word(Zeroed(p), k) + (IF k = 2 THEN c ELSE 0)
<1> DEFINE n == NumWords(p)
           l == Len(p)
           z == Zeroed(p)
           q == Stored(p, c)
<1>1. l \in Nat /\ DOMAIN p = 1..l /\ p = [j \in 1..l |-> p[j]] /\ l >= 4
      /\ \A j \in 1..l : p[j] \in Byte
  OBVIOUS
<1>2. 0 \in Byte /\ c % B \in Byte /\ c \div B \in Byte /\ c = (c % B) + B * (c \div B)
  <2>1. B \in Nat /\ B > 1 /\ W = B * B /\ c \in Nat /\ c < B * B
    BY WordBase
  <2>2. c % B \in 0..(B - 1) /\ c \div B \in Nat /\ c = B * (c \div B) + (c % B)
    BY <2>1
  <2>3. c \div B < B
    <3> DEFINE d == c \div B
               m == c % B
    <3>1. d \in Nat /\ m \in Nat /\ B * d + m < B * B
      BY <2>1, <2>2
    <3> HIDE DEF d, m
    <3>2. SUFFICES ASSUME d >= B PROVE FALSE
      BY <2>1, <3>1 DEF d
    <3>3. B * d >= B * B
      BY <2>1, <3>1, <3>2
    <3> QED BY <2>1, <3>1, <3>3
  <2> QED BY <2>1, <2>2, <2>3 DEF Byte
<1>3. /\ DOMAIN z = 1..l /\ DOMAIN q = 1..l
      /\ \A j \in 1..l : z[j] = IF j \in {3, 4} THEN 0 ELSE p[j]
      /\ \A j \in 1..l : q[j] = IF j = 3 THEN c % B ELSE IF j = 4 THEN c \div B ELSE p[j]
  BY <1>1 DEF Zeroed, Stored
<1>4. z = [j \in 1..l |-> z[j]] /\ q = [j \in 1..l |-> q[j]]
  BY <1>1, <1>3 DEF Zeroed, Stored
<1> HIDE DEF z, q
<1>5. \A j \in 1..l : z[j] \in Byte /\ q[j] \in Byte
  BY <1>1, <1>2, <1>3
<1>6. z \in Seq(Byte) /\ q \in Seq(Byte) /\ Len(z) = l /\ Len(q) = l
  BY <1>1, <1>4, <1>5
<1>7. NumWords(z) = n /\ NumWords(q) = n /\ n \in Nat /\ n >= 2 /\ 2 * n <= l + 1
  BY <1>1, <1>6 DEF NumWords
<1>8. ASSUME NEW k \in 1..n PROVE Word(q, k) = Word(z, k) + (IF k = 2 THEN c ELSE 0)
  <2>1. 2 * k - 1 \in 1..l /\ (2 * k <= l => 2 * k \in 1..l)
    BY <1>1, <1>7
  <2>2. CASE k = 2
    <3>1. /\ q[3] = c % B /\ q[4] = c \div B /\ z[3] = 0 /\ z[4] = 0
      BY <1>1, <1>3
    <3>2. Word(q, k) = q[3] + B * q[4] /\ Word(z, k) = z[3] + B * z[4]
      BY <1>1, <1>6, <2>2 DEF Word
    <3>3. B \in Int /\ B * 0 = 0 /\ c \in Int
      BY WordBase
    <3>4. Word(q, k) = c
      BY <1>2, <3>1, <3>2
    <3>5. Word(z, k) = 0
      BY <3>1, <3>2, <3>3
    <3> QED BY <2>2, <3>3, <3>4, <3>5
  <2>3. CASE k # 2
    <3>1. 2 * k - 1 \notin {3, 4} /\ 2 * k \notin {3, 4}
      BY <2>3
    <3>2. q[2 * k - 1] = z[2 * k - 1] /\ (2 * k <= l => q[2 * k] = z[2 * k])
      BY <1>3, <2>1, <3>1
    <3>3. Word(q, k) = Word(z, k)
      BY <1>6, <3>2 DEF Word
    <3>4. k \in 1..NumWords(z)
      BY <1>7
    <3>5. Word(z, k) \in 0..(W - 1)
      BY <1>6, <3>4, WordType
    <3>6. Word(z, k) \in Int
      BY <3>5, WordBase
    <3> QED BY <2>3, <3>3, <3>6
  <2> QED BY <2>2, <2>3
<1> QED BY <1>6, <1>7, <1>8 DEF z, q

\* Swapping the bytes of a word is multiplying it by B, up to multiples of
\* W - 1.
Scale(little) == IF little THEN 1 ELSE B

\* So the receiver's word is the sender's times the scale, up to those.
LEMMA WordAgrees ==
    ASSUME NEW p \in Seq(Byte), NEW k \in 1..NumWords(p), NEW little \in BOOLEAN
    PROVE  /\ \E u \in Int :
                 Scale(little) * Word(p, k) = ReceiverWord(p, k, little) + (W - 1) * u
           /\ ReceiverWord(p, k, little) = 0 => Word(p, k) = 0
<1> DEFINE x == p[2 * k - 1]
           y == Second(p, k)
<1>1. x \in Nat /\ y \in Nat /\ B \in Nat /\ B > 1 /\ W = B * B
  <2>1. x \in Byte /\ y \in Byte
    BY ReceiverWordIs
  <2>2. B \in Nat /\ B > 1 /\ W = B * B
    BY WordBase
  <2> HIDE DEF x, y
  <2> QED BY <2>1, <2>2 DEF Byte
<1>2. Word(p, k) = x + B * y
  BY ReceiverWordIs
<1>3. /\ ReceiverWord(p, k, TRUE) = x + B * y
      /\ ReceiverWord(p, k, FALSE) = B * x + y
  BY ReceiverWordIs
<1> HIDE DEF x, y
<1>4. CASE little = TRUE
  <2>1. ReceiverWord(p, k, little) = Word(p, k) /\ Scale(little) = 1
    BY <1>2, <1>3, <1>4 DEF Scale
  <2>2. Word(p, k) \in Int /\ W - 1 \in Int
    BY <1>1, <1>2
  <2>3. 1 * Word(p, k) = Word(p, k) + (W - 1) * 0
    BY <2>2
  <2>4. Scale(little) * Word(p, k) = ReceiverWord(p, k, little) + (W - 1) * 0
    BY <2>1, <2>3
  <2> QED BY <2>1, <2>4
<1>5. CASE little = FALSE
  <2>1. ReceiverWord(p, k, little) = B * x + y /\ Scale(little) = B
    BY <1>3, <1>5 DEF Scale
  <2>2. B * (x + B * y) = (B * x + y) + (B * B - 1) * y
    BY <1>1
  <2>3. Scale(little) * Word(p, k) = ReceiverWord(p, k, little) + (W - 1) * y
    BY <1>1, <1>2, <2>1, <2>2
  <2>4. B * x + y = 0 => x = 0 /\ y = 0
    <3>1. B * x \in Nat /\ (x > 0 => B * x > 0)
      BY <1>1
    <3> QED BY <1>1, <3>1
  <2>5. 0 + B * 0 = 0
    BY <1>1
  <2>6. ReceiverWord(p, k, little) = 0 => Word(p, k) = 0
    BY <1>2, <2>1, <2>4, <2>5
  <2>7. y \in Int
    BY <1>1
  <2> QED BY <2>3, <2>6, <2>7
<1> QED BY <1>4, <1>5

\* The receiver's sum of any packet is that of its words in host order, times
\* the scale, up to multiples of W - 1; it is zero only for words that are.
LEMMA SumsAgree ==
    ASSUME NEW p \in Seq(Byte), NEW little \in BOOLEAN,
           NEW t \in [0..NumWords(p) -> Nat], t[0] = 0,
           \A k \in 1..NumWords(p) : t[k] = t[k - 1] + Word(p, k)
    PROVE  /\ ReceiverSum(p, little) \in 0..(W - 1)
           /\ \E u \in Int :
                 Scale(little) * t[NumWords(p)] = ReceiverSum(p, little) + (W - 1) * u
           /\ ReceiverSum(p, little) = 0 => t[NumWords(p)] = 0
<1> DEFINE n == NumWords(p)
           V == W - 1
           m == Scale(little)
           Recv(k) == ReceiverWord(p, k, little)
<1>1. n \in Nat /\ V \in Nat /\ m \in Nat /\ V + 1 = W
  BY WordPlace, WordBase DEF Scale
<1>2. PICK r \in [0..n -> 0..V] :
          /\ r[0] = 0
          /\ \A k \in 1..n : r[k] = OnesAdd(r[k - 1], Recv(k))
          /\ ReceiverSum(p, little) = r[n]
  BY ReceiverSteps
<1>3. ASSUME NEW k \in 1..n
      PROVE  Recv(k) \in 0..V /\ Word(p, k) \in 0..V /\ (Recv(k) = 0 => Word(p, k) = 0)
  BY ReceiverWordIs, WordType, WordAgrees
<1>4. ASSUME NEW k \in 1..n PROVE \E u \in Int : m * Word(p, k) = Recv(k) + V * u
  BY WordAgrees
<1>5. ASSUME NEW a \in 0..V, NEW b \in 0..V
      PROVE  /\ \E e \in {0, 1} : a + b = OnesAdd(a, b) + V * e
             /\ OnesAdd(a, b) = 0 => a = 0 /\ b = 0
  BY OnesAddIs
<1> DEFINE P == {k \in 0..n : /\ \E u \in Int : m * t[k] = r[k] + V * u
                              /\ r[k] = 0 => t[k] = 0}
<1>6. 0 \in P /\ P \in SUBSET (0..n)
  <2>1. m * t[0] = r[0] + V * 0 /\ 0 \in 0..n
    BY <1>1, <1>2
  <2> QED BY <2>1
<1> HIDE DEF n, V, m, Recv
<1>7. ASSUME NEW k \in 0..n, k \in P, k + 1 <= n PROVE k + 1 \in P
  <2> DEFINE i == k + 1
  <2>1. i \in 1..n /\ i - 1 = k /\ i \in 0..n
    BY <1>1, <1>7
  <2> HIDE DEF i
  <2>2. PICK u \in Int : m * t[k] = r[k] + V * u
    BY <1>7
  <2>3. PICK v \in Int : m * Word(p, i) = Recv(i) + V * v
    BY <1>4, <2>1
  <2>4. r[i] = OnesAdd(r[k], Recv(i)) /\ t[i] = t[k] + Word(p, i)
    BY <1>2, <2>1 DEF n
  <2>5. /\ r[k] \in Int /\ Recv(i) \in Int /\ r[i] \in Int /\ t[k] \in Int
        /\ Word(p, i) \in Int /\ r[k] \in 0..V /\ Recv(i) \in 0..V
    <3>1. r[k] \in 0..V /\ r[i] \in 0..V
      BY <1>2, <2>1
    <3>2. Recv(i) \in 0..V /\ Word(p, i) \in 0..V
      BY <1>3, <2>1
    <3>3. t[k] \in Nat
      BY DEF n
    <3> QED BY <1>1, <3>1, <3>2, <3>3
  <2>6. PICK e \in {0, 1} : r[k] + Recv(i) = r[i] + V * e
    BY <1>5, <2>4, <2>5
  <2>7. m * t[i] = m * t[k] + m * Word(p, i)
    <3>1. \A x, y \in Int : m * (x + y) = m * x + m * y
      BY <1>1
    <3>2. m * (t[k] + Word(p, i)) = m * t[k] + m * Word(p, i)
      BY <2>5, <3>1
    <3> QED BY <2>4, <3>2
  <2>8. m * t[i] = r[i] + V * (e + u + v) /\ e + u + v \in Int
    <3>1. V * (e + u + v) = V * e + V * u + V * v /\ V * e \in Int /\ V * u \in Int /\ V * v \in Int
      BY <1>1
    <3> DEFINE Ve == V * e
               Vu == V * u
               Vv == V * v
               a == r[k]
               b == Recv(i)
               c == r[i]
               mi == m * t[i]
    <3>2. /\ mi = (a + Vu) + (b + Vv) /\ a + b = c + Ve
          /\ Ve \in Int /\ Vu \in Int /\ Vv \in Int /\ a \in Int /\ b \in Int /\ c \in Int
      BY <2>2, <2>3, <2>5, <2>6, <2>7, <3>1
    <3> HIDE DEF Ve, Vu, Vv, a, b, c, mi
    <3>3. mi = c + (Ve + Vu + Vv)
      BY <3>2
    <3> QED BY <3>1, <3>3 DEF Ve, Vu, Vv, c, mi
  <2>9. r[i] = 0 => t[i] = 0
    <3> SUFFICES ASSUME r[i] = 0 PROVE t[i] = 0
      OBVIOUS
    <3>1. r[k] = 0 /\ Recv(i) = 0
      BY <1>5, <2>4, <2>5
    <3>2. t[k] = 0 /\ Word(p, i) = 0
      BY <1>3, <1>7, <2>1, <3>1
    <3> QED BY <2>4, <3>2
  <2>10. i \in P
    BY <2>1, <2>8, <2>9
  <2> QED BY <2>10 DEF i
<1>8. n \in P
  <2> HIDE DEF P
  <2>1. \A k \in 0..n : k \in P /\ k + 1 <= n => k + 1 \in P
    BY <1>7
  <2>2. \A k \in 0..n : k \in P
    BY <1>1, <1>6, <2>1, UpTo
  <2> QED BY <1>1, <2>2
<1>9. r[n] \in 0..V
  BY <1>1, <1>2
<1> QED BY <1>2, <1>8, <1>9 DEF n, V, m

\* The checksum makes the sum of the words a positive multiple of W - 1.
LEMMA SumWithChecksum ==
    ASSUME NEW p \in Seq(Byte), Len(p) >= 4, Len(p) <= MaxLen
    PROVE  /\ WithChecksum(p) \in Seq(Byte) /\ NumWords(WithChecksum(p)) = NumWords(p)
           /\ \E t \in [0..NumWords(p) -> Nat] :
                 /\ t[0] = 0
                 /\ \A k \in 1..NumWords(p) : t[k] = t[k - 1] + Word(WithChecksum(p), k)
                 /\ t[NumWords(p)] > 0
                 /\ \E j \in Int : t[NumWords(p)] = (W - 1) * j
<1> DEFINE n == NumWords(p)
           V == W - 1
           z == Zeroed(p)
           F == FoldCarries(Sum32(z))
           c == in_cksum(z)
           q == Stored(p, c)
<1>1. q = WithChecksum(p)
  BY DEF WithChecksum, Zeroed, Stored
<1>2. V \in Nat /\ V > 2 /\ V + 1 = W /\ n \in Nat
  BY WordBase, WordPlace
<1>3. z \in Seq(Byte) /\ Len(z) = Len(p) /\ NumWords(z) = n
  <2>1. 0 \in 0..(W - 1)
    BY <1>2
  <2> QED BY <2>1, PacketIs
<1>4. PICK s \in [0..n -> Nat] :
          /\ s[0] = 0
          /\ \A k \in 1..n : s[k] = s[k - 1] + Word(z, k)
          /\ Sum32(z) = s[n]
          /\ Sum32(z) \in 0..(W * W - 1)
  <2> HIDE DEF z, n
  <2> QED BY <1>3, WordSums
<1>5. /\ F \in 0..V
      /\ Sum32(z) = 0 => F = 0
      /\ \E j \in Int : Sum32(z) = F + V * j
  BY <1>4, FoldCarriesIs
<1>6. c = V - F /\ c \in 0..V
  BY <1>2, <1>5 DEF in_cksum
<1> HIDE DEF F, c
<1>7. /\ q \in Seq(Byte) /\ NumWords(q) = n /\ n >= 2
      /\ \A k \in 1..n : Word(q, k) = Word(z, k) + (IF k = 2 THEN c ELSE 0)
  BY <1>6, PacketIs
<1> HIDE DEF q, n, V, z
<1> DEFINE t == [k \in 0..n |-> s[k] + (IF k >= 2 THEN c ELSE 0)]
<1>8. c \in Nat /\ F \in Nat
  BY <1>2, <1>5, <1>6
<1>9. t \in [0..n -> Nat] /\ t[0] = 0
  BY <1>2, <1>4, <1>8
<1>10. ASSUME NEW k \in 1..n PROVE t[k] = t[k - 1] + Word(q, k)
  <2>1. k \in 0..n /\ k - 1 \in 0..n
    BY <1>2
  <2>2. /\ t[k] = s[k] + (IF k >= 2 THEN c ELSE 0)
        /\ t[k - 1] = s[k - 1] + (IF k - 1 >= 2 THEN c ELSE 0)
    BY <2>1
  <2>3. s[k] = s[k - 1] + Word(z, k) /\ Word(q, k) = Word(z, k) + (IF k = 2 THEN c ELSE 0)
    BY <1>4, <1>7
  <2>4. Word(z, k) \in Int /\ s[k - 1] \in Int
    <3>1. k \in 1..NumWords(z)
      BY <1>3 DEF n
    <3>2. Word(z, k) \in 0..(W - 1) /\ W \in Nat
      BY <1>3, <3>1, WordType, WordBase
    <3> QED BY <2>1, <3>2
  <2> HIDE DEF t
  <2>5. CASE k < 2
    BY <2>2, <2>3, <2>4, <2>5
  <2>6. CASE k = 2
    BY <1>8, <2>2, <2>3, <2>4, <2>6
  <2>7. CASE k > 2
    BY <1>8, <2>2, <2>3, <2>4, <2>7
  <2> QED BY <1>2, <2>5, <2>6, <2>7
<1>11. t[n] = Sum32(z) + (V - F) /\ Sum32(z) \in Nat
  BY <1>2, <1>4, <1>6, <1>7
<1> HIDE DEF t
<1>12. t[n] > 0
  <2>1. CASE Sum32(z) = 0
    BY <1>2, <1>5, <1>11, <2>1
  <2>2. CASE Sum32(z) # 0
    <3>1. Sum32(z) >= 1 /\ V - F \in Nat
      BY <1>6, <1>8, <1>11, <2>2
    <3> QED BY <1>11, <3>1
  <2> QED BY <2>1, <2>2
<1>13. \E j \in Int : t[n] = V * j
  <2>1. PICK j \in Int : Sum32(z) = F + V * j
    BY <1>5
  <2>2. V * (j + 1) = V * j + V /\ V * j \in Int /\ j + 1 \in Int
    BY <1>2
  <2>3. t[n] = V * (j + 1)
    <3> DEFINE Vj == V * j
    <3>1. Vj \in Int /\ t[n] = (F + Vj) + (V - F)
      BY <1>11, <2>1, <2>2
    <3> HIDE DEF Vj
    <3>2. t[n] = Vj + V
      BY <1>2, <1>8, <3>1
    <3> QED BY <2>2, <3>2 DEF Vj
  <2> QED BY <2>2, <2>3
<1> QED BY <1>1, <1>7, <1>9, <1>10, <1>12, <1>13 DEF n, V

\* Every receiver computes W - 1 for the packet probe() sends.
LEMMA ReceiverAccepts ==
    ASSUME NEW p \in Seq(Byte), Len(p) >= 4, Len(p) <= MaxLen, NEW little \in BOOLEAN
    PROVE  ReceiverSum(WithChecksum(p), little) = W - 1
<1> DEFINE q == WithChecksum(p)
           n == NumWords(p)
           V == W - 1
           m == Scale(little)
           r == ReceiverSum(q, little)
<1>1. q \in Seq(Byte) /\ NumWords(q) = n
  BY SumWithChecksum
<1>2. PICK t \in [0..n -> Nat] :
          /\ t[0] = 0
          /\ \A k \in 1..n : t[k] = t[k - 1] + Word(q, k)
          /\ t[n] > 0
          /\ \E j \in Int : t[n] = V * j
  BY SumWithChecksum
<1> HIDE DEF q
<1>3. /\ r \in 0..V
      /\ \E u \in Int : m * t[n] = r + V * u
      /\ r = 0 => t[n] = 0
  <2>1. /\ t \in [0..NumWords(q) -> Nat] /\ t[0] = 0
        /\ \A k \in 1..NumWords(q) : t[k] = t[k - 1] + Word(q, k)
    BY <1>1, <1>2
  <2> HIDE DEF n
  <2>2. /\ r \in 0..V
        /\ \E u \in Int : m * t[NumWords(q)] = r + V * u
        /\ r = 0 => t[NumWords(q)] = 0
    BY <1>1, <2>1, SumsAgree, Zenon
  <2> QED BY <1>1, <2>2
<1>4. V \in Nat /\ V > 2 /\ m \in Int /\ n \in Nat
  BY WordBase, WordPlace DEF Scale
<1> HIDE DEF n, V, m, r
<1>5. PICK j \in Int, u \in Int : t[n] = V * j /\ m * t[n] = r + V * u
  BY <1>2, <1>3
<1>6. r = V * (m * j - u)
  <2>1. r \in Int
    BY <1>3, <1>4
  <2>2. m * (V * j) = V * (m * j) /\ V * (m * j - u) = V * (m * j) - V * u
        /\ V * (m * j) \in Int /\ V * u \in Int
    BY <1>4
  <2> DEFINE a == V * (m * j)
             b == V * u
  <2>3. a = r + b /\ a \in Int /\ b \in Int
    BY <1>5, <2>2
  <2> HIDE DEF a, b
  <2>4. r = a - b
    BY <2>1, <2>3
  <2> QED BY <2>2, <2>4 DEF a, b
<1>7. r > 0 /\ r <= V
  BY <1>2, <1>3, <1>4
<1> DEFINE x == m * j - u
<1>8. x \in Int /\ r = V * x
  BY <1>4, <1>6
<1> HIDE DEF x
<1>9. x = 1
  <2>1. x <= 0 => V * x <= 0
    BY <1>4, <1>8
  <2>2. x >= 2 => V * x >= V + V
    BY <1>4, <1>8
  <2>3. ~(x <= 0)
    <3> SUFFICES ASSUME x <= 0 PROVE FALSE
      OBVIOUS
    <3>1. r <= 0
      BY <1>8, <2>1
    <3> QED BY <1>3, <1>4, <1>7, <3>1
  <2>4. ~(x >= 2)
    <3> SUFFICES ASSUME x >= 2 PROVE FALSE
      OBVIOUS
    <3>1. r >= V + V
      BY <1>8, <2>2
    <3> QED BY <1>3, <1>4, <1>7, <3>1
  <2> QED BY <1>8, <2>3, <2>4
<1> QED BY <1>4, <1>8, <1>9 DEF r, V, q

-----------------------------------------------------------------------------
(* The statistics of a round *)

StatType == [min: Int, max: Int, sum: Int]

\* The loop of finish(), reply by reply.
LEMMA StatSteps ==
    ASSUME NEW rs \in Seq(Int), rs # <<>>
    PROVE  \E r \in [0..(Len(rs) - 1) -> StatType] :
              /\ r[0] = [min |-> rs[1], max |-> rs[1], sum |-> rs[1]]
              /\ \A k \in 1..(Len(rs) - 1) : r[k] = Stat(r[k - 1], rs[k + 1])
              /\ Statistics(rs) = r[Len(rs) - 1]
<1> DEFINE n == Len(rs) - 1
           S == StatType
           a == [min |-> rs[1], max |-> rs[1], sum |-> rs[1]]
           seq == Tail(rs)
           g == [z \in S \X (1..n) |-> Stat(z[1], rs[z[2] + 1])]
<1>1. n \in Nat /\ rs[1] \in Int /\ \A k \in 1..n : rs[k + 1] \in Int
  OBVIOUS
<1>2. DOMAIN seq = 1..n /\ \A k \in 1..n : seq[k] = rs[k + 1]
  OBVIOUS
<1>3. a \in S
  BY <1>1 DEF StatType
<1>4. \A s \in S, v \in Int : Stat(s, v) \in S
  BY DEF StatType, Stat
<1> HIDE DEF n, S, seq
<1>5. g \in [S \X (1..n) -> S]
  BY <1>1, <1>4
<1> HIDE DEF a
<1>6. PICK it \in [SUBSET (1..n) -> S] :
              \A T \in SUBSET (1..n) :
                  it[T] = IF T = {} THEN a ELSE g[<<it[T \ {Max(T)}], Max(T)>>]
  <2> HIDE DEF g
  <2>1. HasFold(n, S, a, g)
    BY <1>1, <1>3, <1>5, FoldExists
  <2> QED BY <2>1 DEF HasFold
<1>7. ASSUME NEW T \in SUBSET (1..n), T # {}
      PROVE  it[T] = Stat(it[T \ {Max(T)}], seq[Max(T)])
  <2>1. Max(T) \in 1..n /\ T \ {Max(T)} \in SUBSET (1..n)
    BY <1>1, <1>7, MaxFound
  <2>2. it[T \ {Max(T)}] \in S
    BY <2>1
  <2>3. it[T] = g[<<it[T \ {Max(T)}], Max(T)>>]
    BY <1>6, <1>7
  <2> QED BY <1>2, <2>1, <2>2, <2>3
<1>8. it = [T \in SUBSET (DOMAIN seq) |->
               IF T = {} THEN a ELSE Stat(it[T \ {Max(T)}], seq[Max(T)])]
  BY <1>2, <1>6, <1>7
<1>9. PICK c : /\ \A T \in SUBSET (1..n) :
                     c[T] = IF T = {} THEN a ELSE Stat(c[T \ {Max(T)}], seq[Max(T)])
               /\ c[1..n] = Statistics(rs)
  <2>1. Statistics(rs) = FoldLeft(Stat, a, seq)
    BY Zenon DEF Statistics, seq, a
  <2>2. PICK c : /\ c = [T \in SUBSET (DOMAIN seq) |->
                           IF T = {} THEN a ELSE Stat(c[T \ {Max(T)}], seq[Max(T)])]
                 /\ Statistics(rs) = c[DOMAIN seq]
    BY <1>8, <2>1, Zenon DEF FoldLeft, MapThenFoldSet
  <2>3. \A T \in SUBSET (1..n) :
            c[T] = IF T = {} THEN a ELSE Stat(c[T \ {Max(T)}], seq[Max(T)])
    BY <1>2, <2>2
  <2>4. c[1..n] = Statistics(rs)
    BY <1>2, <2>2
  <2> QED BY <2>3, <2>4, Zenon
<1>10. Reached(n, S, a, g, Statistics(rs))
  <2>1. c[{}] = a
    BY <1>9
  <2>2. ASSUME NEW T \in SUBSET (1..n), T # {}, c[T \ {Max(T)}] \in S
        PROVE  c[T] = g[<<c[T \ {Max(T)}], Max(T)>>]
    <3>1. Max(T) \in 1..n
      BY <1>1, <2>2, MaxFound
    <3>2. c[T] = Stat(c[T \ {Max(T)}], seq[Max(T)])
      BY <1>9, <2>2
    <3> QED BY <1>2, <2>2, <3>1, <3>2
  <2> HIDE DEF g
  <2>3. Reached(n, S, a, g, c[1..n])
    BY <1>1, <1>3, <1>5, <2>1, <2>2, FoldSteps
  <2> QED BY <1>9, <2>3, Zenon
<1>11. PICK r \in [0..n -> S] : /\ r[0] = a
                                /\ \A k \in 1..n : r[k] = g[<<r[k - 1], k>>]
                                /\ r[n] = Statistics(rs)
  BY <1>10 DEF Reached
<1>12. ASSUME NEW k \in 1..n PROVE r[k] = Stat(r[k - 1], rs[k + 1])
  <2>1. k - 1 \in 0..n
    BY <1>1
  <2> QED BY <1>11, <2>1
<1>13. r[0] = a /\ Statistics(rs) = r[n]
  BY <1>11, Zenon
<1> QED BY <1>12, <1>13, Zenon DEF n, S, a

\* After k steps: the least, the greatest and the total of the first k + 1
\* round trip times; "it" is the sum over a set of replies.
Covered(rs, it, st, k) ==
    /\ \E i \in 1..(k + 1) : st.min = rs[i]
    /\ \A i \in 1..(k + 1) : st.min <= rs[i]
    /\ \E i \in 1..(k + 1) : st.max = rs[i]
    /\ \A i \in 1..(k + 1) : st.max >= rs[i]
    /\ st.sum = it[1..(k + 1)]

\* One more reply keeps that.
LEMMA StatCovers ==
    ASSUME NEW rs \in Seq(Int), NEW it \in [SUBSET (1..Len(rs)) -> Int],
           \A T \in SUBSET (1..Len(rs)) : \A x \in T : it[T] = rs[x] + it[T \ {x}],
           NEW k \in Nat, k + 2 <= Len(rs),
           NEW st \in StatType, Covered(rs, it, st, k)
    PROVE  Covered(rs, it, Stat(st, rs[k + 2]), k + 1)
<1> DEFINE v == rs[k + 2]
           s == Stat(st, v)
<1>1. /\ v \in Int /\ k + 2 \in 1..Len(rs) /\ (k + 1) + 1 = k + 2
      /\ 1..(k + 2) = (1..(k + 1)) \cup {k + 2}
      /\ \A i \in 1..(k + 2) : rs[i] \in Int
  OBVIOUS
<1>2. st.min \in Int /\ st.max \in Int /\ st.sum \in Int
  BY DEF StatType
<1> HIDE DEF v
<1>3. /\ s.min = IF v < st.min THEN v ELSE st.min
      /\ s.max = IF v > st.max THEN v ELSE st.max
      /\ s.sum = st.sum + v
  BY DEF Stat
<1> HIDE DEF s
<1>4. v = rs[k + 2]
  BY DEF v
<1>5. \E i \in 1..(k + 2) : s.min = rs[i]
  BY <1>1, <1>3, <1>4 DEF Covered
<1>6. ASSUME NEW i \in 1..(k + 2) PROVE s.min <= rs[i]
  <2> DEFINE x == rs[i]
             o == st.min
  <2>1. x \in Int /\ o \in Int /\ (i = k + 2 => x = v) /\ (i # k + 2 => o <= x)
    BY <1>1, <1>2, <1>4 DEF Covered
  <2>2. s.min = IF v < o THEN v ELSE o
    BY <1>3
  <2> HIDE DEF x, o
  <2>3. s.min <= x
    BY <1>1, <2>1, <2>2
  <2> QED BY <2>3 DEF x
<1>7. \E i \in 1..(k + 2) : s.max = rs[i]
  BY <1>1, <1>3, <1>4 DEF Covered
<1>8. ASSUME NEW i \in 1..(k + 2) PROVE s.max >= rs[i]
  <2> DEFINE x == rs[i]
             o == st.max
  <2>1. x \in Int /\ o \in Int /\ (i = k + 2 => x = v) /\ (i # k + 2 => o >= x)
    BY <1>1, <1>2, <1>4 DEF Covered
  <2>2. s.max = IF v > o THEN v ELSE o
    BY <1>3
  <2> HIDE DEF x, o
  <2>3. s.max >= x
    BY <1>1, <2>1, <2>2
  <2> QED BY <2>3 DEF x
<1>9. s.sum = it[1..(k + 2)]
  <2>1. 1..(k + 2) \in SUBSET (1..Len(rs)) /\ k + 2 \in 1..(k + 2)
    BY <1>1
  <2>2. (1..(k + 2)) \ {k + 2} = 1..(k + 1)
    BY <1>1
  <2>3. it[1..(k + 2)] = v + it[1..(k + 1)]
    BY <1>4, <2>1, <2>2
  <2>4. st.sum = it[1..(k + 1)]
    BY DEF Covered
  <2> QED BY <1>1, <1>2, <1>3, <2>3, <2>4
<1> QED BY <1>1, <1>5, <1>6, <1>7, <1>8, <1>9 DEF Covered, s, v

\* The least element of a set, where it has one.
LEMMA LeastIs ==
    ASSUME NEW T \in SUBSET Int, NEW x \in T, \A y \in T : x <= y
    PROVE  Min(T) = x
<1> DEFINE m == Min(T)
<1>1. m \in T /\ \A y \in T : m <= y
  BY DEF Min
<1> HIDE DEF m
<1>2. m <= x /\ x <= m /\ m \in Int /\ x \in Int
  BY <1>1
<1>3. m = x
  BY <1>2
<1> QED BY <1>3 DEF m

\* And the greatest.
LEMMA GreatestIs ==
    ASSUME NEW T \in SUBSET Int, NEW x \in T, \A y \in T : x >= y
    PROVE  Max(T) = x
<1> DEFINE m == Max(T)
<1>1. m \in T /\ \A y \in T : m >= y
  BY DEF Max
<1> HIDE DEF m
<1>2. m >= x /\ x >= m /\ m \in Int /\ x \in Int
  BY <1>1
<1>3. m = x
  BY <1>2
<1> QED BY <1>3 DEF m

\* The statistics of a round are those of all its replies.
LEMMA StatisticsOf ==
    ASSUME NEW rs \in Seq(Int), rs # <<>>
    PROVE  /\ Statistics(rs).min = Min(Range(rs))
           /\ Statistics(rs).max = Max(Range(rs))
           /\ Statistics(rs).sum = MapThenSumSet(LAMBDA k : rs[k], DOMAIN rs)
<1> DEFINE l == Len(rs)
           n == Len(rs) - 1
           st == Statistics(rs)
<1>1. l \in Nat /\ n \in Nat /\ n + 1 = l /\ DOMAIN rs = 1..l /\ rs \in [1..l -> Int]
  OBVIOUS
<1>2. PICK it \in [SUBSET (1..l) -> Int] :
          /\ it[{}] = 0
          /\ \A T \in SUBSET (1..l) : \A x \in T : it[T] = rs[x] + it[T \ {x}]
          /\ MapThenSumSet(LAMBDA k : rs[k], 1..l) = it[1..l]
  BY <1>1, SumOfIndices
<1>3. PICK r \in [0..n -> StatType] :
          /\ r[0] = [min |-> rs[1], max |-> rs[1], sum |-> rs[1]]
          /\ \A k \in 1..n : r[k] = Stat(r[k - 1], rs[k + 1])
          /\ st = r[n]
  BY StatSteps
<1> DEFINE P == {k \in 0..n : Covered(rs, it, r[k], k)}
<1>4. 0 \in P /\ P \in SUBSET (0..n)
  <2>1. 0 \in 0..n /\ 1 \in 1..1 /\ 1..(0 + 1) = {1} /\ 1 \in 1..l /\ rs[1] \in Int
    BY <1>1
  <2>2. it[{1}] = rs[1]
    <3>1. {1} \in SUBSET (1..l) /\ 1 \in {1} /\ {1} \ {1} = {}
      BY <2>1
    <3>2. it[{1}] = rs[1] + it[{}]
      BY <1>2, <3>1
    <3> QED BY <1>2, <2>1, <3>2
  <2>3. r[0].min = rs[1] /\ r[0].max = rs[1] /\ r[0].sum = rs[1]
    BY <1>3
  <2>4. Covered(rs, it, r[0], 0)
    BY <2>1, <2>2, <2>3 DEF Covered
  <2> QED BY <2>1, <2>4
<1> HIDE DEF st
<1>5. ASSUME NEW k \in 0..n, k \in P, k + 1 <= n PROVE k + 1 \in P
  <2>1. k + 1 \in 1..n /\ k + 1 \in 0..n /\ (k + 1) - 1 = k /\ (k + 1) + 1 = k + 2
        /\ k \in Nat /\ k + 2 <= Len(rs)
    BY <1>1, <1>5
  <2>2. r[k + 1] = Stat(r[k], rs[k + 2])
    BY <1>3, <2>1
  <2>3. r[k] \in StatType /\ Covered(rs, it, r[k], k)
    BY <1>5
  <2>4. Covered(rs, it, Stat(r[k], rs[k + 2]), k + 1)
    BY <1>2, <2>1, <2>3, StatCovers
  <2>5. Covered(rs, it, r[k + 1], k + 1)
    BY <2>2, <2>4
  <2> QED BY <2>1, <2>5
<1>6. n \in P
  <2> HIDE DEF P, n
  <2>1. \A k \in 0..n : k \in P /\ k + 1 <= n => k + 1 \in P
    BY <1>5
  <2>2. \A k \in 0..n : k \in P
    BY <1>1, <1>4, <2>1, UpTo
  <2> QED BY <1>1, <2>2
<1>7. Covered(rs, it, st, n)
  BY <1>3, <1>6
<1>8. st.min \in Range(rs) /\ \A y \in Range(rs) : st.min <= y
  BY <1>1, <1>7 DEF Covered, Range
<1>9. st.max \in Range(rs) /\ \A y \in Range(rs) : st.max >= y
  BY <1>1, <1>7 DEF Covered, Range
<1>10. Range(rs) \in SUBSET Int
  BY <1>1 DEF Range
<1>11. st.min = Min(Range(rs)) /\ st.max = Max(Range(rs))
  BY <1>8, <1>9, <1>10, LeastIs, GreatestIs
<1>12. st.sum = it[1..l]
  BY <1>1, <1>7 DEF Covered
<1>13. st.sum = MapThenSumSet(LAMBDA k : rs[k], DOMAIN rs)
  BY <1>1, <1>2, <1>12
<1> QED BY <1>11, <1>13 DEF st

-----------------------------------------------------------------------------
(* The round trip times *)

TimesInv ==
    /\ recvtime \in timeval
    /\ rtts \in Seq(Int) /\ elapsed \in Seq(Int)
    /\ RttExact

\* It is inductive: only Reply changes the times, and tv_sub is exact.
LEMMA TimesInvHolds == Spec => []TimesInv
<1>1. Init => TimesInv
  BY PingMathAssumption DEF Init, TimesInv, timeval, RttExact
<1>2. TimesInv /\ [Next]_vars => TimesInv'
  <2> SUFFICES ASSUME TimesInv, [Next]_vars PROVE TimesInv'
    OBVIOUS
  <2>1. ASSUME NEW b \in Byte, Fill(b) PROVE TimesInv'
    BY <2>1 DEF Fill, TimesInv, RttExact
  <2>2. ASSUME NEW tvsend \in Clock, NEW now \in Clock, Reply(tvsend, now) PROVE TimesInv'
    <3>1. now \in timeval /\ tvsend \in timeval
      BY PingMathAssumption DEF Clock, timeval
    <3>2. /\ recvtime' = tv_sub(now, tvsend)
          /\ rtts' = Append(rtts, Micros(recvtime'))
          /\ elapsed' = Append(elapsed, Micros(now) - Micros(tvsend))
      BY <2>2 DEF Reply
    <3>3. /\ recvtime' \in timeval /\ Micros(recvtime') \in Int
          /\ Micros(recvtime') = Micros(now) - Micros(tvsend)
      BY <3>1, <3>2, TvSubExact
    <3> QED BY <3>2, <3>3 DEF TimesInv, RttExact
  <2>3. CASE UNCHANGED vars
    BY <2>3 DEF vars, TimesInv, RttExact
  <2> QED BY <2>1, <2>2, <2>3 DEF Next
<1> QED BY <1>1, <1>2, PTL DEF Spec

\* Every round trip time of every round is the time that has passed between
\* the request and its reply.
THEOREM RttExactHolds == Spec => []RttExact
<1>1. TimesInv => RttExact
  BY DEF TimesInv
<1> QED BY <1>1, TimesInvHolds, PTL

-----------------------------------------------------------------------------
(* The packets *)

PacketInv == sendbuf \in Seq(Byte) /\ Len(sendbuf) <= MaxLen

\* A packet keeps its type and its bound: no action but Fill changes it.
LEMMA PacketInvHolds == Spec => []PacketInv
<1>1. Init => PacketInv
  BY PingMathAssumption DEF Init, PacketInv
<1>2. PacketInv /\ [Next]_vars => PacketInv'
  <2> SUFFICES ASSUME PacketInv, [Next]_vars PROVE PacketInv'
    OBVIOUS
  <2>1. ASSUME NEW b \in Byte, Fill(b) PROVE PacketInv'
    <3>1. sendbuf' = Append(sendbuf, b) /\ Len(sendbuf) < MaxLen
      BY <2>1 DEF Fill
    <3>2. sendbuf \in Seq(Byte) /\ MaxLen \in Nat
      BY PingMathAssumption DEF PacketInv
    <3> QED BY <3>1, <3>2 DEF PacketInv
  <2>2. ASSUME NEW tvsend \in Clock, NEW now \in Clock, Reply(tvsend, now) PROVE PacketInv'
    BY <2>2 DEF Reply, PacketInv
  <2>3. CASE UNCHANGED vars
    BY <2>3 DEF vars, PacketInv
  <2> QED BY <2>1, <2>2, <2>3 DEF Next
<1> QED BY <1>1, <1>2, PTL DEF Spec

\* The checksum of a packet is a word.
LEMMA ChecksumIsWord ==
    ASSUME NEW p \in Seq(Byte), Len(p) <= MaxLen
    PROVE  in_cksum(p) \in 0..(W - 1)
<1>1. Sum32(p) \in 0..(W * W - 1)
  BY WordSums
<1>2. FoldCarries(Sum32(p)) \in 0..(W - 1) /\ W \in Nat
  BY <1>1, FoldCarriesIs, WordBase
<1> QED BY <1>2 DEF in_cksum

\* Every state is well typed; in particular the checksum of a packet of any
\* length up to the bound is a word, whatever carries its sum has.
THEOREM TypeCorrect == Spec => []TypeOK
<1>1. PacketInv /\ TimesInv => TypeOK
  BY ChecksumIsWord DEF PacketInv, TimesInv, TypeOK
<1> QED BY <1>1, PacketInvHolds, TimesInvHolds, PTL

\* Every packet with room for a checksum, of any bytes and of even or odd
\* length, is accepted by a receiver of either byte order: its sum of the
\* packet that probe() sends has all bits set.
THEOREM ChecksumVerifiesHolds == Spec => []ChecksumVerifies
<1>1. PacketInv => ChecksumVerifies
  BY ReceiverAccepts DEF PacketInv, ChecksumVerifies
<1> QED BY <1>1, PacketInvHolds, PTL

\* For any number of replies and any round trip times, negative ones too, the
\* loop of finish() leaves their least, greatest and total.
THEOREM StatisticsRightHolds == Spec => []StatisticsRight
<1>1. TimesInv => StatisticsRight
  BY StatisticsOf DEF TimesInv, StatisticsRight
<1> QED BY <1>1, TimesInvHolds, PTL
=============================================================================

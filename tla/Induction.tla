----------------------------- MODULE Induction -----------------------------
(***************************************************************************)
(* Induction and recursion over the natural numbers, without an operator   *)
(* as a parameter: what the proofs about recursive functions rest on.      *)
(***************************************************************************)
EXTENDS Integers, WellFoundedInduction, TLAPS

\* A set of natural numbers that is not empty has a least element.
LEMMA LeastNumber ==
    ASSUME NEW T \in SUBSET Nat, T # {}
    PROVE  \E x \in T : \A y \in T : x <= y
  <1> DEFINE R == OpToRel(<, Nat)
  <1>1. IsWellFoundedOn(R, Nat)
    BY NatLessThanWellFounded
  <1>2. \A a, b \in Nat : a < b => <<a, b>> \in R
    BY DEF OpToRel
  <1> HIDE DEF R
  <1>3. PICK x \in T : \A y \in T : ~(<<y, x>> \in R)
    BY <1>1, WFMin
  <1>4. \A y \in T : ~(y < x)
    BY <1>2, <1>3
  <1> QED
    BY <1>4

\* A set that holds 0 and, with a number up to a bound, the next one, holds
\* them all.
LEMMA UpTo ==
    ASSUME NEW M \in Nat, NEW T, 0 \in T,
           \A k \in 0 .. M - 1 : k \in T => k + 1 \in T
    PROVE  \A k \in 0..M : k \in T
  <1> DEFINE F == {k \in 0..M : k \notin T}
  <1>1. SUFFICES ASSUME F # {} PROVE FALSE
    OBVIOUS
  <1>2. F \in SUBSET Nat
    OBVIOUS
  <1>3. \A k \in F : k \in 0..M /\ k \notin T
    OBVIOUS
  <1>4. \A k \in 0..M : k \notin F => k \in T
    OBVIOUS
  <1> HIDE DEF F
  <1>5. PICK x \in F : \A y \in F : x <= y
    BY <1>1, <1>2, LeastNumber
  <1>6. x \in 1..M
    BY <1>3
  <1>7. x - 1 \in 0 .. M - 1 /\ x - 1 \notin F
    BY <1>2, <1>5, <1>6
  <1>8. (x - 1) + 1 \in T
    BY <1>4, <1>7
  <1> QED
    BY <1>3, <1>6, <1>8

\* B defines a function on I, with values in D, by recursion: the value at i,
\* B[<<i, f>>], depends on those of f where the measure m, at most M, is less.
Descends(I, D, M, m, B) ==
    /\ M \in Nat /\ D # {}
    /\ m \in [I -> 0..M]
    /\ B \in [I \X [I -> D] -> D]
    /\ \A i \in I : \A f, g \in [I -> D] :
          (\A j \in I : m[j] < m[i] => f[j] = g[j]) =>
              B[<<i, f>>] = B[<<i, g>>]

\* A recursive definition is one of a function.
LEMMA RecursiveFunction ==
    ASSUME NEW I, NEW D, NEW M, NEW m, NEW B, Descends(I, D, M, m, B)
    PROVE  \E f \in [I -> D] : \A i \in I : f[i] = B[<<i, f>>]
  <1>0. SUFFICES ASSUME M \in Nat, D # {}, m \in [I -> 0..M],
                        B \in [I \X [I -> D] -> D],
                        \A i \in I : \A f, g \in [I -> D] :
                           (\A j \in I : m[j] < m[i] => f[j] = g[j]) =>
                               B[<<i, f>>] = B[<<i, g>>]
                 PROVE  \E f \in [I -> D] : \A i \in I : f[i] = B[<<i, f>>]
    BY DEF Descends
  <1> DEFINE Good(f, k) == \A i \in I : m[i] < k => f[i] = B[<<i, f>>]
             T == {k \in 0 .. M + 1 : \E f \in [I -> D] : Good(f, k)}
  <1>1. 0 \in T
    <2>1. PICK d : d \in D
      BY <1>0
    <2> DEFINE f == [i \in I |-> d]
    <2>2. f \in [I -> D]
      BY <2>1
    <2>3. Good(f, 0)
      BY <1>0
    <2>4. 0 \in 0 .. M + 1
      BY <1>0
    <2> HIDE DEF Good, f
    <2> QED
      BY <2>2, <2>3, <2>4
  <1>2. ASSUME NEW k \in 0..M, k \in T PROVE k + 1 \in T
    <2>1. PICK f \in [I -> D] : Good(f, k)
      BY <1>2
    <2> DEFINE g == [i \in I |-> IF m[i] = k THEN B[<<i, f>>] ELSE f[i]]
    <2>2. g \in [I -> D]
      BY <1>0
    <2>3. ASSUME NEW i \in I, m[i] <= k PROVE B[<<i, g>>] = B[<<i, f>>]
      <3>1. \A j \in I : m[j] < m[i] => g[j] = f[j]
        BY <1>0, <2>3
      <3> HIDE DEF g
      <3> QED
        BY <1>0, <2>2, <3>1
    <2>4. ASSUME NEW i \in I, m[i] < k + 1 PROVE g[i] = B[<<i, g>>]
      <3> DEFINE n == m[i]
      <3>1. n \in Nat /\ k \in Nat /\ n < k + 1
        BY <1>0, <2>4
      <3>2. n <= k /\ (n = k \/ n < k)
        BY <3>1
      <3>3. B[<<i, g>>] = B[<<i, f>>]
        BY <2>3, <3>2
      <3>4. CASE n = k
        BY <3>3, <3>4
      <3>5. CASE n < k
        <4>1. f[i] = B[<<i, f>>]
          BY <2>1, <3>5
        <4>2. g[i] = f[i]
          BY <3>5, <3>1
        <4> QED
          BY <3>3, <4>1, <4>2
      <3> QED
        BY <3>2, <3>4, <3>5
    <2> HIDE DEF g
    <2>5. Good(g, k + 1)
      BY <2>4
    <2> QED
      BY <1>0, <2>2, <2>5
  <1>3. M + 1 \in T
    <2> HIDE DEF T
    <2> QED
      BY <1>0, <1>1, <1>2, UpTo
  <1>4. PICK f \in [I -> D] : Good(f, M + 1)
    BY <1>3
  <1>5. \A i \in I : f[i] = B[<<i, f>>]
    BY <1>0, <1>4
  <1> QED
    BY <1>5

\* f goes from c on over 1..L, by G.
Goes(f, L, c, G) == f[0] = c /\ \A n \in 1..L : f[n] = G[<<f[n - 1], n>>]

\* A recursion that goes back one step, from a start c, stays in its type, and
\* has a value everywhere.
LEMMA LeftRecursion ==
    ASSUME NEW L \in Nat, NEW D, NEW c \in D, NEW G \in [D \X (1..L) -> D]
    PROVE  \E f \in [0..L -> D] : Goes(f, L, c, G)
  <1> DEFINE I == 0..L
             m == [n \in I |-> n]
             B == [a \in I \X [I -> D] |->
                      IF a[1] = 0 THEN c ELSE G[<<a[2][a[1] - 1], a[1]>>]]
  <1>1. ASSUME NEW n \in I, NEW f \in [I -> D]
        PROVE  /\ B[<<n, f>>] = IF n = 0 THEN c ELSE G[<<f[n - 1], n>>]
               /\ B[<<n, f>>] \in D
    <2>1. B[<<n, f>>] = IF n = 0 THEN c ELSE G[<<f[n - 1], n>>]
      OBVIOUS
    <2>2. CASE n # 0
      <3>1. n - 1 \in I /\ n \in 1..L
        BY <2>2
      <3>2. f[n - 1] \in D
        BY <3>1
      <3> QED
        BY <2>1, <2>2, <3>1, <3>2
    <2> QED
      BY <2>1, <2>2
  <1>2. B \in [I \X [I -> D] -> D]
    <2>1. \A a \in I \X [I -> D] :
             a[1] \in I /\ a[2] \in [I -> D] /\ a = <<a[1], a[2]>>
      OBVIOUS
    <2> QED
      BY <1>1, <2>1
  <1>3. m \in [I -> 0..L] /\ \A n \in I : m[n] = n
    OBVIOUS
  <1>4. ASSUME NEW n \in I, NEW f \in [I -> D], NEW g \in [I -> D],
               \A j \in I : m[j] < m[n] => f[j] = g[j]
        PROVE  B[<<n, f>>] = B[<<n, g>>]
    <2>1. CASE n # 0
      <3>1. n - 1 \in I /\ n - 1 < n
        BY <2>1
      <3> QED
        BY <1>1, <1>3, <1>4, <3>1
    <2> QED
      BY <1>1, <2>1
  <1> HIDE DEF m
  <1>5. PICK f \in [I -> D] : \A n \in I : f[n] = B[<<n, f>>]
    <2>1. \A n \in I : \A f, g \in [I -> D] :
             (\A j \in I : m[j] < m[n] => f[j] = g[j]) =>
                 B[<<n, f>>] = B[<<n, g>>]
      BY <1>4
    <2>2. L \in Nat /\ D # {} /\ m \in [I -> 0..L]
      BY <1>3
    <2>3. Descends(I, D, L, m, B)
      BY <1>2, <2>1, <2>2 DEF Descends
    <2> HIDE DEF B, I
    <2> QED
      BY <2>3, RecursiveFunction
  <1>6. \A n \in I : f[n] = IF n = 0 THEN c ELSE G[<<f[n - 1], n>>]
    BY <1>1, <1>5
  <1>7. 0 \in I /\ \A n \in 1..L : n \in I /\ n # 0
    OBVIOUS
  <1> HIDE DEF B, I
  <1>8. Goes(f, L, c, G)
    BY <1>6, <1>7 DEF Goes
  <1> QED
    BY <1>5, <1>8 DEF I
=============================================================================

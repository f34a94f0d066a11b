--------------------------- MODULE RecursionProofs --------------------------
(***************************************************************************)
(* Induction and recursion over the natural numbers, for sets and functions *)
(* in place of the operators that the library's theorems take: a set that   *)
(* has 0 and every successor has everything, and a function can be iterated *)
(* any number of times.  Then what follows for Doubled.                     *)
(***************************************************************************)
EXTENDS Doubling, WellFoundedInduction, TLAPS

\* A set of natural numbers that is not empty has a least element.
LEMMA LeastElement ==
  ASSUME NEW T, T \subseteq Nat, T # {}
  PROVE  \E x \in T : \A y \in T : x <= y
<1> DEFINE Less == OpToRel(<, Nat)
<1>1. IsWellFoundedOn(Less, Nat)
  BY NatLessThanWellFounded
<1>2. \A x, y \in Nat : <<y, x>> \notin Less => x <= y
  BY DEF OpToRel
<1> HIDE DEF Less
<1>3. PICK x \in T : \A y \in T : <<y, x>> \notin Less
  BY <1>1, WFMin
<1> QED
  BY <1>2, <1>3

\* Induction: what holds of 0 and passes on to successors holds of every number.
LEMMA Induction ==
  ASSUME NEW P, 0 \in P, \A n \in Nat : n \in P => n + 1 \in P
  PROVE  \A n \in Nat : n \in P
<1> SUFFICES ASSUME NEW m \in Nat, m \notin P PROVE FALSE
  OBVIOUS
<1> DEFINE T == {n \in Nat : n \notin P}
<1>1. PICK x \in T : \A y \in T : x <= y
  <2>1. m \in T /\ T \subseteq Nat
    OBVIOUS
  <2> HIDE DEF T
  <2> QED
    BY <2>1, LeastElement
<1>2. x # 0 /\ x \in Nat
  OBVIOUS
<1>3. x - 1 \in Nat /\ x - 1 \notin T
  BY <1>1, <1>2
<1>4. (x - 1) + 1 \in P
  BY <1>3
<1> QED
  BY <1>2, <1>4

\* One more application of G to the end of a row of them.
LEMMA IterateFurther ==
  ASSUME NEW S, NEW a \in S, NEW G \in [S -> S], NEW n \in Nat, NEW h \in [0..n -> S],
         h[0] = a, \A i \in 0..n : i < n => h[i + 1] = G[h[i]]
  PROVE  \E k \in [0..(n + 1) -> S] :
             k[0] = a /\ \A i \in 0..(n + 1) : i < n + 1 => k[i + 1] = G[k[i]]
<1> DEFINE k == [i \in 0..(n + 1) |-> IF i <= n THEN h[i] ELSE G[h[n]]]
<1>1. k \in [0..(n + 1) -> S]
  <2> SUFFICES ASSUME NEW i \in 0..(n + 1) PROVE (IF i <= n THEN h[i] ELSE G[h[n]]) \in S
    OBVIOUS
  <2>1. i <= n => i \in 0..n
    OBVIOUS
  <2>2. n \in 0..n
    OBVIOUS
  <2> QED
    BY <2>1, <2>2
<1>2. k[0] = a
  OBVIOUS
<1>3. ASSUME NEW i \in 0..(n + 1), i < n + 1 PROVE k[i + 1] = G[k[i]]
  <2>1. k[i] = h[i] /\ i \in 0..n
    BY <1>3
  <2>2. CASE i < n
    <3>1. i + 1 \in 0..(n + 1) /\ i + 1 <= n
      BY <2>1, <2>2
    <3>2. k[i + 1] = h[i + 1]
      BY <3>1
    <3> QED
      BY <2>1, <2>2, <3>2
  <2>3. CASE i = n
    <3>1. i + 1 \in 0..(n + 1) /\ ~(i + 1 <= n)
      BY <2>1, <2>3
    <3>2. k[i + 1] = G[h[n]]
      BY <3>1
    <3> QED
      BY <2>1, <2>3, <3>2
  <2> QED
    BY <2>1, <2>2, <2>3
<1> HIDE DEF k
<1> QED
  BY <1>1, <1>2, <1>3

\* f[n] is G applied n times to a.
Iterates(f, S, G, a) ==
    f \in [Nat -> S] /\ f[0] = a /\ \A n \in Nat : f[n + 1] = G[f[n]]

\* Recursion: a function can be iterated any number of times from a start.
LEMMA Iteration ==
  ASSUME NEW S, NEW a \in S, NEW G \in [S -> S]
  PROVE  \E f : Iterates(f, S, G, a)
<1> DEFINE Row(n, h) == /\ h \in [0..n -> S] /\ h[0] = a
                        /\ \A i \in 0..n : i < n => h[i + 1] = G[h[i]]
           P == {n \in Nat : \E h : Row(n, h)}
<1>1. \A n \in Nat : \E h : Row(n, h)
  <2>1. 0 \in P
    <3>1. Row(0, [i \in 0..0 |-> a])
      OBVIOUS
    <3> QED
      BY <3>1
  <2>2. ASSUME NEW n \in Nat, n \in P PROVE n + 1 \in P
    <3>1. PICK h : Row(n, h)
      BY <2>2
    <3>2. \E k : Row(n + 1, k)
      BY <3>1, IterateFurther
    <3> HIDE DEF Row
    <3> QED
      BY <3>2
  <2>3. \A n \in Nat : n \in P
    <3> HIDE DEF P
    <3> QED
      BY <2>1, <2>2, Induction
  <2> QED
    BY <2>3
\* Two rows agree as far as both go.
<1>2. ASSUME NEW m \in Nat, NEW n \in Nat, NEW h, NEW k, Row(m, h), Row(n, k)
      PROVE  \A i \in Nat : i <= m /\ i <= n => h[i] = k[i]
  <2> DEFINE Q == {i \in Nat : i <= m /\ i <= n => h[i] = k[i]}
  <2>1. 0 \in Q
    BY <1>2
  <2>2. ASSUME NEW i \in Nat, i \in Q PROVE i + 1 \in Q
    <3> SUFFICES ASSUME i + 1 <= m, i + 1 <= n PROVE h[i + 1] = k[i + 1]
      OBVIOUS
    <3>1. i \in 0..m /\ i \in 0..n /\ i < m /\ i < n
      OBVIOUS
    <3>2. h[i] = k[i]
      BY <2>2, <3>1
    <3>3. h[i + 1] = G[h[i]] /\ k[i + 1] = G[k[i]]
      BY <1>2, <3>1
    <3> QED
      BY <3>2, <3>3
  <2>3. \A i \in Nat : i \in Q
    <3> HIDE DEF Q
    <3> QED
      BY <2>1, <2>2, Induction
  <2> QED
    BY <2>3
<1> DEFINE row(n) == CHOOSE h : Row(n, h)
           f == [n \in Nat |-> row(n)[n]]
<1>3. \A n \in Nat : Row(n, row(n))
  <2> HIDE DEF Row
  <2> QED
    BY <1>1
<1> HIDE DEF row
<1>4. f \in [Nat -> S]
  <2> SUFFICES ASSUME NEW n \in Nat PROVE row(n)[n] \in S
    OBVIOUS
  <2>1. n \in 0..n
    OBVIOUS
  <2> QED
    BY <1>3, <2>1
<1>5. f[0] = a
  <2>1. Row(0, row(0))
    BY <1>3
  <2> QED
    BY <2>1
<1>6. ASSUME NEW n \in Nat PROVE f[n + 1] = G[f[n]]
  <2>1. Row(n, row(n)) /\ Row(n + 1, row(n + 1)) /\ n + 1 \in Nat
    BY <1>3
  <2>2. n <= n + 1 /\ n <= n
    OBVIOUS
  <2>3. row(n + 1)[n] = row(n)[n]
    <3> HIDE DEF Row
    <3> QED
      BY <1>2, <2>1, <2>2
  <2>4. n \in 0..(n + 1) /\ n < n + 1
    OBVIOUS
  <2>5. row(n + 1)[n + 1] = G[row(n + 1)[n]]
    BY <2>1, <2>4
  <2> QED
    BY <2>1, <2>3, <2>5
<1> HIDE DEF f
<1>7. Iterates(f, S, G, a)
  BY <1>4, <1>5, <1>6 DEF Iterates
<1> QED
  BY <1>7

\* Doubling once more is doubling what there is.
LEMMA DoubledFacts ==
  ASSUME NEW first \in Int
  PROVE  /\ Doubled(first, 0) = first
         /\ \A n \in Nat : Doubled(first, n) \in Int /\ Doubled(first, n + 1) = 2 * Doubled(first, n)
<1> DEFINE Is(d) == d = [n \in Nat |-> IF n = 0 THEN first ELSE 2 * d[n - 1]]
           doubled == CHOOSE d : Is(d)
<1>1. PICK G : G = [x \in Int |-> 2 * x]
  OBVIOUS
<1>2. PICK f : Iterates(f, Int, G, first)
  BY <1>1, Iteration
<1>3. Is(f)
  <2> SUFFICES ASSUME NEW n \in Nat PROVE f[n] = IF n = 0 THEN first ELSE 2 * f[n - 1]
    BY <1>2 DEF Iterates
  <2>1. CASE n = 0
    BY <1>2, <2>1 DEF Iterates
  <2>2. CASE n # 0
    <3>1. n - 1 \in Nat /\ (n - 1) + 1 = n
      BY <2>2
    <3>2. f[(n - 1) + 1] = G[f[n - 1]] /\ f[n - 1] \in Int
      BY <1>2, <3>1 DEF Iterates
    <3> QED
      BY <1>1, <2>2, <3>1, <3>2
  <2> QED
    BY <2>1, <2>2
<1> HIDE DEF Is
<1>4. Is(doubled)
  BY <1>3
<1>5. \A n : Doubled(first, n) = doubled[n]
  BY DEF Doubled, Is
<1> HIDE DEF doubled
<1> USE DEF Is
<1>6. doubled[0] = first
  BY <1>4
<1>7. \A n \in Nat : doubled[n + 1] = 2 * doubled[n]
  <2> SUFFICES ASSUME NEW n \in Nat PROVE doubled[n + 1] = 2 * doubled[n]
    OBVIOUS
  <2>1. n + 1 \in Nat /\ n + 1 # 0 /\ (n + 1) - 1 = n
    OBVIOUS
  <2> QED
    BY <1>4, <2>1
<1>8. \A n \in Nat : doubled[n] \in Int
  <2> DEFINE P == {n \in Nat : doubled[n] \in Int}
  <2>1. 0 \in P
    BY <1>6
  <2>2. \A n \in Nat : n \in P => n + 1 \in P
    BY <1>7
  <2> HIDE DEF P
  <2>3. \A n \in Nat : n \in P
    BY <2>1, <2>2, Induction
  <2> QED
    BY <2>3 DEF P
<1> QED
  BY <1>5, <1>6, <1>7, <1>8

\* A positive delay stays one.
LEMMA DoubledIsPositive ==
  ASSUME NEW first \in Nat \ {0}
  PROVE  \A n \in Nat : Doubled(first, n) \in Nat \ {0}
<1> DEFINE P == {n \in Nat : Doubled(first, n) \in Nat \ {0}}
<1>1. 0 \in P
  BY DoubledFacts
<1>2. ASSUME NEW n \in Nat, n \in P PROVE n + 1 \in P
  <2>1. Doubled(first, n) \in Nat \ {0} /\ Doubled(first, n + 1) = 2 * Doubled(first, n)
    BY <1>2, DoubledFacts
  <2> QED
    BY <2>1
<1> HIDE DEF P
<1>3. \A n \in Nat : n \in P
  BY <1>1, <1>2, Induction
<1> QED
  BY <1>3 DEF P
=============================================================================

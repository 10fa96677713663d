---------------------------- MODULE NumberFacts ----------------------------
(***************************************************************************)
(* What the proofs about loops and tables need of the natural numbers.     *)
(* Induction is stated with a set instead of a predicate: the set of the   *)
(* numbers for which a fact holds.                                         *)
(***************************************************************************)
EXTENDS Integers, FiniteSets, FiniteSetsExt,
        WellFoundedInduction, FiniteSetTheorems, FunctionTheorems, TLAPS

LEMMA LessIsWellFoundedOnNat == IsWellFoundedOn({ss \in Nat \X Nat : ss[1] < ss[2]}, Nat)
BY NatLessThanWellFounded, Zenon DEF OpToRel

\* A set of numbers that is not empty has a least element ...
LEMMA LeastNumber ==
  ASSUME NEW I, I \subseteq Nat, I # {} PROVE \E i \in I : \A j \in I : i <= j
<1> DEFINE Less == {ss \in Nat \X Nat : ss[1] < ss[2]}
<1>1. PICK i \in I : \A j \in I : ~(<<j, i>> \in Less)
  BY LessIsWellFoundedOnNat, WFMin, Zenon
<1>2. ASSUME NEW j \in I PROVE i <= j
  <2>1. i \in Nat /\ j \in Nat /\ <<j, i>> \in Nat \X Nat
    OBVIOUS
  <2>2. ~(j < i)
    BY <1>1, <2>1
  <2> QED BY <2>1, <2>2
<1> QED BY <1>2

\* ... which is Min of it.
LEMMA MinFacts ==
  ASSUME NEW I, I \subseteq Nat, I # {} PROVE Min(I) \in I /\ \A j \in I : Min(I) <= j
<1>1. \E i \in I : \A j \in I : i <= j
  BY LeastNumber
<1> QED BY <1>1, Zenon DEF Min

\* Induction: a set with 0 that has the successors of its elements has all.
LEMMA Induction ==
  ASSUME NEW S, 0 \in S, \A n \in Nat : n \in S => n + 1 \in S
  PROVE  \A n \in Nat : n \in S
<1> SUFFICES ASSUME Nat \ S # {} PROVE FALSE
  OBVIOUS
<1>1. PICK i \in Nat \ S : \A j \in Nat \ S : i <= j
  BY LeastNumber
<1>2. i # 0 /\ i - 1 \in Nat
  OBVIOUS
<1>3. i - 1 \in S
  BY <1>1, <1>2
<1> QED BY <1>2, <1>3

\* n + 1 numbers do not fit into n places.
LEMMA PigeonHole ==
  ASSUME NEW n \in Nat, NEW f \in [0 .. n -> 0 .. n - 1]
  PROVE  \E i, j \in 0 .. n : i # j /\ f[i] = f[j]
<1>1. IsFiniteSet(0 .. n) /\ Cardinality(0 .. n) = n + 1
  BY FS_Interval
<1>2. IsFiniteSet(0 .. n - 1) /\ Cardinality(0 .. n - 1) = n
  BY FS_Interval
<1>3. Cardinality(0 .. n - 1) < Cardinality(0 .. n)
  BY <1>1, <1>2
<1> QED BY <1>1, <1>2, <1>3, FS_PigeonHole
\* Division with a rest, ...
LEMMA Division ==
  ASSUME NEW n \in Nat \ {0}, NEW x \in Nat
  PROVE  x % n \in 0 .. n - 1 /\ x \div n \in Nat /\ x = n * (x \div n) + (x % n)
<1>1. x % n \in 0 .. n - 1
  OBVIOUS
<1>2. x \div n \in Nat
  OBVIOUS
<1>3. x = n * (x \div n) + (x % n)
  OBVIOUS
<1> QED BY <1>1, <1>2, <1>3

\* ... which is unique, ...
LEMMA OneRest ==
  ASSUME NEW n \in Nat \ {0}, NEW q \in Int, NEW p \in Int,
         NEW l \in 0 .. n - 1, NEW m \in 0 .. n - 1, n * q + l = n * p + m
  PROVE  l = m
<1>1. CASE q = p
  BY <1>1
<1>2. CASE q > p
  <2>1. n * (q - p) >= n
    BY <1>2
  <2>2. n * (q - p) = n * q - n * p
    OBVIOUS
  <2> QED BY <2>1, <2>2
<1>3. CASE q < p
  <2>1. n * (p - q) >= n
    BY <1>3
  <2>2. n * (p - q) = n * p - n * q
    OBVIOUS
  <2> QED BY <2>1, <2>2
<1> QED BY <1>1, <1>2, <1>3

\* ... so that less than n steps from x wrap around once at most.
LEMMA WrapAround ==
  ASSUME NEW n \in Nat \ {0}, NEW x \in Nat, NEW k \in 0 .. n - 1
  PROVE  /\ (x + k) % n \in 0 .. n - 1
         /\ (x % n) + k < n => (x + k) % n = (x % n) + k
         /\ (x % n) + k >= n => (x + k) % n = (x % n) + k - n
<1> DEFINE r == x % n
           q == x \div n
           p == (x + k) \div n
           m == (x + k) % n
<1>1. r \in 0 .. n - 1 /\ q \in Nat /\ x = n * q + r
  BY Division
<1>2. m \in 0 .. n - 1 /\ p \in Nat /\ x + k = n * p + m
  <2>1. x + k \in Nat
    OBVIOUS
  <2> QED BY <2>1, Division
<1> HIDE DEF r, q, p, m
<1>3. CASE r + k < n
  <2>1. r + k \in 0 .. n - 1 /\ n * q + (r + k) = n * p + m
    BY <1>1, <1>2, <1>3
  <2>2. r + k = m
    BY <1>1, <1>2, <2>1, OneRest
  <2> QED BY <1>2, <1>3, <2>2 DEF r, m
<1>4. CASE r + k >= n
  <2>1. r + k - n \in 0 .. n - 1
    BY <1>1, <1>4
  <2>2. n * (q + 1) = n * q + n
    BY <1>1
  <2>3. n * (q + 1) + (r + k - n) = n * p + m
    BY <1>1, <1>2, <2>1, <2>2
  <2>4. r + k - n = m
    <3>1. q + 1 \in Int /\ p \in Int
      BY <1>1, <1>2
    <3> QED BY <1>2, <2>1, <2>3, <3>1, OneRest
  <2> QED BY <1>2, <1>4, <2>4 DEF r, m
<1> QED
  <2>1. r + k \in Int
    BY <1>1
  <2> QED BY <1>1, <1>3, <1>4, <2>1 DEF r, m

\* A bounded set of numbers has a greatest element.
LEMMA GreatestNumber ==
  ASSUME NEW I, I \subseteq Nat, I # {}, NEW m \in Nat, \A i \in I : i <= m
  PROVE  \E i \in I : \A j \in I : j <= i
<1> DEFINE J == {m - i : i \in I}
<1>1. J \subseteq Nat /\ J # {}
  <2>1. \A i \in I : m - i \in Nat
    OBVIOUS
  <2>2. PICK i \in I : TRUE
    OBVIOUS
  <2>3. m - i \in J
    BY <2>2
  <2> QED BY <2>1, <2>3
<1>2. PICK k \in J : \A j \in J : k <= j
  <2> HIDE DEF J
  <2> QED BY <1>1, LeastNumber
<1>3. PICK i \in I : k = m - i
  BY <1>2
<1>4. ASSUME NEW j \in I PROVE j <= i
  <2>1. m - i <= m - j
    BY <1>2, <1>3
  <2>2. i \in Int /\ j \in Int
    OBVIOUS
  <2> QED BY <2>1, <2>2
<1> QED BY <1>3, <1>4

\* Min and Max are the elements that nothing in the set is below and above.
LEMMA MinIs == ASSUME NEW S, S \subseteq Int, NEW x \in S, \A y \in S : x <= y PROVE Min(S) = x
<1>1. Min(S) \in S /\ \A y \in S : Min(S) <= y
  <2>1. \E z \in S : \A y \in S : z <= y
    OBVIOUS
  <2> QED BY <2>1, Zenon DEF Min
<1>2. Min(S) \in Int /\ x \in Int /\ x <= Min(S) /\ Min(S) <= x
  BY <1>1
<1> QED BY <1>2

LEMMA MaxIs == ASSUME NEW S, S \subseteq Int, NEW x \in S, \A y \in S : y <= x PROVE Max(S) = x
<1>1. Max(S) \in S /\ \A y \in S : Max(S) >= y
  <2>1. \E z \in S : \A y \in S : z >= y
    <3>1. \A y \in S : x >= y
      OBVIOUS
    <3> QED BY <3>1
  <2> QED BY <2>1, Zenon DEF Max
<1>2. Max(S) \in Int /\ x \in Int /\ Max(S) <= x /\ x <= Max(S)
  BY <1>1
<1> QED BY <1>2

-----------------------------------------------------------------------------
(* Increasing functions. *)

Increasing(X, M) == {f \in [X -> M] : \A i, j \in X : i < j => f[i] < f[j]}

LEMMA LeastFirst ==
  ASSUME NEW X \in SUBSET Nat, NEW M \in SUBSET Nat, IsFiniteSet(X), IsFiniteSet(M),
         Cardinality(X) = Cardinality(M), NEW f \in Increasing(X, M),
         NEW x \in X, \A i \in X : x <= i, NEW y \in M, \A j \in M : y <= j
  PROVE  f[x] = y
<1>1. f \in [X -> M] /\ \A i, j \in X : i < j => f[i] < f[j]
  BY DEF Increasing
<1>2. ASSUME NEW i \in X, NEW j \in X, f[i] = f[j] PROVE i = j
  <2>1. i \in Nat /\ j \in Nat /\ f[i] \in Nat
    BY <1>1
  <2>2. ~(i < j) /\ ~(j < i)
    BY <1>1, <1>2, <2>1
  <2> QED BY <2>1, <2>2
<1>3. f \in Injection(X, M)
  BY <1>1, <1>2 DEF Injection, IsInjective
<1>4. f \in Surjection(X, M)
  BY <1>3, FS_Injection
<1>5. PICK i \in X : f[i] = y
  BY <1>4 DEF Surjection
<1>6. x < i => f[x] < y /\ f[x] \in M
  BY <1>1, <1>5
<1>7. x <= i /\ x \in Nat /\ i \in Nat /\ y \in Nat
  OBVIOUS
<1>8. f[x] \in M => y <= f[x] /\ f[x] \in Nat
  OBVIOUS
<1>9. ~(x < i)
  BY <1>6, <1>7, <1>8
<1> QED BY <1>5, <1>7, <1>9

\* Between two sets of equally many numbers there is one of them.
LEMMA OneIncreasing ==
  ASSUME NEW X \in SUBSET Nat, NEW M \in SUBSET Nat, IsFiniteSet(X), IsFiniteSet(M),
         Cardinality(X) = Cardinality(M)
  PROVE  \E f \in Increasing(X, M) : Increasing(X, M) = {f}
<1> DEFINE One(k) == \A Y, L \in SUBSET Nat :
             IsFiniteSet(Y) /\ IsFiniteSet(L) /\ Cardinality(Y) = k /\ Cardinality(L) = k
             => \E f \in Increasing(Y, L) : Increasing(Y, L) = {f}
           S == {k \in Nat : One(k)}
<1>1. One(0)
  <2> SUFFICES ASSUME NEW Y \in SUBSET Nat, NEW L \in SUBSET Nat, IsFiniteSet(Y), IsFiniteSet(L),
                      Cardinality(Y) = 0, Cardinality(L) = 0
               PROVE  \E f \in Increasing(Y, L) : Increasing(Y, L) = {f}
    OBVIOUS
  <2>1. Y = {} /\ L = {}
    BY FS_EmptySet
  <2> DEFINE e == [i \in {} |-> 0]
  <2>2. e \in Increasing(Y, L)
    BY <2>1 DEF Increasing
  <2>3. ASSUME NEW f \in Increasing(Y, L) PROVE f = e
    BY <2>1 DEF Increasing
  <2> HIDE DEF e
  <2> QED BY <2>2, <2>3
<1>2. ASSUME NEW k \in Nat, One(k) PROVE One(k + 1)
  <2> SUFFICES ASSUME NEW Y \in SUBSET Nat, NEW L \in SUBSET Nat, IsFiniteSet(Y), IsFiniteSet(L),
                      Cardinality(Y) = k + 1, Cardinality(L) = k + 1
               PROVE  \E f \in Increasing(Y, L) : Increasing(Y, L) = {f}
    OBVIOUS
  <2>1. Y # {} /\ L # {}
    BY FS_EmptySet
  <2>2. PICK x \in Y : \A i \in Y : x <= i
    BY <2>1, LeastNumber
  <2>3. PICK y \in L : \A j \in L : y <= j
    BY <2>1, LeastNumber
  <2> DEFINE Z == Y \ {x}
             N == L \ {y}
  <2>4. /\ Z \in SUBSET Nat /\ IsFiniteSet(Z) /\ Cardinality(Z) = k
        /\ N \in SUBSET Nat /\ IsFiniteSet(N) /\ Cardinality(N) = k
    <3>1. IsFiniteSet(Z) /\ Cardinality(Z) = (k + 1) - 1
      BY FS_RemoveElement
    <3>2. IsFiniteSet(N) /\ Cardinality(N) = (k + 1) - 1
      BY FS_RemoveElement
    <3>3. Z \in SUBSET Nat /\ N \in SUBSET Nat
      OBVIOUS
    <3> HIDE DEF Z, N
    <3> QED BY <3>1, <3>2, <3>3
  <2>5. \A i \in Y : i \in Z \/ i = x
    OBVIOUS
  <2>6. \A i \in Z : i \in Y /\ x < i
    BY <2>2
  <2>7. \A j \in N : j \in L /\ y < j
    BY <2>3
  <2>8. \A j \in L : j # y => j \in N
    OBVIOUS
  <2> HIDE DEF Z, N
  <2>9. PICK g \in Increasing(Z, N) : Increasing(Z, N) = {g}
    BY <1>2, <2>4
  <2>10. g \in [Z -> N] /\ \A i, j \in Z : i < j => g[i] < g[j]
    BY <2>9 DEF Increasing
  <2> DEFINE f == [i \in Y |-> IF i = x THEN y ELSE g[i]]
  <2>11. f[x] = y /\ \A i \in Z : f[i] = g[i] /\ g[i] \in N
    BY <2>6, <2>10
  <2>12. f \in [Y -> L]
    BY <2>5, <2>7, <2>10
  <2>13. DOMAIN f = Y
    OBVIOUS
  <2> HIDE DEF f
  <2>14. ASSUME NEW i \in Y, NEW j \in Y, i < j PROVE f[i] < f[j]
    <3>1. j \in Z
      BY <2>2, <2>5, <2>14
    <3> QED BY <2>5, <2>7, <2>10, <2>11, <2>14, <3>1
  <2>15. f \in Increasing(Y, L)
    BY <2>12, <2>14 DEF Increasing
  <2>16. ASSUME NEW h \in Increasing(Y, L) PROVE h = f
    <3>1. h[x] = y
      <4>1. Cardinality(Y) = Cardinality(L)
        OBVIOUS
      <4> QED BY <2>2, <2>3, <4>1, LeastFirst
    <3>2. h \in [Y -> L] /\ \A i, j \in Y : i < j => h[i] < h[j]
      BY DEF Increasing
    <3> DEFINE r == [i \in Z |-> h[i]]
    <3>3. ASSUME NEW i \in Z PROVE h[i] \in N
      <4>1. i \in Y /\ h[i] \in L /\ y < h[i]
        BY <2>6, <3>1, <3>2
      <4>2. h[i] # y
        BY <4>1
      <4> QED BY <2>8, <4>1, <4>2
    <3>4. r \in Increasing(Z, N)
      BY <2>6, <3>2, <3>3 DEF Increasing
    <3>5. r = g
      BY <2>9, <3>4
    <3>6. \A i \in Z : h[i] = g[i]
      BY <3>5
    <3>7. \A i \in Y : h[i] = f[i]
      BY <2>5, <2>11, <3>1, <3>6
    <3>8. h = [i \in Y |-> h[i]] /\ f = [i \in Y |-> f[i]]
      BY <2>12, <3>2
    <3> QED BY <3>7, <3>8, Zenon
  <2> QED BY <2>15, <2>16
<1> HIDE DEF One
<1>3. 0 \in S /\ \A k \in Nat : k \in S => k + 1 \in S
  BY <1>1, <1>2
<1> HIDE DEF S
<1>4. \A k \in Nat : k \in S
  BY <1>3, Induction
<1>5. Cardinality(X) \in Nat
  BY FS_CardinalityType
<1> QED BY <1>4, <1>5 DEF S, One
=============================================================================

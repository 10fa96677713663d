---------------------------- MODULE ArenaProofs ----------------------------
(***************************************************************************)
(* Proofs about the first-fit allocator (ArenaAllocator), for every size   *)
(* callers ask for, every size of chunk and every level the generator may  *)
(* give a block.                                                           *)
(***************************************************************************)
EXTENDS ArenaAllocator, NumberFacts

-----------------------------------------------------------------------------
(* Levels: what a block of a size gets.                                    *)

\* log is the loop of IntLog2, for the sizes up to m.
Logs(log, m) == log = [i \in 0 .. m |-> IF i > MinSize THEN 1 + log[i \div 2] ELSE 0]

LEMMA LogsExist == \A m \in Nat : \E log : Logs(log, m)
<1> DEFINE S == {m \in Nat : \E log : Logs(log, m)}
<1>1. 0 \in S
  <2> DEFINE f == [i \in 0 .. 0 |-> 0]
  <2>1. \A i \in 0 .. 0 : ~(i > MinSize)
    BY DEF MinSize, Header
  <2>2. Logs(f, 0)
    BY <2>1 DEF Logs
  <2> QED BY <2>2
<1>2. ASSUME NEW m \in Nat, m \in S PROVE m + 1 \in S
  <2>1. PICK f : Logs(f, m)
    BY <1>2
  <2> DEFINE L(log, i) == IF i > MinSize THEN 1 + log[i \div 2] ELSE 0
             g == [i \in 0 .. m + 1 |-> IF i = m + 1 THEN L(f, m + 1) ELSE f[i]]
  <2>2. ASSUME NEW i \in 0 .. m + 1 PROVE g[i] = L(g, i)
    <3>1. i > MinSize => i \div 2 \in 0 .. m
      BY DEF MinSize, Header
    <3>2. L(g, i) = L(f, i)
      BY <3>1
    <3>3. i # m + 1 => f[i] = L(f, i)
      <4>1. f = [j \in 0 .. m |-> L(f, j)]
        BY <2>1 DEF Logs
      <4> HIDE DEF L
      <4> QED BY <4>1
    <3> HIDE DEF L
    <3> QED BY <3>2, <3>3
  <2>3. g = [i \in 0 .. m + 1 |-> L(g, i)]
    <3>1. g = [i \in 0 .. m + 1 |-> g[i]]
      OBVIOUS
    <3> HIDE DEF g, L
    <3> QED BY <2>2, <3>1
  <2>4. Logs(g, m + 1)
    <3> HIDE DEF g
    <3> QED BY <2>3 DEF Logs
  <2> QED BY <2>4
<1>3. \A m \in Nat : m \in S
  <2> HIDE DEF S
  <2> QED BY <1>1, <1>2, Induction
<1> QED BY <1>3

LEMMA LogsType == ASSUME NEW m \in Nat, NEW f, Logs(f, m) PROVE \A i \in 0 .. m : f[i] \in Nat
<1> DEFINE I == {i \in 0 .. m : f[i] \notin Nat}
<1> SUFFICES ASSUME I # {} PROVE FALSE
  OBVIOUS
<1>1. PICK i \in I : \A j \in I : i <= j
  <2>1. I \subseteq Nat
    OBVIOUS
  <2> HIDE DEF I
  <2> QED BY <2>1, LeastNumber
<1>2. f[i] = IF i > MinSize THEN 1 + f[i \div 2] ELSE 0
  BY DEF Logs
<1>3. i > MinSize /\ i \div 2 \in 0 .. m /\ i \div 2 < i
  BY <1>2 DEF MinSize, Header
<1>4. f[i \div 2] \in Nat
  BY <1>1, <1>3
<1> QED BY <1>2, <1>3, <1>4

\* A larger size has no smaller logarithm.
LEMMA LogsGrow ==
  ASSUME NEW m \in Nat, NEW n \in Nat, NEW f, NEW g, Logs(f, m), Logs(g, n)
  PROVE  \A i \in 0 .. m, j \in 0 .. n : i <= j => f[i] <= g[j]
<1> DEFINE I == {i \in 0 .. m : \E j \in 0 .. n : i <= j /\ ~(f[i] <= g[j])}
<1> SUFFICES ASSUME I # {} PROVE FALSE
  OBVIOUS
<1>1. PICK i \in I : \A j \in I : i <= j
  <2>1. I \subseteq Nat
    OBVIOUS
  <2> HIDE DEF I
  <2> QED BY <2>1, LeastNumber
<1>2. PICK j \in 0 .. n : i <= j /\ ~(f[i] <= g[j])
  OBVIOUS
<1>3. f[i] = (IF i > MinSize THEN 1 + f[i \div 2] ELSE 0) /\ g[j] = (IF j > MinSize THEN 1 + g[j \div 2] ELSE 0)
  BY DEF Logs
<1>4. i \in 0 .. m /\ f[i] \in Nat /\ g[j] \in Nat
  BY LogsType
<1>5. i > MinSize /\ j > MinSize
  BY <1>2, <1>3, <1>4 DEF MinSize, Header
<1>6. i \div 2 \in 0 .. m /\ i \div 2 < i /\ j \div 2 \in 0 .. n /\ i \div 2 <= j \div 2
  BY <1>2, <1>4, <1>5 DEF MinSize, Header
<1>7. i \div 2 \notin I
  BY <1>1, <1>4, <1>6
<1>8. f[i \div 2] <= g[j \div 2]
  BY <1>6, <1>7
<1>9. f[i \div 2] \in Nat /\ g[j \div 2] \in Nat
  BY <1>6, LogsType
<1> QED BY <1>2, <1>3, <1>5, <1>8, <1>9

LEMMA IntLog2Is ==
  ASSUME NEW n \in Nat PROVE \E f : Logs(f, n) /\ IntLog2(n, MinSize) = f[n]
<1> DEFINE g == CHOOSE f : Logs(f, n)
<1>1. Logs(g, n)
  BY LogsExist
<1>2. IntLog2(n, MinSize) = g[n]
  BY DEF IntLog2, Logs
<1> QED BY <1>1, <1>2

LEMMA IntLog2Facts ==
  /\ \A n \in Nat : IntLog2(n, MinSize) \in Nat
  /\ \A m, n \in Nat : m <= n => IntLog2(m, MinSize) <= IntLog2(n, MinSize)
<1>1. ASSUME NEW n \in Nat PROVE IntLog2(n, MinSize) \in Nat
  BY IntLog2Is, LogsType
<1>2. ASSUME NEW m \in Nat, NEW n \in Nat, m <= n PROVE IntLog2(m, MinSize) <= IntLog2(n, MinSize)
  <2>1. PICK f : Logs(f, m) /\ IntLog2(m, MinSize) = f[m]
    BY IntLog2Is
  <2>2. PICK g : Logs(g, n) /\ IntLog2(n, MinSize) = g[n]
    BY IntLog2Is
  <2>3. f[m] <= g[n]
    BY <1>2, <2>1, <2>2, LogsGrow
  <2> QED BY <2>1, <2>2, <2>3
<1> QED BY <1>1, <1>2

Level == 1 .. MaxLevel - 1
Fits(n) == n \in Nat /\ n >= MinSize

\* A block gets at least one level and no more than it has room for; a larger
\* block has all the levels that a search for less looks at.
LEMMA LevelFacts ==
  ASSUME NEW n, Fits(n), NEW r \in Nat \ {0}
  PROVE  /\ SkiplistLevels(n, r) \in Level /\ Links + 8 * SkiplistLevels(n, r) <= n
         /\ \A m : Fits(m) /\ m <= n => SkiplistLevels(m, 1) <= SkiplistLevels(n, r)
<1> DEFINE A(k, q) == IntLog2(k, MinSize) + q
           B(k) == (k - Links) \div 8
           Three(k, q) == {A(k, q), B(k), MaxLevel - 1}
           l(k, q) == SkiplistLevels(k, q)
<1>1. ASSUME NEW k, Fits(k), NEW q \in Nat \ {0}
      PROVE  /\ A(k, q) \in Nat \ {0} /\ B(k) \in Nat \ {0} /\ 8 * B(k) <= k - Links
             /\ l(k, q) \in Three(k, q)
             /\ l(k, q) <= A(k, q) /\ l(k, q) <= B(k) /\ l(k, q) <= MaxLevel - 1
  <2>1. A(k, q) \in Nat \ {0}
    BY <1>1, IntLog2Facts DEF Fits
  <2>2. B(k) \in Nat \ {0} /\ 8 * B(k) <= k - Links
    BY <1>1 DEF Fits, MinSize, Header, Links
  <2> DEFINE T == Three(k, q)
  <2>3. T \subseteq Nat /\ T # {}
    BY <2>1, <2>2 DEF MaxLevel
  <2>4. l(k, q) = Min(T)
    BY DEF SkiplistLevels
  <2>5. Min(T) \in T /\ \A j \in T : Min(T) <= j
    <3> HIDE DEF T
    <3> QED BY <2>3, MinFacts
  <2> QED BY <2>1, <2>2, <2>4, <2>5
<1>2. l(n, r) \in Level /\ Links + 8 * l(n, r) <= n
  <2>1. /\ A(n, r) \in Nat \ {0} /\ B(n) \in Nat \ {0} /\ 8 * B(n) <= n - Links
        /\ l(n, r) \in Three(n, r) /\ l(n, r) <= B(n) /\ l(n, r) <= MaxLevel - 1
    BY <1>1
  <2>2. l(n, r) \in Nat \ {0}
    BY <2>1 DEF MaxLevel
  <2> HIDE DEF A, B, l
  <2> QED BY <2>1, <2>2 DEF Level, MaxLevel, Links, Fits
<1>3. ASSUME NEW m, Fits(m), m <= n PROVE l(m, 1) <= l(n, r)
  <2>1. A(m, 1) <= A(n, r) /\ A(m, 1) \in Nat /\ A(n, r) \in Nat
    <3>1. IntLog2(m, MinSize) \in Nat /\ IntLog2(n, MinSize) \in Nat
          /\ IntLog2(m, MinSize) <= IntLog2(n, MinSize)
      BY <1>3, IntLog2Facts DEF Fits
    <3> QED BY <3>1
  <2>2. B(m) <= B(n) /\ B(m) \in Nat /\ B(n) \in Nat
    BY <1>3 DEF Fits, Links, MinSize, Header
  <2>3. l(m, 1) \in Nat /\ l(m, 1) <= A(m, 1) /\ l(m, 1) <= B(m) /\ l(m, 1) <= MaxLevel - 1
    <3>1. 1 \in Nat \ {0}
      OBVIOUS
    <3>2. /\ A(m, 1) \in Nat \ {0} /\ B(m) \in Nat \ {0} /\ l(m, 1) \in Three(m, 1)
          /\ l(m, 1) <= A(m, 1) /\ l(m, 1) <= B(m) /\ l(m, 1) <= MaxLevel - 1
      BY <1>1, <1>3, <3>1
    <3> QED BY <3>2 DEF MaxLevel
  <2>4. l(n, r) \in Three(n, r)
    BY <1>1
  <2> HIDE DEF A, B, l
  <2> QED BY <2>1, <2>2, <2>3, <2>4 DEF MaxLevel
<1> QED BY <1>2, <1>3

-----------------------------------------------------------------------------
(* The skiplist in order: every level links the blocks that have it. *)

Fr(a) == DOMAIN a.levels \ {Head}
Behind(a, p, i) == {b \in Fr(a) : b > p /\ a.levels[b] > i}
Ahead(a, e, i) == {b \in Fr(a) : b < e /\ a.levels[b] > i}
After(a, p, i) == IF Behind(a, p, i) = {} THEN None ELSE Min(Behind(a, p, i))
Before(a, e, i) == Max({Head} \cup Ahead(a, e, i))

Levelled(a) ==
  /\ Head \in DOMAIN a.levels /\ a.levels[Head] \in 0 .. MaxLevel - 1
  /\ Fr(a) \subseteq Nat \ {0} /\ \E m \in Nat : \A b \in Fr(a) : b <= m
  /\ \A b \in Fr(a) : a.levels[b] \in Level /\ a.levels[b] <= a.levels[Head]
  /\ a.levels[Head] # 0 => \E b \in Fr(a) : a.levels[b] = a.levels[Head]

Listed(a) ==
  /\ Levelled(a)
  /\ DOMAIN a.next = DOMAIN a.levels
  /\ \A p \in DOMAIN a.levels : a.next[p] = [i \in 0 .. a.levels[p] - 1 |-> After(a, p, i)]

LEMMA LevelledFacts ==
  ASSUME NEW a, Levelled(a)
  PROVE  /\ Head \in DOMAIN a.levels /\ a.levels[Head] \in Nat /\ a.levels[Head] <= MaxLevel - 1
         /\ \A b \in Fr(a) : /\ b \in Nat /\ b > 0 /\ b \in DOMAIN a.levels
                            /\ a.levels[b] \in Nat /\ a.levels[b] >= 1
                            /\ a.levels[b] <= MaxLevel - 1 /\ a.levels[b] <= a.levels[Head]
         /\ \A p \in DOMAIN a.levels : p \in Nat /\ a.levels[p] \in Nat /\ (p = Head \/ p \in Fr(a))
<1>1. Head \in DOMAIN a.levels /\ a.levels[Head] \in Nat /\ a.levels[Head] <= MaxLevel - 1
  BY DEF Levelled, MaxLevel
<1>2. ASSUME NEW b \in Fr(a)
      PROVE  /\ b \in Nat /\ b > 0 /\ b \in DOMAIN a.levels
             /\ a.levels[b] \in Nat /\ a.levels[b] >= 1
             /\ a.levels[b] <= MaxLevel - 1 /\ a.levels[b] <= a.levels[Head]
  <2>1. b \in Nat \ {0} /\ b \in DOMAIN a.levels
    BY DEF Levelled, Fr
  <2>2. a.levels[b] \in 1 .. MaxLevel - 1 /\ a.levels[b] <= a.levels[Head]
    BY DEF Levelled, Level
  <2> QED BY <2>1, <2>2 DEF MaxLevel
<1>3. \A p \in DOMAIN a.levels : p = Head \/ p \in Fr(a)
  BY DEF Fr
<1>4. Head \in Nat
  BY DEF Head
<1> QED BY <1>1, <1>2, <1>3, <1>4

LEMMA AfterFacts ==
  ASSUME NEW a, Levelled(a), NEW p, NEW i
  PROVE  \/ After(a, p, i) = None /\ Behind(a, p, i) = {}
         \/ After(a, p, i) \in Behind(a, p, i) /\ \A b \in Behind(a, p, i) : After(a, p, i) <= b
<1> DEFINE B == Behind(a, p, i)
<1>1. B \subseteq Nat
  BY DEF Behind, Levelled
<1>2. CASE B = {}
  BY <1>2 DEF After
<1>3. CASE B # {}
  <2>1. After(a, p, i) = Min(B)
    BY <1>3 DEF After
  <2>2. Min(B) \in B /\ \A b \in B : Min(B) <= b
    <3> HIDE DEF B
    <3> QED BY <1>1, <1>3, MinFacts
  <2> QED BY <2>1, <2>2
<1> QED BY <1>2, <1>3

\* What comes after p is known by these facts.
LEMMA AfterIs ==
  ASSUME NEW a, Levelled(a), NEW p, NEW i, NEW n,
         \/ n = None /\ Behind(a, p, i) = {}
         \/ n \in Behind(a, p, i) /\ \A b \in Behind(a, p, i) : n <= b
  PROVE  n = After(a, p, i)
<1>1. Behind(a, p, i) \subseteq Int
  BY DEF Behind, Levelled
<1>2. CASE n = None /\ Behind(a, p, i) = {}
  BY <1>2 DEF After
<1>3. CASE n \in Behind(a, p, i) /\ \A b \in Behind(a, p, i) : n <= b
  <2>1. Min(Behind(a, p, i)) = n
    BY <1>1, <1>3, MinIs
  <2> QED BY <1>3, <2>1 DEF After
<1> QED BY <1>2, <1>3

LEMMA BeforeFacts ==
  ASSUME NEW a, Levelled(a), NEW e \in Nat \ {0}, NEW i
  PROVE  /\ Before(a, e, i) \in {Head} \cup Ahead(a, e, i)
         /\ \A b \in {Head} \cup Ahead(a, e, i) : b <= Before(a, e, i)
         /\ Before(a, e, i) < e /\ Before(a, e, i) \in Nat /\ Before(a, e, i) \in DOMAIN a.levels
<1> DEFINE A == {Head} \cup Ahead(a, e, i)
<1>1. A \subseteq Nat /\ A # {} /\ A \subseteq DOMAIN a.levels /\ \A b \in A : b < e /\ b <= e
  BY DEF Ahead, Levelled, Fr, Head
<1>2. PICK x \in A : \A b \in A : b <= x
  <2> HIDE DEF A
  <2> QED BY <1>1, GreatestNumber
<1>3. Max(A) = x
  <2> HIDE DEF A
  <2>1. A \subseteq Int
    BY <1>1
  <2> QED BY <1>2, <2>1, MaxIs
<1> QED BY <1>1, <1>2, <1>3 DEF Before

LEMMA BeforeIs ==
  ASSUME NEW a, Levelled(a), NEW e, NEW i, NEW n \in {Head} \cup Ahead(a, e, i),
         \A b \in {Head} \cup Ahead(a, e, i) : b <= n
  PROVE  n = Before(a, e, i)
<1>1. {Head} \cup Ahead(a, e, i) \subseteq Int
  BY DEF Ahead, Levelled, Head
<1> QED BY <1>1, MaxIs DEF Before

\* The pointers of a list in order.
LEMMA NextIs ==
  ASSUME NEW a, Listed(a), NEW i \in Nat, NEW p \in OnLevel(a, i)
  PROVE  /\ a.next[p][i] = After(a, p, i) /\ p \in DOMAIN a.levels /\ p \in Nat
         /\ a.levels[p] \in Int /\ i < a.levels[p]
<1>1. p \in DOMAIN a.levels /\ i < a.levels[p] /\ a.next[p] = [j \in 0 .. a.levels[p] - 1 |-> After(a, p, j)]
  BY DEF OnLevel, Listed
<1>2. a.levels[p] \in Int /\ p \in Nat
  BY <1>1, LevelledFacts DEF Listed
<1> QED BY <1>1, <1>2

LEMMA LinkAtIs ==
  ASSUME NEW a, Listed(a), NEW i \in Nat, NEW p \in OnLevel(a, i) \cup {Head}
  PROVE  LinkAt(a, p, i) = After(a, p, i)
<1>1. CASE p \in OnLevel(a, i)
  BY <1>1, NextIs DEF LinkAt
<1>2. CASE p = Head /\ p \notin OnLevel(a, i)
  <2>1. Head \in DOMAIN a.next /\ ~(i < a.levels[Head]) /\ a.levels[Head] \in Int
    BY <1>2, LevelledFacts DEF OnLevel, Listed
  <2>2. Behind(a, p, i) = {}
    <3>1. \A b \in Fr(a) : a.levels[b] \in Int /\ a.levels[b] <= a.levels[Head]
      BY LevelledFacts DEF Listed
    <3> QED BY <2>1, <3>1 DEF Behind
  <2> QED BY <1>2, <2>1, <2>2 DEF LinkAt, After
<1> QED BY <1>1, <1>2

-----------------------------------------------------------------------------
(* The search. *)

Walks(w, a, i, e) ==
  w = [q \in OnLevel(a, i) |->
        IF a.next[q][i] # None /\ a.next[q][i] < e THEN w[a.next[q][i]] ELSE q]

\* On one level it goes on to the last block before e.
LEMMA WalkStep ==
  ASSUME NEW a, Listed(a), NEW e \in Nat \ {0}, NEW i \in Nat, NEW q \in OnLevel(a, i)
  PROVE  /\ a.next[q][i] # None /\ a.next[q][i] < e
              => a.next[q][i] \in OnLevel(a, i) /\ q < a.next[q][i] /\ q < e /\ a.next[q][i] \in Nat
         /\ ~(a.next[q][i] # None /\ a.next[q][i] < e) /\ q < e => q = Before(a, e, i)
<1> DEFINE n == After(a, q, i)
<1>0. Levelled(a) /\ DOMAIN a.next = DOMAIN a.levels
  BY DEF Listed
<1>1. /\ a.next[q][i] = n /\ q \in DOMAIN a.levels /\ q \in Nat /\ i < a.levels[q]
  BY NextIs
<1>2. \/ n = None /\ Behind(a, q, i) = {}
      \/ n \in Behind(a, q, i) /\ \A b \in Behind(a, q, i) : n <= b
  BY <1>0, AfterFacts
<1> HIDE DEF n
<1>3. ASSUME n # None, n < e PROVE n \in OnLevel(a, i) /\ q < n /\ q < e /\ n \in Nat
  <2>1. n \in Fr(a) /\ n > q /\ a.levels[n] > i
    BY <1>2, <1>3 DEF Behind
  <2>2. n \in Nat /\ a.levels[n] \in Int
    BY <1>0, <2>1 DEF Levelled, Level, MaxLevel
  <2>3. n \in OnLevel(a, i)
    BY <1>0, <2>1, <2>2 DEF OnLevel, Fr
  <2> QED BY <1>1, <1>3, <2>1, <2>2, <2>3
<1>4. ASSUME ~(n # None /\ n < e), q < e PROVE q = Before(a, e, i)
  <2>1. q \in {Head} \cup Ahead(a, e, i)
    <3>1. a.levels[q] \in Int
      BY NextIs
    <3> QED BY <1>1, <1>4, <3>1 DEF Ahead, Fr
  <2>2. ASSUME NEW b \in Ahead(a, e, i) PROVE b <= q
    <3>1. b \in Nat /\ b < e /\ (b > q => b \in Behind(a, q, i))
      BY <1>0 DEF Ahead, Behind, Levelled
    <3>2. ASSUME b > q PROVE FALSE
      <4>1. n \in Behind(a, q, i) /\ n <= b
        BY <1>2, <3>1, <3>2
      <4>2. n \in Nat
        BY <1>0, <4>1 DEF Behind, Levelled
      <4> QED BY <1>4, <3>1, <4>1, <4>2 DEF None
    <3> QED BY <1>1, <3>1, <3>2
  <2>3. Head <= q
    BY <1>1 DEF Head
  <2> QED BY <1>0, <2>1, <2>2, <2>3, BeforeIs
<1> QED BY <1>1, <1>3, <1>4

LEMMA WalkIs ==
  ASSUME NEW a, Listed(a), NEW e \in Nat \ {0}, NEW i \in Nat, NEW p \in OnLevel(a, i), p < e
  PROVE  Walk(a, i, e, p) = Before(a, e, i)
<1> DEFINE W(q) == IF q < e THEN Before(a, e, i) ELSE q
           w == [q \in OnLevel(a, i) |-> W(q)]
           g == CHOOSE f : Walks(f, a, i, e)
           Go(q) == a.next[q][i] # None /\ a.next[q][i] < e
<1>1. ASSUME NEW q \in OnLevel(a, i)
      PROVE  /\ Go(q) => a.next[q][i] \in OnLevel(a, i) /\ q < a.next[q][i] /\ q < e /\ a.next[q][i] \in Nat
             /\ ~Go(q) /\ q < e => q = Before(a, e, i)
  BY WalkStep
<1>2. Walks(w, a, i, e)
  <2>1. ASSUME NEW q \in OnLevel(a, i) PROVE w[q] = IF Go(q) THEN w[a.next[q][i]] ELSE q
    <3>1. CASE Go(q)
      BY <1>1, <3>1
    <3>2. CASE ~Go(q)
      <4> HIDE DEF Go
      <4> QED BY <1>1, <3>2
    <3> QED BY <3>1, <3>2
  <2>2. w = [q \in OnLevel(a, i) |-> w[q]]
    OBVIOUS
  <2> HIDE DEF w
  <2> QED BY <2>1, <2>2 DEF Walks
<1>3. Walks(g, a, i, e)
  <2> HIDE DEF w
  <2> QED BY <1>2
<1>4. Walk(a, i, e, p) = g[p]
  BY DEF Walk, Walks
<1> HIDE DEF g, w
<1>5. ASSUME NEW q \in OnLevel(a, i) PROVE g[q] = IF Go(q) THEN g[a.next[q][i]] ELSE q
  BY <1>3 DEF Walks
<1> DEFINE Bad == {q \in OnLevel(a, i) : q < e /\ g[q] # Before(a, e, i)}
<1>6. Bad = {}
  <2> SUFFICES ASSUME Bad # {} PROVE FALSE
    OBVIOUS
  <2>1. Bad \subseteq Nat /\ \A q \in Bad : q <= e
    <3>1. ASSUME NEW q \in Bad PROVE q \in Nat /\ q <= e
      <4>1. q \in Nat
        BY NextIs
      <4> QED BY <4>1
    <3> QED BY <3>1
  <2>2. PICK q \in Bad : \A r \in Bad : r <= q
    <3> HIDE DEF Bad
    <3> QED BY <2>1, GreatestNumber
  <2>3. q \in Nat
    BY <2>1
  <2>4. CASE Go(q)
    <3>1. /\ a.next[q][i] \in OnLevel(a, i) /\ q < a.next[q][i] /\ a.next[q][i] \in Nat
          /\ a.next[q][i] < e /\ g[q] = g[a.next[q][i]]
      BY <1>1, <1>5, <2>4
    <3>2. a.next[q][i] \notin Bad
      BY <2>2, <2>3, <3>1
    <3> QED BY <3>1, <3>2
  <2>5. CASE ~Go(q)
    <3> HIDE DEF Go
    <3>1. g[q] = q /\ q = Before(a, e, i)
      BY <1>1, <1>5, <2>5
    <3> QED BY <3>1
  <2> QED BY <2>4, <2>5
<1> QED BY <1>4, <1>6

\* The search finds the last block before e on every level.
LEMMA SearchIs ==
  ASSUME NEW a, Listed(a), NEW e \in Nat \ {0}
  PROVE  \A i \in 0 .. MaxLevel : Search(a, e)[i] = Before(a, e, i)
<1> DEFINE S(f, i) == IF i >= a.levels[Head] THEN Head ELSE Walk(a, i, e, f[i + 1])
           w == [i \in 0 .. MaxLevel |-> Before(a, e, i)]
           g == CHOOSE f : f = [i \in 0 .. MaxLevel |-> S(f, i)]
<1>0. /\ Levelled(a) /\ DOMAIN a.next = DOMAIN a.levels /\ Head \in DOMAIN a.levels
      /\ a.levels[Head] \in Nat /\ a.levels[Head] <= MaxLevel - 1 /\ MaxLevel \in Nat
  BY LevelledFacts DEF Listed, MaxLevel
<1>1. ASSUME NEW i \in Nat, i >= a.levels[Head] PROVE Head = Before(a, e, i)
  <2>1. Ahead(a, e, i) = {}
    <3>1. \A b \in Fr(a) : a.levels[b] \in Nat /\ a.levels[b] <= a.levels[Head]
      BY <1>0, LevelledFacts
    <3> QED BY <1>0, <1>1, <3>1 DEF Ahead
  <2>2. Before(a, e, i) \in {Head} \cup Ahead(a, e, i)
    BY <1>0, BeforeFacts
  <2> QED BY <2>1, <2>2
<1>2. ASSUME NEW i \in Nat, i < a.levels[Head] PROVE Walk(a, i, e, Before(a, e, i + 1)) = Before(a, e, i)
  <2> DEFINE p == Before(a, e, i + 1)
  <2>1. p \in {Head} \cup Ahead(a, e, i + 1) /\ p < e /\ p \in DOMAIN a.levels
    BY <1>0, BeforeFacts
  <2>2. i < a.levels[p]
    <3>1. CASE p = Head
      BY <1>2, <3>1
    <3>2. CASE p \in Ahead(a, e, i + 1)
      <4>1. a.levels[p] > i + 1 /\ a.levels[p] \in Nat
        BY <1>0, <2>1, <3>2, LevelledFacts DEF Ahead
      <4> QED BY <4>1
    <3> QED BY <2>1, <3>1, <3>2
  <2>3. p \in OnLevel(a, i)
    BY <1>0, <2>1, <2>2 DEF OnLevel
  <2> HIDE DEF p
  <2> QED BY <2>1, <2>3, WalkIs DEF p
<1>3. w = [i \in 0 .. MaxLevel |-> S(w, i)]
  <2>1. ASSUME NEW i \in 0 .. MaxLevel PROVE w[i] = S(w, i)
    <3>1. CASE i >= a.levels[Head]
      BY <1>1, <3>1
    <3>2. CASE i < a.levels[Head]
      <4>1. i + 1 \in 0 .. MaxLevel /\ i \in Nat
        BY <1>0, <3>2
      <4>2. w[i + 1] = Before(a, e, i + 1) /\ w[i] = Before(a, e, i)
        BY <4>1
      <4> HIDE DEF w
      <4> QED BY <1>0, <1>2, <3>2, <4>1, <4>2
    <3> QED BY <1>0, <3>1, <3>2
  <2>2. w = [i \in 0 .. MaxLevel |-> w[i]]
    OBVIOUS
  <2> HIDE DEF w, S
  <2> QED BY <2>1, <2>2
<1>4. Search(a, e) = g
  BY DEF Search
<1>5. g = [i \in 0 .. MaxLevel |-> S(g, i)]
  <2> HIDE DEF w, S
  <2> QED BY <1>3
<1> HIDE DEF g, w
<1>6. ASSUME NEW i \in 0 .. MaxLevel PROVE g[i] = S(g, i)
  <2> HIDE DEF S
  <2> QED BY <1>5
<1> DEFINE Bad == {i \in 0 .. MaxLevel : g[i] # Before(a, e, i)}
<1>7. Bad = {}
  <2> SUFFICES ASSUME Bad # {} PROVE FALSE
    OBVIOUS
  <2>1. Bad \subseteq Nat /\ \A i \in Bad : i <= MaxLevel
    BY <1>0
  <2>2. PICK i \in Bad : \A j \in Bad : j <= i
    <3> HIDE DEF Bad
    <3> QED BY <1>0, <2>1, GreatestNumber
  <2>3. CASE i >= a.levels[Head]
    BY <1>1, <1>6, <2>3
  <2>4. CASE i < a.levels[Head]
    <3>1. i + 1 \in 0 .. MaxLevel /\ i \in Nat /\ i + 1 > i
      BY <1>0, <2>4
    <3>2. g[i + 1] = Before(a, e, i + 1)
      BY <2>2, <3>1
    <3>3. g[i] = Walk(a, i, e, g[i + 1])
      BY <1>0, <1>6, <2>4
    <3> QED BY <1>2, <2>4, <3>1, <3>2, <3>3
  <2> QED BY <1>0, <2>3, <2>4
<1> QED BY <1>4, <1>7

-----------------------------------------------------------------------------
(* Inserting a block into the list. *)

Record(a) == a = [size |-> a.size, levels |-> a.levels, next |-> a.next, count |-> a.count]

\* The levels of r are those of a and l for the new block e.
OneNew(a, r, e, l) == /\ DOMAIN r.levels = DOMAIN a.levels \cup {e}
                      /\ r.levels[e] = l /\ \A b \in Fr(a) : r.levels[b] = a.levels[b]
                      /\ Fr(r) = Fr(a) \cup {e} /\ Levelled(r)

\* Where the new block comes in, ...
LEMMA AfterNew ==
  ASSUME NEW a, Listed(a), NEW e \in Nat \ {0}, e \notin Fr(a), NEW l \in Level, NEW r, OneNew(a, r, e, l),
         NEW i \in Nat, NEW p \in OnLevel(a, i) \cup {Head}
  PROVE  After(r, p, i) = IF i < l /\ Before(a, e, i) = p THEN e ELSE After(a, p, i)
<1>0. /\ Levelled(a) /\ Levelled(r) /\ l \in Nat /\ p \in Nat /\ p \in DOMAIN a.levels
      /\ \A b \in Fr(r) : b \in Nat
      /\ (p = Head \/ (p \in Fr(a) /\ a.levels[p] > i))
  <2>1. Levelled(a) /\ Levelled(r) /\ l \in Nat /\ DOMAIN a.next = DOMAIN a.levels
    BY DEF Listed, OneNew, Level
  <2>2. p \in DOMAIN a.levels /\ (p = Head \/ i < a.levels[p])
    BY <2>1, LevelledFacts DEF OnLevel
  <2>3. p \in Nat /\ a.levels[p] \in Nat /\ (p = Head \/ p \in Fr(a))
    BY <2>1, <2>2, LevelledFacts
  <2>4. \A b \in Fr(r) : b \in Nat
    BY <2>1, LevelledFacts
  <2> QED BY <2>1, <2>2, <2>3, <2>4
<1>1. Behind(r, p, i) = Behind(a, p, i) \cup {b \in {e} : e > p /\ l > i}
  BY DEF Behind, OneNew
<1>2. /\ Before(a, e, i) \in {Head} \cup Ahead(a, e, i) /\ Before(a, e, i) < e /\ Before(a, e, i) \in Nat
      /\ \A b \in {Head} \cup Ahead(a, e, i) : b <= Before(a, e, i)
  BY <1>0, BeforeFacts
<1>3. \/ After(a, p, i) = None /\ Behind(a, p, i) = {}
      \/ After(a, p, i) \in Behind(a, p, i) /\ \A b \in Behind(a, p, i) : After(a, p, i) <= b
  BY <1>0, AfterFacts
<1>4. ASSUME NEW b \in Behind(a, p, i) PROVE b \in Nat /\ b > p /\ b # e /\ (b < e => b \in Ahead(a, e, i))
  BY <1>0 DEF Behind, Ahead, OneNew
<1>5. CASE i < l /\ Before(a, e, i) = p
  <2>1. e \in Behind(r, p, i)
    BY <1>0, <1>1, <1>2, <1>5
  <2>2. ASSUME NEW b \in Behind(r, p, i) PROVE e <= b
    <3>1. CASE b = e
      BY <3>1
    <3>2. CASE b \in Behind(a, p, i)
      <4>1. ~(b < e)
        BY <1>2, <1>4, <1>5, <3>2
      <4> QED BY <1>4, <3>2, <4>1
    <3> QED BY <1>1, <3>1, <3>2
  <2>3. e = After(r, p, i)
    BY <1>0, <2>1, <2>2, AfterIs
  <2> QED BY <1>5, <2>3
<1>6. CASE ~(i < l /\ e > p)
  <2>1. Behind(r, p, i) = Behind(a, p, i)
    BY <1>0, <1>1, <1>6
  <2>2. After(r, p, i) = After(a, p, i)
    BY <2>1 DEF After
  <2>3. ~(i < l /\ Before(a, e, i) = p)
    BY <1>0, <1>2, <1>6
  <2> QED BY <2>2, <2>3
<1>7. CASE i < l /\ e > p /\ Before(a, e, i) # p
  <2>1. p \in {Head} \cup Ahead(a, e, i)
    BY <1>0, <1>7 DEF Ahead
  <2>2. Before(a, e, i) \in Behind(a, p, i)
    <3>1. p < Before(a, e, i)
      BY <1>0, <1>2, <1>7, <2>1
    <3>2. Before(a, e, i) # Head
      BY <1>0, <3>1 DEF Head
    <3> QED BY <1>2, <3>1, <3>2 DEF Ahead, Behind
  <2>3. /\ After(a, p, i) \in Behind(a, p, i) /\ \A b \in Behind(a, p, i) : After(a, p, i) <= b
        /\ After(a, p, i) <= Before(a, e, i) /\ After(a, p, i) \in Nat
    BY <1>3, <1>4, <2>2
  <2>4. \A b \in Behind(r, p, i) : After(a, p, i) <= b
    BY <1>1, <1>2, <2>3
  <2>5. After(a, p, i) \in Behind(r, p, i)
    BY <1>1, <2>3
  <2>6. After(a, p, i) = After(r, p, i)
    BY <1>0, <2>4, <2>5, AfterIs
  <2> QED BY <1>7, <2>6
<1> QED BY <1>5, <1>6, <1>7

\* ... and what comes after it.
LEMMA AfterOfNew ==
  ASSUME NEW a, Listed(a), NEW e \in Nat \ {0}, e \notin Fr(a), NEW l \in Level, NEW r, OneNew(a, r, e, l),
         NEW i \in Nat
  PROVE  /\ Before(a, e, i) \in OnLevel(a, i) \cup {Head}
         /\ After(r, e, i) = After(a, Before(a, e, i), i)
<1> DEFINE p == Before(a, e, i)
<1>0. Levelled(a) /\ Levelled(r) /\ DOMAIN a.next = DOMAIN a.levels
  BY DEF Listed, OneNew
<1>1. /\ p \in {Head} \cup Ahead(a, e, i) /\ p < e /\ p \in Nat /\ p \in DOMAIN a.levels
      /\ \A b \in {Head} \cup Ahead(a, e, i) : b <= p
  BY <1>0, BeforeFacts
<1> HIDE DEF p
<1>2. p \in OnLevel(a, i) \cup {Head}
  <2>1. p # Head => p \in Fr(a) /\ a.levels[p] > i /\ a.levels[p] \in Nat
    BY <1>0, <1>1, LevelledFacts DEF Ahead
  <2> QED BY <1>0, <1>1, <2>1 DEF OnLevel
<1>3. Behind(r, e, i) = Behind(a, p, i)
  <2>1. ASSUME NEW b PROVE b \in Behind(r, e, i) <=> b \in Behind(a, p, i)
    <3>1. b \in Fr(r) <=> b \in Fr(a) \/ b = e
      BY DEF OneNew
    <3>2. b \in Fr(a) => b \in Nat /\ b # e /\ r.levels[b] = a.levels[b]
      BY <1>0, LevelledFacts DEF OneNew
    <3>3. b \in Fr(a) /\ a.levels[b] > i /\ b < e => b <= p
      BY <1>1 DEF Ahead
    <3> QED BY <1>1, <3>1, <3>2, <3>3 DEF Behind
  <2> QED BY <2>1
<1>4. After(r, e, i) = After(a, p, i)
  BY <1>3 DEF After
<1> QED BY <1>2, <1>4 DEF p

\* SkiplistInsert keeps the list in order, with one block more.
LEMMA InsertStep ==
  ASSUME NEW a, Listed(a), Record(a), NEW e \in Nat \ {0}, e \notin Fr(a), NEW l \in Level,
         NEW r, r = SkiplistInsert(a, e, l)
  PROVE  /\ Record(r) /\ r.size = a.size /\ r.count = a.count
         /\ Listed(r) /\ OneNew(a, r, e, l)
<1> DEFINE h == Max({a.levels[Head], l})
           high == [a.levels EXCEPT ![Head] = h]
           prev == Search(a, e)
           old == [p \in DOMAIN a.next |-> [i \in 0 .. high[p] - 1 |-> Insertion(a, prev, e, l, p, i)]]
           new == [i \in 0 .. l - 1 |-> LinkAt(a, prev[i], i)]
<1>0. /\ Levelled(a) /\ DOMAIN a.next = DOMAIN a.levels /\ Head \in DOMAIN a.levels /\ e # Head
      /\ a.levels[Head] \in Nat /\ a.levels[Head] <= MaxLevel - 1 /\ MaxLevel \in Nat
      /\ l \in Nat /\ l >= 1 /\ l <= MaxLevel - 1 /\ e \notin DOMAIN a.levels
  <2>1. l \in Nat /\ l >= 1 /\ l <= MaxLevel - 1 /\ MaxLevel \in Nat /\ e # Head
    BY DEF Level, MaxLevel, Head
  <2>2. e \notin DOMAIN a.levels
    BY <2>1 DEF Fr
  <2> QED BY <2>1, <2>2, LevelledFacts DEF Listed
<1>1. h \in {a.levels[Head], l} /\ h >= a.levels[Head] /\ h >= l
  <2> DEFINE S == {a.levels[Head], l}
             x == IF a.levels[Head] >= l THEN a.levels[Head] ELSE l
  <2>1. S \subseteq Int /\ x \in S /\ \A y \in S : y <= x
    BY <1>0
  <2>2. Max(S) = x
    <3> HIDE DEF S, x
    <3> QED BY <2>1, MaxIs
  <2> QED BY <1>0, <2>2
<1> HIDE DEF h
<1>2. r = [a EXCEPT !.levels = With(high, e, l), !.next = With(old, e, new)]
  BY DEF SkiplistInsert, h
<1>3. /\ Record(r) /\ r.size = a.size /\ r.count = a.count
      /\ r.levels = With(high, e, l) /\ r.next = With(old, e, new)
  <2> HIDE DEF high, old, new
  <2> QED BY <1>2 DEF Record
<1>4. /\ DOMAIN r.levels = DOMAIN a.levels \cup {e} /\ r.levels[e] = l /\ r.levels[Head] = h
      /\ \A b \in Fr(a) : r.levels[b] = a.levels[b]
      /\ \A p \in DOMAIN a.levels : r.levels[p] = high[p]
      /\ Fr(r) = Fr(a) \cup {e}
  BY <1>0, <1>3 DEF With, Fr
<1>5. Levelled(r)
  <2>1. h \in 0 .. MaxLevel - 1
    BY <1>0, <1>1
  <2>2. \E m \in Nat : \A b \in Fr(r) : b <= m
    <3>1. PICK m \in Nat : \A b \in Fr(a) : b <= m
      BY <1>0 DEF Levelled
    <3>2. \A b \in Fr(a) : b \in Nat
      BY <1>0, LevelledFacts
    <3>3. \A b \in Fr(r) : b <= m + e
      BY <1>4, <3>1, <3>2
    <3> QED BY <3>3
  <2>3. ASSUME NEW b \in Fr(r) PROVE r.levels[b] \in Level /\ r.levels[b] <= r.levels[Head] /\ b \in Nat \ {0}
    <3>1. CASE b = e
      BY <1>1, <1>4, <3>1
    <3>2. CASE b \in Fr(a)
      <4>1. a.levels[b] \in Level /\ a.levels[b] <= a.levels[Head] /\ b \in Nat \ {0}
        BY <1>0, <3>2 DEF Levelled
      <4>2. a.levels[b] \in Nat
        BY <1>0, <3>2, LevelledFacts
      <4> QED BY <1>0, <1>1, <1>4, <3>2, <4>1, <4>2
    <3> QED BY <1>4, <3>1, <3>2
  <2>4. \E b \in Fr(r) : r.levels[b] = r.levels[Head]
    <3>1. CASE h = l
      BY <1>4, <3>1
    <3>2. CASE h # l
      <4>1. h = a.levels[Head] /\ a.levels[Head] # 0
        BY <1>0, <1>1, <3>2
      <4>2. PICK b \in Fr(a) : a.levels[b] = a.levels[Head]
        BY <1>0, <4>1 DEF Levelled
      <4> QED BY <1>4, <4>1, <4>2
    <3> QED BY <3>1, <3>2
  <2> QED BY <1>0, <1>4, <2>1, <2>2, <2>3, <2>4 DEF Levelled
<1>6. OneNew(a, r, e, l)
  BY <1>4, <1>5 DEF OneNew
<1>7. \A i \in 0 .. MaxLevel : prev[i] = Before(a, e, i)
  BY SearchIs
<1>8. ASSUME NEW p \in DOMAIN a.levels
      PROVE  r.next[p] = [i \in 0 .. r.levels[p] - 1 |-> After(r, p, i)]
  <2>1. r.next[p] = [i \in 0 .. high[p] - 1 |-> Insertion(a, prev, e, l, p, i)]
    <3>1. r.next[p] = old[p]
      <4> HIDE DEF old, new
      <4>1. DOMAIN old = DOMAIN a.next
        BY DEF old
      <4> QED BY <1>0, <1>3, <4>1 DEF With
    <3> QED BY <1>0, <3>1
  <2>2. ASSUME NEW i \in 0 .. high[p] - 1 PROVE Insertion(a, prev, e, l, p, i) = After(r, p, i)
    <3>1. i \in Nat
      OBVIOUS
    <3>2. p \in OnLevel(a, i) \cup {Head}
      <4>1. CASE p = Head
        BY <4>1
      <4>2. CASE p # Head
        <5>1. high[p] = a.levels[p] /\ a.levels[p] \in Nat
          BY <1>0, <4>2, LevelledFacts
        <5>2. i < a.levels[p]
          BY <5>1
        <5> QED BY <1>0, <5>2 DEF OnLevel
      <4> QED BY <4>1, <4>2
    <3>3. LinkAt(a, p, i) = After(a, p, i)
      BY <3>1, <3>2, LinkAtIs
    <3>4. After(r, p, i) = IF i < l /\ Before(a, e, i) = p THEN e ELSE After(a, p, i)
      BY <1>6, <3>1, <3>2, AfterNew
    <3>5. i < l => prev[i] = Before(a, e, i)
      BY <1>0, <1>7, <3>1
    <3> HIDE DEF prev
    <3> QED BY <3>3, <3>4, <3>5 DEF Insertion
  <2>3. high[p] = r.levels[p]
    BY <1>4
  <2> HIDE DEF high, prev
  <2> QED BY <2>1, <2>2, <2>3
<1>9. r.next[e] = [i \in 0 .. r.levels[e] - 1 |-> After(r, e, i)]
  <2>1. r.next[e] = new
    <3> HIDE DEF old, new
    <3> QED BY <1>3 DEF With
  <2>2. ASSUME NEW i \in 0 .. l - 1 PROVE LinkAt(a, prev[i], i) = After(r, e, i)
    <3>1. i \in Nat /\ i \in 0 .. MaxLevel
      BY <1>0
    <3>2. prev[i] = Before(a, e, i)
      BY <1>7, <3>1
    <3>3. /\ Before(a, e, i) \in OnLevel(a, i) \cup {Head}
          /\ After(r, e, i) = After(a, Before(a, e, i), i)
      BY <1>6, <3>1, AfterOfNew
    <3>4. LinkAt(a, Before(a, e, i), i) = After(a, Before(a, e, i), i)
      BY <3>1, <3>3, LinkAtIs
    <3> HIDE DEF prev
    <3> QED BY <3>2, <3>3, <3>4
  <2> HIDE DEF prev
  <2> QED BY <1>4, <2>1, <2>2
<1>10. DOMAIN r.next = DOMAIN r.levels
  <2>1. DOMAIN old = DOMAIN a.next
    OBVIOUS
  <2> HIDE DEF old, new
  <2> QED BY <1>0, <1>3, <1>4, <2>1 DEF With
<1>11. Listed(r)
  BY <1>4, <1>5, <1>8, <1>9, <1>10 DEF Listed
<1> QED BY <1>3, <1>6, <1>11

-----------------------------------------------------------------------------
(* Deleting a block from the list. *)

\* The next pointer of p once e is out of the list.
Kept(a, e, p, i) ==
  IF i < a.levels[e] /\ Before(a, e, i) = p /\ After(a, p, i) = e THEN After(a, e, i) ELSE After(a, p, i)

LEMMA KeptIs ==
  ASSUME NEW a, Listed(a), NEW e \in Fr(a), NEW i \in Nat, NEW p \in OnLevel(a, i)
  PROVE  \/ Kept(a, e, p, i) = None /\ Behind(a, p, i) \ {e} = {}
         \/ /\ Kept(a, e, p, i) \in Behind(a, p, i) \ {e}
            /\ \A b \in Behind(a, p, i) \ {e} : Kept(a, e, p, i) <= b
<1>0. /\ Levelled(a) /\ DOMAIN a.next = DOMAIN a.levels /\ e \in Nat /\ e \in Nat \ {0} /\ a.levels[e] \in Nat
      /\ p \in Nat /\ i < a.levels[p] /\ (p = Head \/ p \in Fr(a))
      /\ \A b \in Fr(a) : b \in Nat
  <2>1. Levelled(a) /\ DOMAIN a.next = DOMAIN a.levels
    BY DEF Listed
  <2>2. p \in DOMAIN a.levels /\ i < a.levels[p]
    BY <2>1 DEF OnLevel
  <2>3. p \in Nat /\ (p = Head \/ p \in Fr(a))
    BY <2>1, <2>2, LevelledFacts
  <2>4. \A b \in Fr(a) : b \in Nat
    BY <2>1, LevelledFacts
  <2>5. e \in Nat \ {0}
    BY <2>1 DEF Levelled
  <2>6. a.levels[e] \in Nat
    BY <2>1, LevelledFacts
  <2> QED BY <2>1, <2>2, <2>3, <2>4, <2>5, <2>6
<1>1. \/ After(a, p, i) = None /\ Behind(a, p, i) = {}
      \/ After(a, p, i) \in Behind(a, p, i) /\ \A b \in Behind(a, p, i) : After(a, p, i) <= b
  BY <1>0, AfterFacts
<1>2. CASE After(a, p, i) = e
  <2>0. e # None
    BY <1>0 DEF None
  <2>1. e \in Behind(a, p, i) /\ \A b \in Behind(a, p, i) : e <= b
    BY <1>1, <1>2, <2>0
  <2>2. e > p /\ a.levels[e] > i
    BY <2>1 DEF Behind
  <2>3. p = Before(a, e, i)
    <3>1. p \in {Head} \cup Ahead(a, e, i)
      <4>1. p \in Fr(a) => a.levels[p] \in Nat
        BY <1>0, LevelledFacts
      <4> QED BY <1>0, <2>2, <4>1 DEF Ahead
    <3>2. ASSUME NEW b \in Ahead(a, e, i) PROVE b <= p
      <4>1. b \in Nat /\ b < e /\ (b > p => b \in Behind(a, p, i))
        BY <1>0 DEF Ahead, Behind
      <4>2. b > p => e <= b
        BY <2>1, <4>1
      <4> QED BY <1>0, <4>1, <4>2
    <3>3. Head <= p
      BY <1>0 DEF Head
    <3> QED BY <1>0, <3>1, <3>2, <3>3, BeforeIs
  <2>4. Kept(a, e, p, i) = After(a, e, i)
    BY <1>0, <1>2, <2>2, <2>3 DEF Kept
  <2>5. Behind(a, e, i) = Behind(a, p, i) \ {e}
    <3>1. ASSUME NEW b PROVE b \in Behind(a, e, i) <=> b \in Behind(a, p, i) /\ b # e
      <4>1. b \in Behind(a, p, i) => e <= b /\ b \in Nat
        BY <1>0, <2>1 DEF Behind
      <4>2. b \in Behind(a, e, i) => b \in Nat
        BY <1>0 DEF Behind
      <4> QED BY <1>0, <2>2, <4>1, <4>2 DEF Behind
    <3> QED BY <3>1
  <2>6. \/ After(a, e, i) = None /\ Behind(a, e, i) = {}
        \/ After(a, e, i) \in Behind(a, e, i) /\ \A b \in Behind(a, e, i) : After(a, e, i) <= b
    BY <1>0, AfterFacts
  <2> QED BY <2>4, <2>5, <2>6
<1>3. CASE After(a, p, i) # e
  <2>1. Kept(a, e, p, i) = After(a, p, i)
    BY <1>3 DEF Kept
  <2> QED BY <1>1, <1>3, <2>1
<1> QED BY <1>2, <1>3

\* The levels of r are those of a without the block e.
OneLess(a, r, e) == /\ DOMAIN r.levels = DOMAIN a.levels \ {e} /\ Fr(r) = Fr(a) \ {e}
                    /\ \A b \in Fr(r) : r.levels[b] = a.levels[b]

\* SkiplistDelete keeps the list in order, with one block less.
LEMMA DeleteStep ==
  ASSUME NEW a, Listed(a), Record(a), NEW e \in Fr(a), NEW r, r = SkiplistDelete(a, e)
  PROVE  /\ Record(r) /\ r.size = a.size /\ r.count = a.count
         /\ Listed(r) /\ OneLess(a, r, e)
<1> DEFINE prev == Search(a, e)
           K(p, i) == IF i < a.levels[e] /\ prev[i] = p /\ a.next[p][i] = e THEN a.next[e][i]
                      ELSE a.next[p][i]
           kept == [p \in DOMAIN a.next |-> [i \in 0 .. a.levels[p] - 1 |-> K(p, i)]]
           U == Used(a, kept[Head])
           low == [a.levels EXCEPT ![Head] = U]
           nx == [p \in DOMAIN a.next \ {e} |-> [i \in 0 .. low[p] - 1 |-> kept[p][i]]]
<1>0. /\ Levelled(a) /\ DOMAIN a.next = DOMAIN a.levels /\ Head \in DOMAIN a.levels /\ e # Head
      /\ a.levels[Head] \in Nat /\ a.levels[Head] <= MaxLevel - 1 /\ MaxLevel \in Nat
      /\ e \in Nat \ {0} /\ e \in DOMAIN a.levels /\ a.levels[e] \in Nat /\ a.levels[e] <= MaxLevel - 1
  <2>1. Levelled(a) /\ DOMAIN a.next = DOMAIN a.levels
    BY DEF Listed
  <2>2. e \in Nat \ {0} /\ e # Head /\ e \in DOMAIN a.levels
    BY <2>1 DEF Levelled, Fr
  <2>3. MaxLevel \in Nat
    BY DEF MaxLevel
  <2> QED BY <2>1, <2>2, <2>3, LevelledFacts
<1>1. \A i \in 0 .. MaxLevel : prev[i] = Before(a, e, i)
  BY <1>0, SearchIs
<1> HIDE DEF prev
<1>2. ASSUME NEW p \in DOMAIN a.levels, NEW i \in Nat, i < a.levels[p]
      PROVE  p \in OnLevel(a, i) /\ kept[p][i] = Kept(a, e, p, i)
  <2>1. p \in OnLevel(a, i)
    BY <1>0, <1>2 DEF OnLevel
  <2>2. a.next[p][i] = After(a, p, i)
    BY <2>1, NextIs
  <2>3. i < a.levels[e] => a.next[e][i] = After(a, e, i) /\ prev[i] = Before(a, e, i)
    <3> SUFFICES ASSUME i < a.levels[e] PROVE a.next[e][i] = After(a, e, i) /\ prev[i] = Before(a, e, i)
      OBVIOUS
    <3>1. e \in OnLevel(a, i)
      BY <1>0 DEF OnLevel
    <3>2. i \in 0 .. MaxLevel
      BY <1>0
    <3> QED BY <1>1, <3>1, <3>2, NextIs
  <2>4. K(p, i) = Kept(a, e, p, i)
    BY <2>2, <2>3 DEF Kept
  <2>5. kept[p][i] = K(p, i)
    <3>1. a.levels[p] \in Nat
      BY <1>0, LevelledFacts
    <3>2. i \in 0 .. a.levels[p] - 1
      BY <1>2, <3>1
    <3> HIDE DEF K
    <3> QED BY <1>0, <3>2
  <2> QED BY <2>1, <2>4, <2>5
<1> HIDE DEF kept, K
<1>3. ASSUME NEW k \in Nat, k < a.levels[Head]
      PROVE  kept[Head][k] # None <=> \E b \in Fr(a) \ {e} : a.levels[b] > k
  <2>1. Head \in OnLevel(a, k) /\ kept[Head][k] = Kept(a, e, Head, k)
    BY <1>0, <1>2, <1>3
  <2>2. \/ Kept(a, e, Head, k) = None /\ Behind(a, Head, k) \ {e} = {}
        \/ Kept(a, e, Head, k) \in Behind(a, Head, k) \ {e}
    BY <2>1, KeptIs
  <2>3. \A b \in Fr(a) : b \in Nat /\ b > 0
    BY <1>0, LevelledFacts
  <2>4. Behind(a, Head, k) \ {e} = {b \in Fr(a) \ {e} : a.levels[b] > k}
    BY <2>3 DEF Behind, Head
  <2>5. None \notin Behind(a, Head, k)
    BY <2>3 DEF Behind, None
  <2> QED BY <2>1, <2>2, <2>4, <2>5
<1>4. /\ U \in Nat /\ U <= a.levels[Head] /\ \A b \in Fr(a) \ {e} : a.levels[b] <= U
      /\ U # 0 => \E b \in Fr(a) \ {e} : a.levels[b] = U
  <2> DEFINE I == {k \in 0 .. a.levels[Head] - 1 : kept[Head][k] # None}
             T == {0} \cup {i + 1 : i \in I}
  <2>1. T \subseteq Nat /\ T # {} /\ \A y \in T : y <= a.levels[Head]
    <3>1. ASSUME NEW i \in I PROVE i + 1 \in Nat /\ i + 1 <= a.levels[Head]
      <4>1. i \in 0 .. a.levels[Head] - 1
        OBVIOUS
      <4> QED BY <1>0, <4>1
    <3> HIDE DEF I
    <3> QED BY <1>0, <3>1
  <2>2. PICK x \in T : \A y \in T : y <= x
    <3> HIDE DEF T
    <3> QED BY <1>0, <2>1, GreatestNumber
  <2>3. U = x
    <3>1. Max(T) = x
      <4>1. T \subseteq Int
        BY <2>1
      <4> HIDE DEF T
      <4> QED BY <2>2, <4>1, MaxIs
    <3> QED BY <3>1 DEF Used
  <2> HIDE DEF U
  <2>4. ASSUME NEW b \in Fr(a) \ {e} PROVE a.levels[b] <= U
    <3>1. a.levels[b] \in Nat /\ a.levels[b] >= 1 /\ a.levels[b] <= a.levels[Head]
      BY <1>0, LevelledFacts
    <3> DEFINE k == a.levels[b] - 1
    <3>2. k \in Nat /\ k < a.levels[Head] /\ a.levels[b] > k /\ k \in 0 .. a.levels[Head] - 1
      BY <1>0, <3>1
    <3>3. kept[Head][k] # None
      <4> HIDE DEF k
      <4> QED BY <1>3, <3>2
    <3>4. k \in I
      BY <3>2, <3>3
    <3>5. k + 1 \in T
      BY <3>4
    <3> QED BY <2>2, <2>3, <3>1, <3>5
  <2>5. ASSUME U # 0 PROVE \E b \in Fr(a) \ {e} : a.levels[b] = U
    <3>1. PICK i \in I : U = i + 1
      BY <2>2, <2>3, <2>5
    <3>2. i \in Nat /\ i < a.levels[Head] /\ kept[Head][i] # None
      BY <1>0
    <3>3. PICK b \in Fr(a) \ {e} : a.levels[b] > i
      BY <1>3, <3>2
    <3>4. a.levels[b] <= U /\ a.levels[b] \in Nat
      BY <1>0, <2>4, LevelledFacts
    <3> QED BY <3>1, <3>2, <3>3, <3>4
  <2>6. U \in Nat /\ U <= a.levels[Head]
    BY <2>1, <2>2, <2>3
  <2> QED BY <2>4, <2>5, <2>6
<1> HIDE DEF U
<1>5. r = [a EXCEPT !.levels = Without(low, e), !.next = nx]
  BY DEF SkiplistDelete, U, kept, K, prev
<1>6. /\ Record(r) /\ r.size = a.size /\ r.count = a.count
      /\ r.levels = Without(low, e) /\ r.next = nx
  <2> HIDE DEF low, nx
  <2> QED BY <1>5 DEF Record
<1>7. /\ DOMAIN r.levels = DOMAIN a.levels \ {e} /\ Fr(r) = Fr(a) \ {e} /\ r.levels[Head] = U
      /\ \A b \in Fr(r) : r.levels[b] = a.levels[b]
      /\ \A p \in DOMAIN r.levels : r.levels[p] = low[p] /\ p # e /\ p \in DOMAIN a.levels
  BY <1>0, <1>6 DEF Without, Fr
<1>8. Levelled(r)
  <2>1. Fr(r) \subseteq Nat \ {0} /\ \E m \in Nat : \A b \in Fr(r) : b <= m
    BY <1>0, <1>7 DEF Levelled
  <2>2. ASSUME NEW b \in Fr(r) PROVE r.levels[b] \in Level /\ r.levels[b] <= r.levels[Head]
    BY <1>0, <1>4, <1>7 DEF Levelled
  <2>3. r.levels[Head] # 0 => \E b \in Fr(r) : r.levels[b] = r.levels[Head]
    BY <1>4, <1>7
  <2>4. Head \in DOMAIN r.levels /\ r.levels[Head] \in 0 .. MaxLevel - 1
    BY <1>0, <1>4, <1>7
  <2> QED BY <2>1, <2>2, <2>3, <2>4 DEF Levelled
<1>9. ASSUME NEW p \in DOMAIN r.levels
      PROVE  r.next[p] = [i \in 0 .. r.levels[p] - 1 |-> After(r, p, i)]
  <2>1. p \in DOMAIN a.levels /\ p # e /\ r.levels[p] = low[p]
    BY <1>7
  <2>2. low[p] \in Nat /\ a.levels[p] \in Nat /\ low[p] <= a.levels[p]
    BY <1>0, <1>4, <2>1, LevelledFacts
  <2>3. r.next[p] = [i \in 0 .. low[p] - 1 |-> kept[p][i]]
    BY <1>0, <1>6, <2>1
  <2> HIDE DEF low
  <2>4. ASSUME NEW i \in 0 .. low[p] - 1 PROVE kept[p][i] = After(r, p, i)
    <3>1. i \in Nat /\ i < a.levels[p]
      BY <2>2
    <3>2. p \in OnLevel(a, i) /\ kept[p][i] = Kept(a, e, p, i)
      BY <1>2, <2>1, <3>1
    <3>3. Behind(r, p, i) = Behind(a, p, i) \ {e}
      BY <1>7 DEF Behind
    <3>4. \/ Kept(a, e, p, i) = None /\ Behind(a, p, i) \ {e} = {}
          \/ /\ Kept(a, e, p, i) \in Behind(a, p, i) \ {e}
             /\ \A b \in Behind(a, p, i) \ {e} : Kept(a, e, p, i) <= b
      BY <3>1, <3>2, KeptIs
    <3>5. Kept(a, e, p, i) = After(r, p, i)
      BY <1>8, <3>3, <3>4, AfterIs
    <3> QED BY <3>2, <3>5
  <2> QED BY <2>1, <2>3, <2>4
<1>10. DOMAIN r.next = DOMAIN r.levels
  BY <1>0, <1>6, <1>7
<1>11. Listed(r)
  BY <1>8, <1>9, <1>10 DEF Listed
<1> QED BY <1>6, <1>7, <1>11 DEF OneLess

-----------------------------------------------------------------------------
(* The blocks in order. *)

Blk(a) == DOMAIN a.size \ {Head}
Busy(a) == Blk(a) \ Fr(a)

SideBySide(a) == \A b, c \in Blk(a) : b < c => b + a.size[b] <= c
Granular(a) == \A b \in Blk(a) : b \in Nat \ {0} /\ Fits(a.size[b]) /\ a.size[b] % Header = 0
LevelsFit(a) == \A b \in Fr(a) : /\ SkiplistLevels(a.size[b], 1) <= a.levels[b]
                                 /\ Links + 8 * a.levels[b] <= a.size[b]

Sound(a) == /\ Record(a) /\ Listed(a)
            /\ Head \in DOMAIN a.size /\ a.size[Head] = 0
            /\ Fr(a) \subseteq Blk(a)
            /\ Granular(a) /\ SideBySide(a) /\ LevelsFit(a)

\* No two free blocks touch.
Apart(a) == \A b, c \in Fr(a) : b + a.size[b] # c

LEMMA SoundFacts ==
  ASSUME NEW a, Sound(a)
  PROVE  /\ Levelled(a) /\ Listed(a) /\ Record(a) /\ SideBySide(a) /\ Granular(a) /\ LevelsFit(a)
         /\ \A b \in Blk(a) : b \in Nat \ {0} /\ Fits(a.size[b]) /\ a.size[b] \in Nat /\ a.size[b] >= 64
                              /\ a.size[b] % 32 = 0
         /\ \A b \in Fr(a) : b \in Blk(a) /\ b \in OnLevel(a, 0) /\ a.levels[b] \in Level
         /\ DOMAIN a.next = DOMAIN a.levels /\ Head \notin Fr(a)
<1>1. /\ Levelled(a) /\ Listed(a) /\ Record(a) /\ SideBySide(a) /\ Granular(a) /\ LevelsFit(a)
      /\ DOMAIN a.next = DOMAIN a.levels /\ Fr(a) \subseteq Blk(a)
  BY DEF Sound, Listed
<1>2. ASSUME NEW b \in Blk(a)
      PROVE  b \in Nat \ {0} /\ Fits(a.size[b]) /\ a.size[b] \in Nat /\ a.size[b] >= 64 /\ a.size[b] % 32 = 0
  BY <1>1 DEF Granular, Fits, MinSize, Header
<1>3. ASSUME NEW b \in Fr(a) PROVE b \in Blk(a) /\ b \in OnLevel(a, 0) /\ a.levels[b] \in Level
  <2>1. b \in DOMAIN a.levels /\ a.levels[b] \in Nat /\ a.levels[b] >= 1
    BY <1>1, LevelledFacts
  <2>2. b \in OnLevel(a, 0)
    BY <1>1, <2>1 DEF OnLevel
  <2> QED BY <1>1, <2>2 DEF Levelled
<1>4. Head \notin Fr(a)
  BY DEF Fr
<1> QED BY <1>1, <1>2, <1>3, <1>4

\* The list does not know the sizes.
LEMMA SizesDoNotMatter ==
  ASSUME NEW a, NEW r, r.levels = a.levels, r.next = a.next, Listed(a)
  PROVE  Listed(r) /\ Fr(r) = Fr(a)
<1>1. Fr(r) = Fr(a) /\ Levelled(r)
  BY DEF Fr, Listed, Levelled
<1>2. \A p, i : After(r, p, i) = After(a, p, i)
  <2>1. \A p, i : Behind(r, p, i) = Behind(a, p, i)
    BY <1>1 DEF Behind
  <2> QED BY <2>1 DEF After
<1> QED BY <1>1, <1>2 DEF Listed

\* Inserting the block f with the size it has.
LEMMA FreeStep ==
  ASSUME NEW a, Sound(a), NEW f \in Blk(a) \ Fr(a), NEW k \in Nat \ {0},
         NEW r, r = SkiplistInsert(a, f, SkiplistLevels(a.size[f], k))
  PROVE  /\ Sound(r) /\ r.size = a.size /\ r.count = a.count /\ Fr(r) = Fr(a) \cup {f} /\ Blk(r) = Blk(a)
<1> DEFINE l == SkiplistLevels(a.size[f], k)
<1>1. f \in Nat \ {0} /\ f \notin Fr(a) /\ Fits(a.size[f]) /\ Listed(a) /\ Record(a)
  BY SoundFacts
<1>2. l \in Level /\ Links + 8 * l <= a.size[f] /\ SkiplistLevels(a.size[f], 1) <= l
  <2>1. a.size[f] <= a.size[f]
    BY <1>1 DEF Fits
  <2> QED BY <1>1, <2>1, LevelFacts
<1> HIDE DEF l
<1>3. /\ Record(r) /\ r.size = a.size /\ r.count = a.count /\ Listed(r) /\ OneNew(a, r, f, l)
  BY <1>1, <1>2, InsertStep DEF l
<1>4. Fr(r) = Fr(a) \cup {f} /\ r.levels[f] = l /\ \A b \in Fr(a) : r.levels[b] = a.levels[b]
  BY <1>3 DEF OneNew
<1>5. Blk(r) = Blk(a)
  BY <1>3 DEF Blk
<1>6. LevelsFit(r)
  BY <1>2, <1>3, <1>4, SoundFacts DEF LevelsFit
<1>7. Granular(r) /\ SideBySide(r)
  BY <1>3, <1>5 DEF Sound, Granular, SideBySide
<1>8. Head \in DOMAIN r.size /\ r.size[Head] = 0 /\ Fr(r) \subseteq Blk(r)
  BY <1>3, <1>4, <1>5 DEF Sound
<1> QED BY <1>3, <1>4, <1>5, <1>6, <1>7, <1>8 DEF Sound

\* The free block n, right behind b, has become part of b.
Joined(a, r, b, n) ==
  /\ n \in Fr(a) /\ n # b /\ b + a.size[b] = n
  /\ Fr(r) = Fr(a) \ {n} /\ Blk(r) = Blk(a) \ {n}
  /\ r.size[b] = a.size[b] + a.size[n] /\ \A c \in Blk(r) : c # b => r.size[c] = a.size[c]

LEMMA WholeIsSound ==
  ASSUME NEW a, Sound(a), NEW b \in Fr(a), NEW n \in Fr(a), b + a.size[b] = n,
         NEW r, Record(r), Listed(r), Fr(r) = Fr(a) \ {n, b},
         \A c \in Fr(r) : r.levels[c] = a.levels[c],
         r.size = Without([a.size EXCEPT ![b] = a.size[b] + a.size[n]], n)
  PROVE  /\ Sound(r) /\ n # b /\ Blk(r) = Blk(a) \ {n} /\ b \in Blk(r) \ Fr(r)
         /\ r.size[b] = a.size[b] + a.size[n] /\ \A c \in Blk(r) : c # b => r.size[c] = a.size[c]
<1>0. /\ \A c \in Blk(a) : c \in Nat \ {0} /\ a.size[c] \in Nat /\ a.size[c] >= 64 /\ a.size[c] % 32 = 0
      /\ b \in Blk(a) /\ n \in Blk(a) /\ SideBySide(a) /\ LevelsFit(a)
      /\ Fr(a) \subseteq Blk(a) /\ Head \in DOMAIN a.size /\ a.size[Head] = 0
  BY SoundFacts DEF Sound
<1>1. n > b /\ n # b
  BY <1>0
<1>2. /\ Blk(r) = Blk(a) \ {n} /\ b \in Blk(r) \ Fr(r) /\ Head # b /\ Head # n
      /\ r.size[b] = a.size[b] + a.size[n] /\ \A c \in Blk(r) : c # b => r.size[c] = a.size[c]
      /\ Head \in DOMAIN r.size /\ r.size[Head] = 0 /\ Fr(r) \subseteq Blk(r)
  BY <1>0, <1>1 DEF Without, Blk
<1>3. Granular(r)
  <2>1. ASSUME NEW c \in Blk(r) PROVE c \in Nat \ {0} /\ Fits(r.size[c]) /\ r.size[c] % Header = 0
    <3>1. c \in Nat \ {0} /\ a.size[c] \in Nat /\ a.size[c] >= 64 /\ a.size[c] % 32 = 0
      BY <1>0, <1>2
    <3>2. CASE c = b
      <4>1. /\ a.size[b] \in Nat /\ a.size[b] >= 64 /\ a.size[b] % 32 = 0
            /\ a.size[n] \in Nat /\ a.size[n] % 32 = 0
        BY <1>0
      <4>2. (a.size[b] + a.size[n]) % 32 = 0 /\ a.size[b] + a.size[n] >= 64
        BY <4>1
      <4> QED BY <1>2, <3>1, <3>2, <4>1, <4>2 DEF Fits, MinSize, Header
    <3>3. CASE c # b
      BY <1>2, <3>1, <3>3 DEF Fits, MinSize, Header
    <3> QED BY <3>2, <3>3
  <2> QED BY <2>1 DEF Granular
<1>4. SideBySide(r)
  <2> SUFFICES ASSUME NEW c \in Blk(r), NEW d \in Blk(r), c < d PROVE c + r.size[c] <= d
    BY DEF SideBySide
  <2>1. c \in Blk(a) /\ d \in Blk(a) /\ d # n /\ c \in Nat /\ d \in Nat /\ c + a.size[c] <= d
    BY <1>0, <1>2 DEF SideBySide
  <2>2. CASE c = b
    <3>1. n < d
      BY <1>0, <2>1, <2>2
    <3>2. n + a.size[n] <= d
      BY <1>0, <2>1, <3>1 DEF SideBySide
    <3> QED BY <1>0, <1>2, <2>2, <3>2
  <2>3. CASE c # b
    BY <1>2, <2>1, <2>3
  <2> QED BY <2>2, <2>3
<1>5. LevelsFit(r)
  <2>1. \A c \in Fr(r) : c \in Fr(a) /\ r.levels[c] = a.levels[c] /\ r.size[c] = a.size[c]
    BY <1>2
  <2> QED BY <1>0, <2>1 DEF LevelsFit
<1> QED BY <1>1, <1>2, <1>3, <1>4, <1>5 DEF Sound

\* Coalesce joins b with the free block right behind it, if there is one.
LEMMA CoalesceStep ==
  ASSUME NEW a, Sound(a), NEW b \in Fr(a), NEW k \in Nat \ {0}, NEW r, r = Coalesce(a, b, k)
  PROVE  /\ Sound(r) /\ r.count = a.count
         /\ \/ r = a /\ \A c \in Fr(a) : b + a.size[b] # c
            \/ \E n : Joined(a, r, b, n)
<1> DEFINE n == LinkAt(a, b, 0)
<1>0. /\ \A c \in Blk(a) : c \in Nat \ {0} /\ a.size[c] \in Nat /\ a.size[c] >= 64
      /\ \A c \in Fr(a) : c \in Blk(a) /\ c \in OnLevel(a, 0) /\ c \in DOMAIN a.levels /\ a.levels[c] > 0
      /\ Listed(a) /\ Levelled(a) /\ Record(a) /\ SideBySide(a) /\ 0 \in Nat
  <2>1. Levelled(a)
    BY SoundFacts
  <2>2. \A c \in Fr(a) : c \in DOMAIN a.levels /\ a.levels[c] > 0
    BY <2>1, LevelledFacts
  <2> QED BY <2>1, <2>2, SoundFacts
<1>1. n = After(a, b, 0)
  BY <1>0, LinkAtIs
<1>2. \/ n = None /\ Behind(a, b, 0) = {}
      \/ n \in Behind(a, b, 0) /\ \A c \in Behind(a, b, 0) : n <= c
  BY <1>0, <1>1, AfterFacts
<1> HIDE DEF n
<1>3. CASE ~(n # None /\ b + a.size[b] = n)
  <2>1. r = a
    BY <1>3 DEF Coalesce, n
  <2>2. ASSUME NEW c \in Fr(a), b + a.size[b] = c PROVE FALSE
    <3>1. c > b /\ c \in Nat /\ b \in Nat /\ b \in Blk(a)
      BY <1>0, <2>2
    <3>2. c \in Behind(a, b, 0)
      BY <1>0, <3>1 DEF Behind
    <3>3. n \in Fr(a) /\ n > b /\ n <= c
      BY <1>2, <3>2 DEF Behind
    <3>4. n \in Blk(a) /\ n \in Nat /\ b + a.size[b] <= n
      BY <1>0, <3>1, <3>3 DEF SideBySide
    <3>5. n = c /\ n # None
      BY <1>0, <2>2, <3>1, <3>3, <3>4 DEF None
    <3> QED BY <1>3, <2>2, <3>5
  <2> QED BY <2>1, <2>2
<1>4. CASE n # None /\ b + a.size[b] = n
  <2> DEFINE q == SkiplistDelete(a, n)
             rest == SkiplistDelete(q, b)
             w == [rest EXCEPT !.size = Without([rest.size EXCEPT ![b] = a.size[b] + a.size[n]], n)]
  <2>1. n \in Fr(a) /\ n # b
    BY <1>0, <1>2, <1>4 DEF Behind
  <2>2. Record(q) /\ q.size = a.size /\ q.count = a.count /\ Listed(q) /\ OneLess(a, q, n)
    BY <1>0, <2>1, DeleteStep
  <2>3. b \in Fr(q) /\ Fr(q) = Fr(a) \ {n} /\ \A c \in Fr(q) : q.levels[c] = a.levels[c]
    BY <2>1, <2>2 DEF OneLess
  <2>4. r = SkiplistInsert(w, b, SkiplistLevels(w.size[b], k))
    <3>1. Coalesce(a, b, k) = IF n # None /\ b + a.size[b] = n
                              THEN SkiplistInsert(w, b, SkiplistLevels(w.size[b], k)) ELSE a
      BY DEF Coalesce, n
    <3> HIDE DEF w
    <3> QED BY <1>4, <3>1
  <2> HIDE DEF q
  <2>5. Record(rest) /\ rest.size = q.size /\ rest.count = q.count /\ Listed(rest) /\ OneLess(q, rest, b)
    BY <2>2, <2>3, DeleteStep
  <2>6. Fr(rest) = Fr(a) \ {n, b} /\ \A c \in Fr(rest) : rest.levels[c] = a.levels[c]
    BY <2>3, <2>5 DEF OneLess
  <2> HIDE DEF rest
  <2>7. /\ Record(w) /\ w.levels = rest.levels /\ w.next = rest.next /\ w.count = a.count
        /\ w.size = Without([a.size EXCEPT ![b] = a.size[b] + a.size[n]], n)
    BY <2>2, <2>5 DEF Record
  <2> HIDE DEF w
  <2>8. Listed(w) /\ Fr(w) = Fr(a) \ {n, b} /\ \A c \in Fr(w) : w.levels[c] = a.levels[c]
    BY <2>5, <2>6, <2>7, SizesDoNotMatter
  <2>9. /\ Sound(w) /\ Blk(w) = Blk(a) \ {n} /\ b \in Blk(w) \ Fr(w)
        /\ w.size[b] = a.size[b] + a.size[n] /\ \A c \in Blk(w) : c # b => w.size[c] = a.size[c]
    BY <1>4, <2>1, <2>7, <2>8, WholeIsSound
  <2>10. Sound(r) /\ r.size = w.size /\ r.count = w.count /\ Fr(r) = Fr(w) \cup {b} /\ Blk(r) = Blk(w)
    BY <2>4, <2>9, FreeStep
  <2>11. Joined(a, r, b, n)
    <3>1. Fr(r) = Fr(a) \ {n}
      BY <2>1, <2>8, <2>10
    <3> QED BY <1>4, <2>1, <2>9, <2>10, <3>1 DEF Joined
  <2> QED BY <2>7, <2>10, <2>11
<1> QED BY <1>3, <1>4

-----------------------------------------------------------------------------
(* Freeing a block: it joins its neighbours, so that no two free ones touch. *)

\* What one Coalesce changes.
LEMMA JoinedFacts ==
  ASSUME NEW a, Sound(a), NEW b \in Fr(a), NEW r, NEW n, Joined(a, r, b, n)
  PROVE  /\ n \in Fr(a) /\ n \in Nat /\ n > b /\ n = b + a.size[b] /\ a.size[n] \in Nat
         /\ Fr(r) = Fr(a) \ {n} /\ b \in Fr(r) /\ r.size[b] = a.size[b] + a.size[n]
         /\ Busy(r) = Busy(a)
         /\ \A c \in Blk(a) : c # b /\ c # n => r.size[c] = a.size[c]
<1>1. /\ n \in Fr(a) /\ n # b /\ b + a.size[b] = n /\ Fr(r) = Fr(a) \ {n} /\ Blk(r) = Blk(a) \ {n}
      /\ r.size[b] = a.size[b] + a.size[n] /\ \A c \in Blk(r) : c # b => r.size[c] = a.size[c]
  BY DEF Joined
<1>2. b \in Blk(a) /\ n \in Blk(a)
  BY <1>1, SoundFacts
<1>3. b \in Nat /\ n \in Nat /\ a.size[b] \in Nat /\ a.size[n] \in Nat /\ a.size[b] >= 64
  BY <1>2, SoundFacts
<1>4. Busy(r) = Busy(a)
  BY <1>1 DEF Busy
<1> QED BY <1>1, <1>3, <1>4

\* After the first Coalesce only the block before f can touch another, and only f.
LEMMA OneTouch ==
  ASSUME NEW a, Sound(a), Apart(a), NEW f \in Blk(a) \ Fr(a),
         NEW d, Sound(d), d.size = a.size, Fr(d) = Fr(a) \cup {f}, Blk(d) = Blk(a),
         NEW c, \/ c = d /\ \A x \in Fr(d) : f + d.size[f] # x
                \/ \E n : Joined(d, c, f, n)
  PROVE  \A x, y \in Fr(c) : x + c.size[x] = y => y = f /\ x = Before(a, f, 0)
<1> DEFINE p == Before(a, f, 0)
<1>0. /\ \A b \in Fr(a) : /\ b \in Nat /\ b > 0 /\ a.size[b] \in Nat /\ a.size[b] >= 64 /\ b \in Blk(a)
                          /\ a.levels[b] > 0
      /\ f \in Nat \ {0} /\ a.size[f] \in Nat /\ a.size[f] >= 64 /\ Levelled(a) /\ SideBySide(a) /\ f \in Fr(d)
  <2>1. Levelled(a)
    BY SoundFacts
  <2>2. \A b \in Fr(a) : b \in Nat /\ b > 0 /\ a.levels[b] > 0
    BY <2>1, LevelledFacts
  <2>3. \A b \in Fr(a) : b \in Blk(a) /\ a.size[b] \in Nat /\ a.size[b] >= 64
    BY SoundFacts
  <2> QED BY <2>1, <2>2, <2>3, SoundFacts
<1>1. \A b \in {Head} \cup Ahead(a, f, 0) : b <= p
  BY <1>0, BeforeFacts
<1>2. p < f /\ p \in Nat
  BY <1>0, BeforeFacts
<1> HIDE DEF p
<1>3. ASSUME NEW x \in Fr(a), x + a.size[x] = f PROVE x = p
  <2>1. x < f /\ x \in Ahead(a, f, 0)
    BY <1>0, <1>3 DEF Ahead
  <2>2. x <= p
    BY <1>1, <2>1
  <2>3. ASSUME x < p PROVE FALSE
    <3>1. p # Head /\ p \in Fr(a)
      <4>1. p \in {Head} \cup Ahead(a, f, 0)
        BY <1>0, BeforeFacts DEF p
      <4>2. p # Head
        BY <1>0, <2>3 DEF Head
      <4> QED BY <4>1, <4>2 DEF Ahead
    <3>2. x + a.size[x] <= p
      BY <1>0, <2>3, <3>1 DEF SideBySide
    <3> QED BY <1>2, <1>3, <3>2, <1>0
  <2> QED BY <1>0, <1>2, <2>2, <2>3
<1> SUFFICES ASSUME NEW x \in Fr(c), NEW y \in Fr(c), x + c.size[x] = y PROVE y = f /\ x = p
  BY DEF p
<1>4. CASE c = d /\ \A z \in Fr(d) : f + d.size[f] # z
  <2>1. x \in Fr(a)
    BY <1>4
  <2>2. y = f
    BY <1>4, <2>1 DEF Apart
  <2> QED BY <1>3, <1>4, <2>1, <2>2
<1>5. CASE \E n : Joined(d, c, f, n)
  <2>1. PICK n : Joined(d, c, f, n)
    BY <1>5
  <2>2. /\ n \in Fr(d) /\ n \in Nat /\ n > f /\ n = f + a.size[f] /\ a.size[n] \in Nat
        /\ Fr(c) = Fr(d) \ {n} /\ f \in Fr(c) /\ c.size[f] = a.size[f] + a.size[n]
        /\ \A z \in Blk(a) : z # f /\ z # n => c.size[z] = a.size[z]
    BY <1>0, <2>1, JoinedFacts
  <2>3. n \in Fr(a) /\ n # f
    BY <1>0, <2>2
  <2>4. CASE x = f
    <3>1. y = n + a.size[n] /\ y # f
      BY <1>0, <2>2, <2>4
    <3> QED BY <2>2, <2>3, <3>1 DEF Apart
  <2>5. CASE x # f
    <3>1. x \in Fr(a) /\ x # n /\ x \in Blk(a) /\ c.size[x] = a.size[x]
      BY <1>0, <2>2, <2>5
    <3>2. y = f
      BY <2>2, <3>1 DEF Apart
    <3> QED BY <1>3, <3>1, <3>2
  <2> QED BY <2>4, <2>5
<1> QED BY <1>4, <1>5

\* Only f is no longer held; the other held blocks are as they were.
Freed(a, r, f) == /\ Busy(r) = Busy(a) \ {f} /\ r.count = a.count
                  /\ \A b \in Busy(r) : r.size[b] = a.size[b]
                  /\ \E b \in Fr(r) : r.size[b] >= a.size[f]

LEMMA AddStep ==
  ASSUME NEW a, Sound(a), Apart(a), NEW f \in Blk(a) \ Fr(a), NEW random \in [1 .. 3 -> Nat \ {0}],
         NEW r, r = AddToFreelist(a, f, random)
  PROVE  Sound(r) /\ Apart(r) /\ Freed(a, r, f)
<1> DEFINE p == Search(a, f)[0]
           d == SkiplistInsert(a, f, SkiplistLevels(a.size[f], random[1]))
           c == Coalesce(d, f, random[2])
<1>1. r = Coalesce(c, p, random[3])
  BY DEF AddToFreelist
<1>2. random[1] \in Nat \ {0} /\ random[2] \in Nat \ {0} /\ random[3] \in Nat \ {0}
  OBVIOUS
<1>3. Sound(d) /\ d.size = a.size /\ d.count = a.count /\ Fr(d) = Fr(a) \cup {f} /\ Blk(d) = Blk(a)
  BY <1>2, FreeStep
<1>4. f \in Fr(d)
  BY <1>3
<1> HIDE DEF d
<1>5. /\ Sound(c) /\ c.count = d.count
      /\ \/ c = d /\ \A x \in Fr(d) : f + d.size[f] # x
         \/ \E n : Joined(d, c, f, n)
  BY <1>2, <1>3, <1>4, CoalesceStep
<1> HIDE DEF c
<1>6. f \in Nat \ {0} /\ a.size[f] \in Nat /\ Levelled(a) /\ Listed(a)
  BY SoundFacts
<1>7. p = Before(a, f, 0)
  <2>1. 0 \in 0 .. MaxLevel
    BY DEF MaxLevel
  <2> QED BY <1>6, <2>1, SearchIs
<1> HIDE DEF p
<1>8. \A x, y \in Fr(c) : x + c.size[x] = y => y = f /\ x = p
  BY <1>3, <1>5, <1>7, OneTouch
<1>9. /\ f \in Fr(c) /\ c.size[f] \in Nat /\ c.size[f] >= a.size[f] /\ Busy(c) = Busy(a) \ {f}
      /\ \A b \in Busy(c) : c.size[b] = a.size[b]
      /\ \A b \in Fr(a) : b < f => b \in Fr(c)
  <2>1. Busy(d) = Busy(a) \ {f}
    BY <1>3 DEF Busy
  <2>2. CASE c = d
    BY <1>3, <1>4, <1>6, <2>1, <2>2
  <2>3. CASE \E n : Joined(d, c, f, n)
    <3>1. PICK n : Joined(d, c, f, n)
      BY <2>3
    <3>2. /\ n \in Fr(d) /\ n \in Nat /\ n > f /\ n = f + d.size[f] /\ d.size[n] \in Nat
          /\ Fr(c) = Fr(d) \ {n} /\ f \in Fr(c) /\ c.size[f] = d.size[f] + d.size[n]
          /\ Busy(c) = Busy(d)
          /\ \A z \in Blk(d) : z # f /\ z # n => c.size[z] = d.size[z]
      BY <1>3, <1>4, <3>1, JoinedFacts
    <3>3. \A b \in Busy(c) : b \in Blk(d) /\ b # f /\ b # n
      BY <1>4, <3>2 DEF Busy
    <3>4. \A b \in Fr(a) : b < f => b \in Fr(c)
      <4>1. ASSUME NEW b \in Fr(a), b < f PROVE b \in Fr(c)
        <5>1. b \in Nat
          BY <1>6, LevelledFacts
        <5> QED BY <1>3, <1>6, <3>2, <4>1, <5>1
      <4> QED BY <4>1
    <3>5. \A b \in Busy(c) : c.size[b] = a.size[b]
      BY <1>3, <3>2, <3>3
    <3>6. c.size[f] \in Nat /\ c.size[f] >= a.size[f]
      BY <1>3, <1>6, <3>2
    <3> QED BY <2>1, <3>2, <3>4, <3>5, <3>6
  <2> QED BY <1>5, <2>2, <2>3
<1>10. p \in {Head} \cup Ahead(a, f, 0) /\ p < f /\ p \in Nat
  BY <1>6, <1>7, BeforeFacts
<1>11. CASE p = Head
  <2>1. r = c
    <3>1. Listed(c) /\ Levelled(c) /\ 0 \in Nat /\ c.size[Head] = 0
      BY <1>5, SoundFacts DEF Sound
    <3>2. LinkAt(c, Head, 0) = After(c, Head, 0)
      BY <3>1, LinkAtIs
    <3>3. LinkAt(c, Head, 0) = None \/ LinkAt(c, Head, 0) > 0
      <4>1. After(c, Head, 0) = None \/ After(c, Head, 0) \in Behind(c, Head, 0)
        BY <3>1, AfterFacts
      <4> QED BY <3>2, <4>1 DEF Behind, Head
    <3>4. ~(LinkAt(c, Head, 0) # None /\ Head + c.size[Head] = LinkAt(c, Head, 0))
      BY <3>1, <3>3 DEF Head, None
    <3> QED BY <1>1, <1>11, <3>4 DEF Coalesce
  <2>2. Apart(c)
    <3>1. Head \notin Fr(c)
      BY DEF Fr
    <3> QED BY <1>8, <1>11, <3>1 DEF Apart
  <2> QED BY <1>3, <1>5, <1>9, <2>1, <2>2 DEF Freed
<1>12. CASE p # Head
  <2>1. p \in Fr(c)
    BY <1>9, <1>10, <1>12 DEF Ahead
  <2>2. /\ Sound(r) /\ r.count = c.count
        /\ \/ r = c /\ \A x \in Fr(c) : p + c.size[p] # x
           \/ \E n : Joined(c, r, p, n)
    BY <1>1, <1>2, <1>5, <2>1, CoalesceStep
  <2>3. CASE r = c /\ \A x \in Fr(c) : p + c.size[p] # x
    <3>1. Apart(c)
      BY <1>8, <2>3 DEF Apart
    <3> QED BY <1>3, <1>5, <1>9, <2>3, <3>1 DEF Freed
  <2>4. CASE \E n : Joined(c, r, p, n)
    <3>1. PICK n : Joined(c, r, p, n)
      BY <2>4
    <3>2. /\ n \in Fr(c) /\ n \in Nat /\ n > p /\ n = p + c.size[p] /\ c.size[n] \in Nat
          /\ Fr(r) = Fr(c) \ {n} /\ p \in Fr(r) /\ r.size[p] = c.size[p] + c.size[n]
          /\ Busy(r) = Busy(c)
          /\ \A z \in Blk(c) : z # p /\ z # n => r.size[z] = c.size[z]
      BY <1>5, <2>1, <3>1, JoinedFacts
    <3>3. n = f
      BY <1>8, <2>1, <3>2
    <3>4. p \in Blk(c) /\ c.size[p] \in Nat /\ \A x \in Fr(c) : x \in Blk(c)
      BY <1>5, <2>1, SoundFacts
    <3>5. Apart(r)
      <4> SUFFICES ASSUME NEW x \in Fr(r), NEW y \in Fr(r), x + r.size[x] = y PROVE FALSE
        BY DEF Apart
      <4>1. x \in Fr(c) /\ y \in Fr(c) /\ x # f /\ y # f
        BY <3>2, <3>3
      <4>2. CASE x = p
        <5>1. f + c.size[f] = y
          BY <1>6, <1>9, <1>10, <3>2, <3>3, <3>4, <4>2
        <5> QED BY <1>8, <1>9, <4>1, <5>1
      <4>3. CASE x # p
        <5>1. r.size[x] = c.size[x]
          BY <3>2, <3>3, <3>4, <4>1, <4>3
        <5> QED BY <1>8, <4>1, <5>1
      <4> QED BY <4>2, <4>3
    <3>6. r.size[p] \in Nat /\ r.size[p] >= a.size[f]
      BY <1>6, <1>9, <3>2, <3>3, <3>4
    <3>7. \A b \in Busy(r) : r.size[b] = a.size[b]
      <4>1. \A b \in Busy(c) : b \in Blk(c) /\ b # p /\ b # n
        BY <2>1, <3>2 DEF Busy
      <4> QED BY <1>9, <3>2, <4>1
    <3> QED BY <1>3, <1>5, <1>9, <2>2, <3>2, <3>5, <3>6, <3>7 DEF Freed
  <2> QED BY <2>2, <2>3, <2>4
<1> QED BY <1>11, <1>12

-----------------------------------------------------------------------------
(* First fit. *)

Large(a, q, size) == {b \in Fr(a) : b > q /\ a.size[b] >= size}
FirstLarge(a, q, size) == IF Large(a, q, size) = {} THEN None ELSE Min(Large(a, q, size))
Fit(f, a, i, size) ==
  f = [p \in OnLevel(a, i) |->
        IF a.next[p][i] = None \/ a.size[a.next[p][i]] >= size THEN a.next[p][i] ELSE f[a.next[p][i]]]

\* Every block that is large enough is on the level the search looks at.
LEMMA LargeAreBehind ==
  ASSUME NEW a, Sound(a), NEW size, Fits(size), NEW q \in Nat
  PROVE  Large(a, q, size) \subseteq Behind(a, q, SkiplistLevels(size, 1) - 1)
<1>1. SkiplistLevels(size, 1) \in Level
  <2>1. 1 \in Nat \ {0}
    OBVIOUS
  <2> QED BY <2>1, LevelFacts
<1>2. ASSUME NEW b \in Large(a, q, size) PROVE b \in Behind(a, q, SkiplistLevels(size, 1) - 1)
  <2>1. b \in Fr(a) /\ b > q /\ a.size[b] >= size
    BY DEF Large
  <2>2. Fits(a.size[b]) /\ a.levels[b] \in Level /\ SkiplistLevels(a.size[b], 1) <= a.levels[b]
    BY <2>1, SoundFacts DEF LevelsFit
  <2>3. 1 \in Nat \ {0} /\ size <= a.size[b]
    BY <2>1, <2>2 DEF Fits
  <2>4. SkiplistLevels(a.size[b], 1) \in Level /\ SkiplistLevels(size, 1) <= SkiplistLevels(a.size[b], 1)
    BY <2>2, <2>3, LevelFacts
  <2>5. SkiplistLevels(size, 1) - 1 < a.levels[b]
    BY <1>1, <2>2, <2>4 DEF Level, MaxLevel
  <2> QED BY <2>1, <2>5 DEF Behind
<1> QED BY <1>2

\* One step of the search passes no block that is large enough.
LEMMA FitStep ==
  ASSUME NEW a, Sound(a), NEW size, Fits(size), NEW i, i = SkiplistLevels(size, 1) - 1, i \in Nat,
         NEW q \in OnLevel(a, i), NEW n, n = a.next[q][i]
  PROVE  /\ n = None \/ a.size[n] >= size => FirstLarge(a, q, size) = n
         /\ ~(n = None \/ a.size[n] >= size)
              => /\ n \in OnLevel(a, i) /\ n > q /\ n \in Fr(a) /\ q \in Nat /\ n \in Nat
                 /\ FirstLarge(a, q, size) = FirstLarge(a, n, size)
<1> DEFINE B == Behind(a, q, i)
           L == Large(a, q, size)
<1>0. /\ Levelled(a) /\ Listed(a) /\ DOMAIN a.next = DOMAIN a.levels
      /\ \A b \in Fr(a) : b \in Nat /\ b > 0 /\ a.size[b] \in Nat /\ b \in DOMAIN a.levels
  <2>1. Levelled(a) /\ Listed(a) /\ DOMAIN a.next = DOMAIN a.levels
    BY SoundFacts
  <2>2. \A b \in Fr(a) : b \in Nat /\ b > 0 /\ b \in DOMAIN a.levels
    BY <2>1, LevelledFacts
  <2>3. \A b \in Fr(a) : a.size[b] \in Nat
    BY SoundFacts
  <2> QED BY <2>1, <2>2, <2>3
<1>1. n = After(a, q, i) /\ q \in Nat
  BY <1>0, NextIs
<1>2. \/ n = None /\ B = {}
      \/ n \in B /\ \A b \in B : n <= b
  BY <1>0, <1>1, AfterFacts
<1>3. L \subseteq B /\ \A b \in B : b \in Fr(a) /\ b > q /\ b \in Nat /\ a.levels[b] > i /\ b # None
  <2>1. L \subseteq B
    BY <1>1, LargeAreBehind
  <2> QED BY <1>0, <2>1 DEF Behind, None
<1>4. CASE n = None
  <2>1. L = {}
    BY <1>2, <1>3, <1>4
  <2> QED BY <1>4, <2>1 DEF FirstLarge
<1>5. CASE n # None /\ a.size[n] >= size
  <2>1. n \in L
    BY <1>2, <1>3, <1>5 DEF Large
  <2>2. \A b \in L : n <= b
    BY <1>2, <1>3, <1>5
  <2>3. L \subseteq Int
    BY <1>3
  <2> HIDE DEF L
  <2>4. Min(L) = n
    BY <2>1, <2>2, <2>3, MinIs
  <2>5. FirstLarge(a, q, size) = n
    BY <2>1, <2>4 DEF FirstLarge, L
  <2> QED BY <1>5, <2>5
<1>6. CASE n # None /\ ~(a.size[n] >= size)
  <2>1. n \in B /\ \A b \in B : n <= b
    BY <1>2, <1>6
  <2>2. n \in Fr(a) /\ n > q /\ n \in Nat /\ a.levels[n] > i
    BY <1>3, <2>1
  <2>3. n \in OnLevel(a, i)
    <3>1. a.levels[n] \in Nat
      BY <1>0, <2>2, LevelledFacts
    <3> QED BY <1>0, <2>2, <3>1 DEF OnLevel
  <2>4. L = Large(a, n, size)
    <3>1. ASSUME NEW b PROVE b \in L <=> b \in Large(a, n, size)
      <4>1. CASE b \in L
        <5>1. b \in B /\ b \in Fr(a) /\ a.size[b] >= size
          BY <1>3, <4>1 DEF Large
        <5>2. n <= b /\ b \in Nat /\ b # n
          BY <1>3, <1>6, <2>1, <5>1
        <5>3. b > n
          BY <2>2, <5>2
        <5> QED BY <4>1, <5>1, <5>3 DEF Large
      <4>2. CASE b \in Large(a, n, size)
        <5>1. b \in Fr(a) /\ b > n /\ a.size[b] >= size
          BY <4>2 DEF Large
        <5>2. b > q
          BY <1>0, <1>1, <2>2, <5>1
        <5> QED BY <4>2, <5>1, <5>2 DEF Large
      <4> QED BY <4>1, <4>2
    <3> QED BY <3>1
  <2>5. FirstLarge(a, q, size) = FirstLarge(a, n, size)
    BY <2>4 DEF FirstLarge
  <2> QED BY <1>1, <1>6, <2>2, <2>3, <2>5
<1> QED BY <1>4, <1>5, <1>6

\* The search finds the first free block that is large enough.
LEMMA FirstFitIs ==
  ASSUME NEW a, Sound(a), NEW size, Fits(size)
  PROVE  FirstFit(a, size) = FirstLarge(a, Head, size)
<1> DEFINE i == SkiplistLevels(size, 1) - 1
           V(f, p) == IF a.next[p][i] = None \/ a.size[a.next[p][i]] >= size THEN a.next[p][i]
                      ELSE f[a.next[p][i]]
           w == [p \in OnLevel(a, i) |-> FirstLarge(a, p, size)]
           g == CHOOSE f : Fit(f, a, i, size)
           Go(p) == ~(a.next[p][i] = None \/ a.size[a.next[p][i]] >= size)
<1>0. /\ i \in Nat /\ Levelled(a) /\ Listed(a) /\ Head \in DOMAIN a.levels /\ a.levels[Head] \in Nat
      /\ DOMAIN a.next = DOMAIN a.levels /\ Head \in Nat
  <2>1. SkiplistLevels(size, 1) \in Level
    <3>1. 1 \in Nat \ {0}
      OBVIOUS
    <3> QED BY <3>1, LevelFacts
  <2>2. i \in Nat
    BY <2>1 DEF Level, MaxLevel
  <2>3. Levelled(a) /\ Listed(a) /\ DOMAIN a.next = DOMAIN a.levels
    BY SoundFacts
  <2> QED BY <2>2, <2>3, LevelledFacts DEF Head
<1>1. FirstFit(a, size) = IF i < a.levels[Head] THEN g[Head] ELSE None
  BY DEF FirstFit, Fit
<1>2. ASSUME NEW p \in OnLevel(a, i)
      PROVE  /\ ~Go(p) => FirstLarge(a, p, size) = a.next[p][i]
             /\ Go(p) => /\ a.next[p][i] \in OnLevel(a, i) /\ a.next[p][i] > p /\ a.next[p][i] \in Fr(a)
                         /\ p \in Nat /\ a.next[p][i] \in Nat
                         /\ FirstLarge(a, p, size) = FirstLarge(a, a.next[p][i], size)
  <2> DEFINE n == a.next[p][i]
  <2>1. n = a.next[p][i] /\ i = SkiplistLevels(size, 1) - 1
    OBVIOUS
  <2> HIDE DEF n, i
  <2> QED BY <1>0, <2>1, FitStep
<1> HIDE DEF i
<1>3. Fit(w, a, i, size)
  <2>1. ASSUME NEW p \in OnLevel(a, i) PROVE w[p] = V(w, p)
    <3>1. CASE Go(p)
      <4>1. V(w, p) = w[a.next[p][i]]
        BY <3>1
      <4> HIDE DEF Go, V
      <4> QED BY <1>2, <3>1, <4>1
    <3>2. CASE ~Go(p)
      <4>1. V(w, p) = a.next[p][i]
        BY <3>2
      <4> HIDE DEF Go, V
      <4> QED BY <1>2, <3>2, <4>1
    <3> QED BY <3>1, <3>2
  <2>2. w = [p \in OnLevel(a, i) |-> w[p]]
    OBVIOUS
  <2>3. w = [p \in OnLevel(a, i) |-> V(w, p)]
    <3> HIDE DEF w, V
    <3> QED BY <2>1, <2>2
  <2> HIDE DEF w
  <2> QED BY <2>3 DEF Fit
<1>4. Fit(g, a, i, size)
  <2> HIDE DEF w
  <2> QED BY <1>3
<1> HIDE DEF g, w
<1>5. ASSUME NEW p \in OnLevel(a, i) PROVE g[p] = V(g, p)
  BY <1>4 DEF Fit
<1> DEFINE Bad == {p \in OnLevel(a, i) : g[p] # FirstLarge(a, p, size)}
<1>6. Bad = {}
  <2> SUFFICES ASSUME Bad # {} PROVE FALSE
    OBVIOUS
  <2>1. PICK m \in Nat : \A b \in Fr(a) : b <= m
    BY <1>0 DEF Levelled
  <2>2. Bad \subseteq Nat /\ \A p \in Bad : p <= m
    <3>1. ASSUME NEW p \in Bad PROVE p \in Nat /\ p <= m
      <4>1. p \in DOMAIN a.levels
        BY <1>0, NextIs
      <4>2. p \in Nat /\ (p = Head \/ p \in Fr(a))
        BY <1>0, <4>1, LevelledFacts
      <4> QED BY <2>1, <4>2 DEF Head
    <3> QED BY <3>1
  <2>3. PICK p \in Bad : \A q \in Bad : q <= p
    <3> HIDE DEF Bad
    <3> QED BY <2>1, <2>2, GreatestNumber
  <2>4. CASE Go(p)
    <3>1. /\ a.next[p][i] \in OnLevel(a, i) /\ a.next[p][i] > p /\ p \in Nat /\ a.next[p][i] \in Nat
          /\ FirstLarge(a, p, size) = FirstLarge(a, a.next[p][i], size)
      BY <1>2, <2>4
    <3>2. a.next[p][i] \notin Bad
      BY <2>3, <3>1
    <3>3. g[p] = g[a.next[p][i]]
      BY <1>5, <2>4
    <3> QED BY <3>1, <3>2, <3>3
  <2>5. CASE ~Go(p)
    <3>1. g[p] = a.next[p][i]
      BY <1>5, <2>5
    <3>2. FirstLarge(a, p, size) = a.next[p][i]
      BY <1>2, <2>5
    <3> QED BY <3>1, <3>2
  <2> QED BY <2>4, <2>5
<1>7. CASE i < a.levels[Head]
  <2>1. Head \in OnLevel(a, i)
    BY <1>0, <1>7 DEF OnLevel
  <2> QED BY <1>1, <1>6, <1>7, <2>1
<1>8. CASE ~(i < a.levels[Head])
  <2>1. Large(a, Head, size) \subseteq Behind(a, Head, i)
    BY <1>0, LargeAreBehind DEF i
  <2>2. Behind(a, Head, i) = {}
    <3>1. \A b \in Fr(a) : a.levels[b] \in Nat /\ a.levels[b] <= a.levels[Head]
      BY <1>0, LevelledFacts
    <3> QED BY <1>0, <1>8, <3>1 DEF Behind
  <2>3. FirstLarge(a, Head, size) = None
    BY <2>1, <2>2 DEF FirstLarge
  <2> QED BY <1>1, <1>8, <2>3
<1> QED BY <1>7, <1>8

\* What it finds is free and large enough, if there is such a block.
LEMMA FoundIs ==
  ASSUME NEW a, Sound(a), NEW size, Fits(size)
  PROVE  \/ FirstFit(a, size) = None /\ \A b \in Fr(a) : ~(a.size[b] >= size)
         \/ FirstFit(a, size) \in Fr(a) /\ a.size[FirstFit(a, size)] >= size /\ FirstFit(a, size) # None
<1> DEFINE L == Large(a, Head, size)
<1>1. FirstFit(a, size) = IF L = {} THEN None ELSE Min(L)
  BY FirstFitIs DEF FirstLarge
<1>2. \A b \in Fr(a) : b \in Nat /\ b > 0
  BY SoundFacts, LevelledFacts
<1>3. L = {b \in Fr(a) : a.size[b] >= size}
  BY <1>2 DEF Large, Head
<1>4. CASE L = {}
  BY <1>1, <1>3, <1>4
<1>5. CASE L # {}
  <2>1. L \subseteq Nat
    BY <1>2, <1>3
  <2>2. Min(L) \in L
    <3> HIDE DEF L
    <3> QED BY <1>5, <2>1, MinFacts
  <2> QED BY <1>1, <1>2, <1>3, <1>5, <2>2 DEF None
<1> QED BY <1>4, <1>5

-----------------------------------------------------------------------------
(* Taking a block: a rest that is worth a block is free again. *)

LEMMA DropStep ==
  ASSUME NEW a, Sound(a), Apart(a), NEW s \in Fr(a), NEW r, r = SkiplistDelete(a, s)
  PROVE  /\ Sound(r) /\ Apart(r) /\ r.size = a.size /\ r.count = a.count
         /\ Fr(r) = Fr(a) \ {s} /\ Blk(r) = Blk(a)
<1>1. Record(r) /\ r.size = a.size /\ r.count = a.count /\ Listed(r) /\ OneLess(a, r, s)
  BY SoundFacts, DeleteStep
<1>2. Fr(r) = Fr(a) \ {s} /\ Blk(r) = Blk(a) /\ \A b \in Fr(r) : r.levels[b] = a.levels[b]
  BY <1>1 DEF OneLess, Blk
<1>3. Granular(r) /\ SideBySide(r)
  BY <1>1, <1>2 DEF Sound, Granular, SideBySide
<1>4. LevelsFit(r)
  BY <1>1, <1>2, SoundFacts DEF LevelsFit
<1>5. Head \in DOMAIN r.size /\ r.size[Head] = 0 /\ Fr(r) \subseteq Blk(r)
  BY <1>1, <1>2 DEF Sound
<1>6. Apart(r)
  BY <1>1, <1>2 DEF Apart
<1> QED BY <1>1, <1>2, <1>3, <1>4, <1>5, <1>6 DEF Sound

\* The sizes sz once s is cut after size bytes, before rest.
Cut(a, sz, s, size, rest) == sz = With([a.size EXCEPT ![s] = size], rest, a.size[s] - size)

LEMMA CutStep ==
  ASSUME NEW a, Sound(a), Apart(a), NEW s \in Blk(a) \ Fr(a), NEW size, Fits(size), size % Header = 0,
         size + MinSize <= a.size[s], NEW rest, rest = s + size,
         NEW r, Record(r), r.levels = a.levels, r.next = a.next, Cut(a, r.size, s, size, rest)
  PROVE  /\ Sound(r) /\ Apart(r) /\ Fr(r) = Fr(a) /\ rest \notin Blk(a) /\ Blk(r) = Blk(a) \cup {rest}
         /\ r.size[s] = size /\ \A b \in Blk(a) : b # s => r.size[b] = a.size[b]
<1>0. /\ \A b \in Blk(a) : b \in Nat \ {0} /\ a.size[b] \in Nat /\ a.size[b] >= 64 /\ a.size[b] % 32 = 0
      /\ SideBySide(a) /\ LevelsFit(a) /\ Listed(a) /\ Fr(a) \subseteq Blk(a)
      /\ Head \in DOMAIN a.size /\ a.size[Head] = 0 /\ s \in Blk(a) /\ s # Head
  BY SoundFacts DEF Sound, Blk
<1>1. size \in Nat /\ size >= 64 /\ size % 32 = 0 /\ size + 64 <= a.size[s] /\ rest \in Nat \ {0} /\ rest > s
  BY <1>0 DEF Fits, MinSize, Header
<1>2. rest \notin Blk(a) /\ rest # Head
  <2>1. ASSUME rest \in Blk(a) PROVE FALSE
    <3>1. s + a.size[s] <= rest
      BY <1>0, <1>1, <2>1 DEF SideBySide
    <3> QED BY <1>0, <1>1, <3>1
  <2> QED BY <1>1, <2>1 DEF Head
<1>3. /\ Blk(r) = Blk(a) \cup {rest} /\ r.size[s] = size /\ r.size[rest] = a.size[s] - size
      /\ \A b \in Blk(a) : b # s => r.size[b] = a.size[b]
      /\ Head \in DOMAIN r.size /\ r.size[Head] = 0
  BY <1>0, <1>1, <1>2 DEF Cut, With, Blk
<1>4. Listed(r) /\ Fr(r) = Fr(a)
  BY <1>0, SizesDoNotMatter
<1>5. \A b \in Fr(a) : b \in Blk(a) /\ b # s /\ r.size[b] = a.size[b]
  BY <1>0, <1>3
<1>6. Apart(r)
  BY <1>4, <1>5 DEF Apart
<1>7. LevelsFit(r)
  BY <1>0, <1>4, <1>5 DEF LevelsFit
<1>8. Granular(r)
  <2>1. ASSUME NEW b \in Blk(r) PROVE b \in Nat \ {0} /\ Fits(r.size[b]) /\ r.size[b] % Header = 0
    <3>1. CASE b = rest
      <4>1. a.size[s] \in Nat /\ a.size[s] % 32 = 0 /\ a.size[s] - size \in Nat /\ a.size[s] - size >= 64
        BY <1>0, <1>1
      <4>2. (a.size[s] - size) % 32 = 0
        BY <1>1, <4>1
      <4> QED BY <1>1, <1>3, <3>1, <4>1, <4>2 DEF Fits, MinSize, Header
    <3>2. CASE b = s
      BY <1>0, <1>1, <1>3, <3>2 DEF Fits, MinSize, Header
    <3>3. CASE b \in Blk(a) /\ b # s
      <4>1. b \in Nat \ {0} /\ a.size[b] \in Nat /\ a.size[b] >= 64 /\ a.size[b] % 32 = 0
        BY <1>0, <3>3
      <4> QED BY <1>3, <3>3, <4>1 DEF Fits, MinSize, Header
    <3> QED BY <1>3, <3>1, <3>2, <3>3
  <2> QED BY <2>1 DEF Granular
<1>9. SideBySide(r)
  <2> SUFFICES ASSUME NEW b \in Blk(r), NEW c \in Blk(r), b < c PROVE b + r.size[b] <= c
    BY DEF SideBySide
  <2>0. /\ s \in Nat /\ a.size[s] \in Nat /\ size \in Nat /\ size <= a.size[s] /\ rest \in Nat /\ s < rest
        /\ rest = s + size /\ s \in Blk(a) /\ rest < s + a.size[s]
        /\ \A d \in Blk(a) : d \in Nat /\ a.size[d] \in Nat
    BY <1>0, <1>1
  <2>1. CASE b \in Blk(a) /\ c \in Blk(a)
    <3>1. b + a.size[b] <= c /\ b \in Nat /\ c \in Nat /\ a.size[b] \in Nat
      BY <1>0, <2>1 DEF SideBySide
    <3>2. CASE b = s
      BY <1>3, <2>0, <3>1, <3>2
    <3>3. CASE b # s
      BY <1>3, <2>1, <3>1, <3>3
    <3> QED BY <3>2, <3>3
  <2>2. CASE b = rest /\ c \in Blk(a)
    <3>1. s < c
      BY <2>0, <2>2
    <3>2. s + a.size[s] <= c
      BY <1>0, <2>2, <3>1 DEF SideBySide
    <3> QED BY <1>3, <2>0, <2>2, <3>2
  <2>3. CASE c = rest /\ b \in Blk(a)
    <3>1. CASE b = s
      BY <1>3, <2>0, <2>3, <3>1
    <3>2. CASE b # s
      <4>1. b < s
        <5>1. ASSUME s < b PROVE FALSE
          <6>1. s + a.size[s] <= b
            BY <1>0, <2>3, <5>1 DEF SideBySide
          <6>2. rest < s + a.size[s] /\ s + a.size[s] <= b /\ b < rest
            BY <2>0, <2>3, <6>1
          <6> QED BY <2>0, <2>3, <6>2
        <5>2. b \in Nat /\ s \in Nat /\ b # s /\ ~(s < b)
          BY <2>0, <2>3, <3>2, <5>1
        <5> QED BY <5>2
      <4>2. b + a.size[b] <= s
        BY <1>0, <2>3, <4>1 DEF SideBySide
      <4>3. r.size[b] = a.size[b]
        BY <1>3, <2>3, <3>2
      <4> QED BY <2>0, <2>3, <4>2, <4>3
    <3> QED BY <3>1, <3>2
  <2>4. CASE b = rest /\ c = rest
    BY <1>1, <2>4
  <2> QED BY <1>3, <2>1, <2>2, <2>3, <2>4
<1> QED BY <1>2, <1>3, <1>4, <1>6, <1>7, <1>8, <1>9 DEF Sound

\* Only s has become a held block; the other held ones are as they were.
Taken(a, r, s, size) == /\ Busy(r) = Busy(a) \cup {s} /\ r.count = a.count
                        /\ r.size[s] >= size /\ \A b \in Busy(a) : r.size[b] = a.size[b]

LEMMA TakeStep ==
  ASSUME NEW a, Sound(a), Apart(a), NEW s \in Fr(a), NEW size, Fits(size), size % Header = 0,
         a.size[s] >= size, NEW random \in [1 .. 3 -> Nat \ {0}],
         NEW r, r = Take(a, s, size, random)
  PROVE  Sound(r) /\ Apart(r) /\ Taken(a, r, s, size)
<1> DEFINE t == SkiplistDelete(a, s)
           rest == s + size
           cut == [t EXCEPT !.size = With([t.size EXCEPT ![s] = size], rest, a.size[s] - size)]
<1>1. r = IF size + MinSize <= a.size[s] THEN AddToFreelist(cut, rest, random) ELSE t
  BY DEF Take
<1>2. Sound(t) /\ Apart(t) /\ t.size = a.size /\ t.count = a.count /\ Fr(t) = Fr(a) \ {s} /\ Blk(t) = Blk(a)
  BY DropStep
<1> HIDE DEF t
<1>3. s \in Blk(a) /\ s \in Blk(t) \ Fr(t) /\ Busy(t) = Busy(a) \cup {s} /\ s \notin Busy(a)
  <2>1. s \in Blk(a)
    BY SoundFacts
  <2> QED BY <1>2, <2>1 DEF Busy
<1>4. CASE ~(size + MinSize <= a.size[s])
  <2>1. r = t
    BY <1>1, <1>4
  <2> QED BY <1>2, <1>3, <2>1 DEF Taken
<1>5. CASE size + MinSize <= a.size[s]
  <2>1. /\ Record(cut) /\ cut.levels = t.levels /\ cut.next = t.next /\ cut.count = a.count
        /\ Cut(t, cut.size, s, size, rest)
    <3>1. Record(t)
      BY <1>2, SoundFacts
    <3> QED BY <1>2, <3>1 DEF Record, Cut
  <2>2. r = AddToFreelist(cut, rest, random)
    BY <1>1, <1>5
  <2> HIDE DEF cut
  <2>3. /\ Sound(cut) /\ Apart(cut) /\ Fr(cut) = Fr(t) /\ rest \notin Blk(t) /\ Blk(cut) = Blk(t) \cup {rest}
        /\ cut.size[s] = size /\ \A b \in Blk(t) : b # s => cut.size[b] = t.size[b]
    BY <1>2, <1>3, <1>5, <2>1, CutStep
  <2> HIDE DEF rest
  <2>4. rest \in Blk(cut) \ Fr(cut)
    <3>1. Fr(t) \subseteq Blk(t)
      BY <1>2, SoundFacts
    <3> QED BY <2>3, <3>1
  <2>5. Sound(r) /\ Apart(r) /\ Freed(cut, r, rest)
    BY <2>2, <2>3, <2>4, AddStep
  <2>6. Busy(cut) = Busy(t) \cup {rest} /\ rest \notin Busy(t)
    BY <2>3, <2>4 DEF Busy
  <2>7. /\ Busy(r) = Busy(t) /\ r.count = a.count
        /\ \A b \in Busy(r) : r.size[b] = cut.size[b]
    BY <2>1, <2>5, <2>6 DEF Freed
  <2>8. \A b \in Busy(a) : b \in Blk(t) /\ b # s /\ b \in Busy(r)
    BY <1>2, <1>3, <2>7 DEF Busy
  <2>9. size >= size
    BY DEF Fits
  <2> QED BY <1>2, <1>3, <2>3, <2>5, <2>7, <2>8, <2>9 DEF Taken
<1> QED BY <1>4, <1>5

-----------------------------------------------------------------------------
(* The states of the specification. *)

ArenaInv == /\ Sound(arena) /\ Apart(arena)
            /\ DOMAIN given = Busy(arena) /\ IsFiniteSet(DOMAIN given)
            /\ arena.count = Cardinality(DOMAIN given)
            /\ \A b \in DOMAIN given : given[b] + Header <= arena.size[b]

LEMMA RoundUpFacts ==
  ASSUME NEW n \in Nat \ {0}, NEW m \in Nat \ {0}
  PROVE  \E k \in Nat : RoundUp(n, m) = k * m /\ RoundUp(n, m) >= n
<1> DEFINE x == n + m - 1
           k == x \div m
<1>1. x \in Nat
  OBVIOUS
<1>2. x % m \in 0 .. m - 1 /\ k \in Nat /\ x = m * k + (x % m)
  <2> HIDE DEF x
  <2> QED BY <1>1, Division
<1>3. RoundUp(n, m) = k * m
  BY DEF RoundUp
<1> HIDE DEF k
<1>4. k * m = m * k /\ m * k \in Int
  BY <1>2
<1> DEFINE y == m * k
           z == x % m
<1>5. y \in Int /\ z \in Int /\ z <= m - 1 /\ n + m - 1 = y + z
  BY <1>2, <1>4
<1> HIDE DEF y, z, x
<1>6. y >= n
  BY <1>5
<1> QED BY <1>2, <1>3, <1>4, <1>6 DEF y

\* The size of a block for a request.
LEMMA SizeFacts ==
  ASSUME NEW asked \in Request, NEW size, size = RoundUp(asked + Header, Header)
  PROVE  Fits(size) /\ size % Header = 0 /\ asked \in Nat /\ size >= asked + Header
<1>1. asked \in Nat \ {0} /\ asked + 32 \in Nat \ {0} /\ 32 \in Nat \ {0}
  BY RequestAssumption
<1>2. PICK k \in Nat : size = k * 32 /\ size >= asked + 32
  BY <1>1, RoundUpFacts DEF Header
<1>3. size \in Nat /\ size % 32 = 0 /\ size >= 64
  BY <1>1, <1>2
<1> QED BY <1>1, <1>2, <1>3 DEF Fits, Header, MinSize

\* The size of the pages mapped for it.
LEMMA PagesFacts ==
  ASSUME NEW size, Fits(size), NEW pages, pages = RoundUp(size, Chunk)
  PROVE  Fits(pages) /\ pages % Header = 0 /\ pages >= size
<1>1. Chunk \in Nat \ {0} /\ Chunk % 32 = 0 /\ size \in Nat \ {0} /\ size >= 64
  BY BoundsAssumption DEF Fits, Header, MinSize
<1>2. PICK k \in Nat : pages = k * Chunk /\ pages >= size
  BY <1>1, RoundUpFacts
<1>3. PICK c \in Nat : Chunk = 32 * c
  <2>1. Chunk = 32 * (Chunk \div 32) /\ Chunk \div 32 \in Nat
    BY <1>1
  <2> QED BY <2>1
<1>4. pages = 32 * (k * c) /\ k * c \in Nat
  BY <1>2, <1>3
<1> DEFINE d == k * c
<1>5. d \in Nat /\ pages = 32 * d
  BY <1>4
<1> HIDE DEF d
<1>6. pages \in Nat /\ pages % 32 = 0
  BY <1>5
<1> QED BY <1>1, <1>2, <1>6 DEF Fits, Header, MinSize

\* r is a with a newly mapped block.
Mapped(a, r, at, pages) == r = [a EXCEPT !.size = With(@, at, pages)]

LEMMA MapStep ==
  ASSUME NEW a, Sound(a), Apart(a), NEW pages, Fits(pages), pages % Header = 0, NEW at \in Nat \ {0},
         \A b \in Blk(a) : b + a.size[b] <= at \/ at + pages <= b,
         NEW r, Mapped(a, r, at, pages)
  PROVE  /\ Sound(r) /\ Apart(r) /\ at \in Blk(r) \ Fr(r) /\ Busy(r) = Busy(a) \cup {at} /\ at \notin Busy(a)
         /\ r.size[at] = pages /\ r.count = a.count /\ \A b \in Busy(a) : r.size[b] = a.size[b]
<1>0. /\ \A b \in Blk(a) : b \in Nat \ {0} /\ a.size[b] \in Nat /\ a.size[b] >= 64
      /\ SideBySide(a) /\ LevelsFit(a) /\ Listed(a) /\ Record(a) /\ Fr(a) \subseteq Blk(a)
      /\ Head \in DOMAIN a.size /\ a.size[Head] = 0 /\ at # Head
      /\ pages \in Nat /\ pages >= 64
  BY SoundFacts DEF Sound, Head, Fits, MinSize, Header
<1>1. at \notin Blk(a)
  BY <1>0
<1>2. /\ Record(r) /\ r.levels = a.levels /\ r.next = a.next /\ r.count = a.count
      /\ r.size = With(a.size, at, pages)
  BY <1>0 DEF Record, Mapped
<1>3. Listed(r) /\ Fr(r) = Fr(a)
  BY <1>0, <1>2, SizesDoNotMatter
<1>4. /\ Blk(r) = Blk(a) \cup {at} /\ r.size[at] = pages
      /\ \A b \in Blk(a) : b # at /\ r.size[b] = a.size[b]
      /\ Head \in DOMAIN r.size /\ r.size[Head] = 0
  BY <1>0, <1>1, <1>2 DEF With, Blk
<1>5. Granular(r)
  BY <1>4, SoundFacts DEF Granular
<1>6. SideBySide(r)
  <2> SUFFICES ASSUME NEW b \in Blk(r), NEW c \in Blk(r), b < c PROVE b + r.size[b] <= c
    BY DEF SideBySide
  <2>1. CASE b \in Blk(a) /\ c \in Blk(a)
    BY <1>0, <1>4, <2>1 DEF SideBySide
  <2>2. CASE b = at /\ c \in Blk(a)
    <3>1. c \in Nat /\ a.size[c] \in Nat /\ (c + a.size[c] <= at \/ at + pages <= c)
      BY <1>0, <2>2
    <3> QED BY <1>4, <2>2, <3>1
  <2>3. CASE c = at /\ b \in Blk(a)
    <3>1. b \in Nat /\ a.size[b] \in Nat /\ (b + a.size[b] <= at \/ at + pages <= b)
      BY <1>0, <2>3
    <3> QED BY <1>0, <1>4, <2>3, <3>1
  <2> QED BY <1>4, <2>1, <2>2, <2>3
<1>7. LevelsFit(r)
  <2>1. \A b \in Fr(a) : r.size[b] = a.size[b]
    BY <1>0, <1>4
  <2> QED BY <1>0, <1>2, <1>3, <2>1 DEF LevelsFit
<1>8. Apart(r)
  <2>1. \A b \in Fr(a) : r.size[b] = a.size[b]
    BY <1>0, <1>4
  <2> QED BY <1>3, <2>1 DEF Apart
<1>9. Sound(r)
  BY <1>0, <1>2, <1>3, <1>4, <1>5, <1>6, <1>7 DEF Sound
<1>10. /\ at \in Blk(r) \ Fr(r) /\ Busy(r) = Busy(a) \cup {at} /\ at \notin Busy(a)
       /\ \A b \in Busy(a) : r.size[b] = a.size[b]
  BY <1>0, <1>1, <1>3, <1>4 DEF Busy
<1> QED BY <1>2, <1>4, <1>8, <1>9, <1>10

\* The blocks do not know how many are held.
LEMMA Recount ==
  ASSUME NEW a, Sound(a), Apart(a), NEW k, NEW r, r = [a EXCEPT !.count = k]
  PROVE  Sound(r) /\ Apart(r) /\ Busy(r) = Busy(a) /\ r.size = a.size /\ r.count = k
<1>1. Record(r) /\ r.size = a.size /\ r.levels = a.levels /\ r.next = a.next /\ r.count = k
  BY DEF Sound, Record
<1>2. Listed(r) /\ Fr(r) = Fr(a) /\ Blk(r) = Blk(a)
  BY <1>1, SizesDoNotMatter DEF Sound, Blk
<1>3. Granular(r) /\ SideBySide(r) /\ LevelsFit(r)
  BY <1>1, <1>2 DEF Sound, Granular, SideBySide, LevelsFit
<1>4. Apart(r) /\ Busy(r) = Busy(a)
  BY <1>1, <1>2 DEF Apart, Busy
<1> QED BY <1>1, <1>2, <1>3, <1>4 DEF Sound

LEMMA RandomFacts == Random \subseteq [1 .. 3 -> Nat \ {0}]
BY BoundsAssumption DEF Random

LEMMA ArenaInvInit == Init => ArenaInv
<1> SUFFICES ASSUME Init PROVE ArenaInv
  OBVIOUS
<1>1. /\ arena.size = [b \in {Head} |-> 0] /\ arena.levels = [b \in {Head} |-> 0]
      /\ arena.next = [b \in {Head} |-> << >>] /\ arena.count = 0 /\ given = [b \in {} |-> 0]
  BY DEF Init, NewArena
<1>2. Record(arena)
  BY DEF Init, NewArena, Record
<1>3. Blk(arena) = {} /\ Fr(arena) = {} /\ Busy(arena) = {} /\ DOMAIN given = {}
  BY <1>1 DEF Blk, Fr, Busy
<1>4. Levelled(arena)
  <2>1. 0 \in Nat /\ 0 \in 0 .. MaxLevel - 1
    BY DEF MaxLevel
  <2>2. \E m \in Nat : \A b \in Fr(arena) : b <= m
    BY <1>3, <2>1
  <2> QED BY <1>1, <1>3, <2>1, <2>2 DEF Levelled
<1>5. Listed(arena)
  <2>1. arena.next[Head] = [i \in 0 .. 0 - 1 |-> After(arena, Head, i)]
    <3>1. 0 .. 0 - 1 = {}
      OBVIOUS
    <3>2. << >> = [i \in {} |-> After(arena, Head, i)]
      OBVIOUS
    <3> QED BY <1>1, <3>1, <3>2
  <2> QED BY <1>1, <1>4, <2>1 DEF Listed
<1>6. Granular(arena) /\ SideBySide(arena) /\ LevelsFit(arena) /\ Apart(arena)
  BY <1>3 DEF Granular, SideBySide, LevelsFit, Apart
<1>7. Sound(arena)
  BY <1>1, <1>2, <1>3, <1>5, <1>6 DEF Sound
<1>8. IsFiniteSet({}) /\ Cardinality({}) = 0
  BY FS_EmptySet
<1> QED BY <1>1, <1>3, <1>6, <1>7, <1>8 DEF ArenaInv

\* A caller gets the block s of a, whose held blocks are those of arena.
LEMMA GivenStep ==
  ASSUME ArenaInv, NEW a, Sound(a), Apart(a), Busy(a) = Busy(arena), a.count = arena.count,
         \A b \in Busy(a) : a.size[b] = arena.size[b],
         NEW asked \in Request, NEW size, size = RoundUp(asked + Header, Header),
         NEW s \in Fr(a), a.size[s] >= size, NEW random \in Random,
         Given(Take(a, s, size, random), s, asked)
  PROVE  ArenaInv'
<1> DEFINE t == Take(a, s, size, random)
<1>1. Fits(size) /\ size % Header = 0 /\ asked \in Nat /\ size >= asked + Header
  BY SizeFacts
<1>2. Sound(t) /\ Apart(t) /\ Taken(a, t, s, size)
  BY <1>1, RandomFacts, TakeStep
<1>3. arena' = [t EXCEPT !.count = @ + 1] /\ given' = With(given, s, asked)
  BY DEF Given
<1> HIDE DEF t
<1>4. /\ Sound(arena') /\ Apart(arena') /\ Busy(arena') = Busy(t) /\ arena'.size = t.size
      /\ arena'.count = t.count + 1
  BY <1>2, <1>3, Recount
<1>5. /\ Busy(t) = DOMAIN given \cup {s} /\ s \notin DOMAIN given /\ t.count = Cardinality(DOMAIN given)
      /\ IsFiniteSet(DOMAIN given)
  BY <1>2 DEF Taken, ArenaInv, Busy
<1>6. DOMAIN given' = DOMAIN given \cup {s}
  BY <1>3 DEF With
<1>7. IsFiniteSet(DOMAIN given') /\ arena'.count = Cardinality(DOMAIN given')
  <2>1. IsFiniteSet(DOMAIN given \cup {s}) /\ Cardinality(DOMAIN given \cup {s}) = Cardinality(DOMAIN given) + 1
    BY <1>5, FS_AddElement
  <2> QED BY <1>4, <1>5, <1>6, <2>1
<1>8. ASSUME NEW b \in DOMAIN given' PROVE given'[b] + Header <= arena'.size[b]
  <2>1. CASE b = s
    <3>1. s \in Blk(t)
      BY <1>5 DEF Busy
    <3>2. t.size[s] \in Nat /\ t.size[s] >= size /\ size \in Nat
      BY <1>1, <1>2, <3>1, SoundFacts DEF Taken, Fits
    <3>3. given'[b] = asked /\ arena'.size[b] = t.size[s]
      BY <1>3, <1>4, <2>1 DEF With
    <3> QED BY <1>1, <3>2, <3>3 DEF Header
  <2>2. CASE b # s
    <3>1. b \in DOMAIN given /\ given'[b] = given[b]
      BY <1>3, <1>6, <2>2 DEF With
    <3>2. t.size[b] = arena.size[b]
      BY <1>2, <3>1 DEF Taken, ArenaInv
    <3> QED BY <1>4, <3>1, <3>2 DEF ArenaInv
  <2> QED BY <2>1, <2>2
<1> QED BY <1>4, <1>5, <1>6, <1>7, <1>8 DEF ArenaInv

LEMMA AllocFoundStep ==
  ASSUME ArenaInv, NEW asked \in Request, AllocFound(asked) PROVE ArenaInv'
<1> DEFINE size == RoundUp(asked + Header, Header)
           s == FirstFit(arena, size)
<1>1. s # None /\ \E random \in Random : Given(Take(arena, s, size, random), s, asked)
  BY DEF AllocFound
<1>2. Sound(arena) /\ Apart(arena)
  BY DEF ArenaInv
<1>3. Fits(size)
  BY SizeFacts
<1>4. s \in Fr(arena) /\ arena.size[s] >= size
  BY <1>1, <1>2, <1>3, FoundIs
<1> HIDE DEF s
<1>5. PICK random \in Random : Given(Take(arena, s, size, random), s, asked)
  BY <1>1
<1> QED BY <1>2, <1>4, <1>5, GivenStep

LEMMA AllocMappedStep ==
  ASSUME ArenaInv, NEW asked \in Request, AllocMapped(asked) PROVE ArenaInv'
<1> DEFINE size == RoundUp(asked + Header, Header)
           pages == RoundUp(size, Chunk)
           mapped(k) == [arena EXCEPT !.size = With(@, k, pages)]
           more(k, f) == AddToFreelist(mapped(k), k, f)
           s(k, f) == FirstFit(more(k, f), size)
<1>1. PICK at \in Places(arena, pages), random \in Random, again \in Random :
        Given(Take(more(at, random), s(at, random), size, again), s(at, random), asked)
  BY DEF AllocMapped
<1>2. Sound(arena) /\ Apart(arena)
  BY DEF ArenaInv
<1>3. Fits(size)
  BY SizeFacts
<1> HIDE DEF size
<1>4. Fits(pages) /\ pages % Header = 0 /\ pages >= size
  BY <1>3, PagesFacts
<1> HIDE DEF pages
<1>5. at \in Nat \ {0} /\ \A b \in Blk(arena) : b + arena.size[b] <= at \/ at + pages <= b
  <2>1. PICK k \in 1 .. Memory : at = k * Chunk
    BY DEF Places
  <2>2. k \in Nat \ {0} /\ Chunk \in Nat \ {0}
    BY BoundsAssumption DEF Header, MinSize
  <2>3. k * Chunk \in Nat \ {0}
    BY <2>2
  <2> QED BY <2>1, <2>3 DEF Places, Blk
<1> DEFINE m == mapped(at)
<1>mapped. Mapped(arena, m, at, pages)
  BY DEF Mapped
<1> HIDE DEF mapped, m
<1>6. /\ Sound(m) /\ Apart(m) /\ at \in Blk(m) \ Fr(m) /\ Busy(m) = Busy(arena) \cup {at} /\ at \notin Busy(arena)
      /\ m.size[at] = pages /\ m.count = arena.count /\ \A b \in Busy(arena) : m.size[b] = arena.size[b]
  BY <1>2, <1>4, <1>5, <1>mapped, MapStep
<1> DEFINE a == more(at, random)
<1>7. a = AddToFreelist(m, at, random)
  BY DEF m
<1>8. Given(Take(a, FirstFit(a, size), size, again), FirstFit(a, size), asked)
  BY <1>1
<1> HIDE DEF m, a
<1>9. Sound(a) /\ Apart(a) /\ Freed(m, a, at)
  BY <1>6, <1>7, RandomFacts, AddStep
<1>10. /\ Busy(a) = Busy(arena) /\ a.count = arena.count
       /\ \A b \in Busy(a) : a.size[b] = arena.size[b]
  BY <1>6, <1>9 DEF Freed
<1>11. PICK b \in Fr(a) : a.size[b] >= pages
  BY <1>6, <1>9 DEF Freed
<1>12. a.size[b] >= size
  <2>1. a.size[b] \in Nat
    BY <1>9, SoundFacts
  <2> QED BY <1>3, <1>4, <1>11, <2>1 DEF Fits
<1>13. FirstFit(a, size) \in Fr(a) /\ a.size[FirstFit(a, size)] >= size
  BY <1>3, <1>9, <1>12, FoundIs
<1> DEFINE z == FirstFit(a, size)
<1>14. z \in Fr(a) /\ a.size[z] >= size /\ Given(Take(a, z, size, again), z, asked)
  BY <1>8, <1>13
<1>15. size = RoundUp(asked + Header, Header)
  BY DEF size
<1> HIDE DEF z
<1> QED BY <1>9, <1>10, <1>14, <1>15, GivenStep

LEMMA FreeBlockStep ==
  ASSUME ArenaInv, NEW f, FreeBlock(f) PROVE ArenaInv'
<1>1. PICK random \in Random : arena' = [AddToFreelist(arena, f, random) EXCEPT !.count = @ - 1]
  BY DEF FreeBlock
<1>2. f \in DOMAIN given /\ given' = Without(given, f)
  BY DEF FreeBlock
<1> DEFINE t == AddToFreelist(arena, f, random)
<1>3. Sound(t) /\ Apart(t) /\ Freed(arena, t, f)
  <2>1. f \in Blk(arena) \ Fr(arena)
    BY <1>2 DEF ArenaInv, Busy
  <2> QED BY <2>1, RandomFacts, AddStep DEF ArenaInv
<1>4. arena' = [t EXCEPT !.count = t.count - 1]
  BY <1>1
<1> HIDE DEF t
<1>5. /\ Sound(arena') /\ Apart(arena') /\ Busy(arena') = Busy(t) /\ arena'.size = t.size
      /\ arena'.count = t.count - 1
  BY <1>3, <1>4, Recount
<1>6. Busy(t) = DOMAIN given \ {f} /\ t.count = Cardinality(DOMAIN given) /\ IsFiniteSet(DOMAIN given)
  BY <1>3 DEF Freed, ArenaInv
<1>7. DOMAIN given' = DOMAIN given \ {f}
  BY <1>2 DEF Without
<1>8. IsFiniteSet(DOMAIN given') /\ arena'.count = Cardinality(DOMAIN given')
  <2>1. IsFiniteSet(DOMAIN given \ {f}) /\ Cardinality(DOMAIN given \ {f}) = Cardinality(DOMAIN given) - 1
    BY <1>2, <1>6, FS_RemoveElement
  <2> QED BY <1>5, <1>6, <1>7, <2>1
<1>9. ASSUME NEW b \in DOMAIN given' PROVE given'[b] + Header <= arena'.size[b]
  <2>1. b \in DOMAIN given /\ b # f /\ given'[b] = given[b]
    BY <1>2, <1>7 DEF Without
  <2>2. t.size[b] = arena.size[b]
    BY <1>3, <1>6, <2>1 DEF Freed
  <2> QED BY <1>5, <2>1, <2>2 DEF ArenaInv
<1> QED BY <1>5, <1>6, <1>7, <1>8, <1>9 DEF ArenaInv

LEMMA ArenaInvIsInvariant == Spec => []ArenaInv
<1>1. Init => ArenaInv
  BY ArenaInvInit
<1>2. ArenaInv /\ [Next]_vars => ArenaInv'
  <2> SUFFICES ASSUME ArenaInv, [Next]_vars PROVE ArenaInv'
    OBVIOUS
  <2>1. ASSUME NEW asked \in Request, AllocFound(asked) PROVE ArenaInv'
    BY <2>1, AllocFoundStep
  <2>2. ASSUME NEW asked \in Request, AllocMapped(asked) PROVE ArenaInv'
    BY <2>2, AllocMappedStep
  <2>3. ASSUME NEW b \in DOMAIN given, FreeBlock(b) PROVE ArenaInv'
    BY <2>3, FreeBlockStep
  <2>4. CASE UNCHANGED vars
    BY <2>4 DEF ArenaInv, vars
  <2> QED BY <2>1, <2>2, <2>3, <2>4 DEF Next
<1> QED BY <1>1, <1>2, PTL DEF Spec

-----------------------------------------------------------------------------
(* The properties. *)

\* No two blocks share a byte, every held block has room for its request, the
\* others are free and none touches another, however the sizes, the levels and
\* the places of new pages fall (DoAllocWithArena, AddToFreelist, Coalesce).
THEOREM BlocksStaySound == Spec => []BlocksAreSound
<1>1. ArenaInv => BlocksAreSound
  <2> SUFFICES ASSUME ArenaInv PROVE BlocksAreSound
    OBVIOUS
  <2>1. Sound(arena) /\ Apart(arena) /\ DOMAIN given = Busy(arena)
    BY DEF ArenaInv
  <2>2. Blocks = Blk(arena) /\ Free = Fr(arena) /\ Fr(arena) \subseteq Blk(arena)
    BY <2>1 DEF Blocks, Blk, Free, Fr, Sound
  <2>3. \A b \in Blocks : arena.size[b] >= MinSize /\ arena.size[b] % Header = 0
    BY <2>1, <2>2 DEF Sound, Granular, Fits
  <2>4. \A b, c \in Blocks : b < c => b + arena.size[b] <= c
    BY <2>1, <2>2 DEF Sound, SideBySide
  <2>5. \A b \in DOMAIN given : b \in Blocks /\ given[b] + Header <= arena.size[b]
    BY <2>1, <2>2 DEF ArenaInv, Busy
  <2>6. Free = Blocks \ DOMAIN given
    BY <2>1, <2>2 DEF Busy
  <2>7. \A b, c \in Free : b + arena.size[b] # c
    BY <2>1, <2>2 DEF Apart
  <2>8. arena.count = Cardinality(DOMAIN given)
    BY DEF ArenaInv
  <2> QED BY <2>3, <2>4, <2>5, <2>6, <2>7, <2>8 DEF BlocksAreSound
<1> QED BY <1>1, ArenaInvIsInvariant, PTL

\* Every level of the skiplist links the free blocks that have it in the order of
\* their addresses, and the head has the levels of the highest block
\* (LLA_SkiplistSearch, LLA_SkiplistInsert, LLA_SkiplistDelete).
THEOREM FreeListStaysSound == Spec => []FreeListIsSound
<1>1. ArenaInv => FreeListIsSound
  <2> SUFFICES ASSUME ArenaInv PROVE FreeListIsSound
    OBVIOUS
  <2>1. Sound(arena) /\ Free = Fr(arena) /\ Listed(arena) /\ Levelled(arena)
    BY SoundFacts DEF ArenaInv, Free, Fr
  <2>2. arena.levels[Head] = Max({arena.levels[b] : b \in Free} \cup {0})
    <3> DEFINE T == {arena.levels[b] : b \in Free} \cup {0}
    <3>1. arena.levels[Head] \in Nat
      BY <2>1, LevelledFacts
    <3>2. \A b \in Free : arena.levels[b] \in Nat /\ arena.levels[b] <= arena.levels[Head]
      BY <2>1, LevelledFacts
    <3>3. T \subseteq Int /\ \A y \in T : y <= arena.levels[Head]
      BY <3>1, <3>2
    <3>4. arena.levels[Head] \in T
      BY <2>1 DEF Levelled
    <3> HIDE DEF T
    <3>5. Max(T) = arena.levels[Head]
      BY <3>3, <3>4, MaxIs
    <3> QED BY <3>5 DEF T
  <2>3. \A b \in Free : arena.levels[b] >= 1 /\ Links + 8 * arena.levels[b] <= arena.size[b]
    BY <2>1, LevelledFacts, SoundFacts DEF LevelsFit
  <2>4. ASSUME NEW p \in DOMAIN arena.next, NEW i \in 0 .. arena.levels[Head] - 1, i < arena.levels[p]
        PROVE  LET behind == {b \in Free : b > p /\ arena.levels[b] > i} IN
                 arena.next[p][i] = IF behind = {} THEN None ELSE Min(behind)
    <3>1. p \in OnLevel(arena, i) /\ i \in Nat
      BY <2>4 DEF OnLevel
    <3>2. arena.next[p][i] = After(arena, p, i)
      BY <2>1, <3>1, NextIs
    <3> QED BY <2>1, <3>2 DEF After, Behind
  <2> QED BY <2>2, <2>3, <2>4 DEF FreeListIsSound
<1> QED BY <1>1, ArenaInvIsInvariant, PTL

\* The search on one level misses no free block that is large enough and finds
\* the one with the lowest address (DoAllocWithArena).
THEOREM FirstFitIsFirst == Spec => []FirstFitFinds
<1>1. ArenaInv => FirstFitFinds
  <2> SUFFICES ASSUME ArenaInv, NEW asked \in Request, NEW size, size = RoundUp(asked + Header, Header)
               PROVE  LET fits == {b \in Free : arena.size[b] >= size} IN
                        FirstFit(arena, size) = IF fits = {} THEN None ELSE Min(fits)
    BY DEF FirstFitFinds
  <2>1. Sound(arena) /\ Free = Fr(arena)
    BY DEF ArenaInv, Free, Fr
  <2>2. FirstFit(arena, size) = FirstLarge(arena, Head, size)
    BY <2>1, SizeFacts, FirstFitIs
  <2>3. \A b \in Fr(arena) : b \in Nat /\ b > 0
    BY <2>1, SoundFacts, LevelledFacts
  <2>4. Large(arena, Head, size) = {b \in Free : arena.size[b] >= size}
    BY <2>1, <2>3 DEF Large, Head
  <2> QED BY <2>2, <2>4 DEF FirstLarge
<1> QED BY <1>1, ArenaInvIsInvariant, PTL
=============================================================================

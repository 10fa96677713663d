-------------------------- MODULE ContainersProofs --------------------------
(***************************************************************************)
(* Proofs about the hash tables under the lock-order graph (Containers):   *)
(* the map from locks to nodes and the set of node indexes.                *)
(***************************************************************************)
EXTENDS Containers, NumberFacts

-----------------------------------------------------------------------------
(* Chains of the map. *)

Bucket == 0 .. Buckets - 1
Link == Index \cup {NoIndex}

MapType == /\ hash \in [Lock -> Bucket]
           /\ heads \in [Bucket -> Link]
           /\ next_hash \in [Index -> Link]
           /\ masked_ptr \in [Index -> Lock \cup {NoLock}]
           /\ size \in 0 .. Nodes
           /\ free_nodes \in Seq(Index)

\* Where the loops of Find and Remove go next.
Behind(n) == IF n = NoIndex THEN NoIndex ELSE next_hash[n]

\* f is the chain of b, as far as it goes.
Follows(f, b) == f[0] = heads[b] /\ \A k \in DOMAIN f : k > 0 => f[k] = Behind(f[k - 1])

LEMMA BehindType == ASSUME MapType, NEW n \in Link PROVE Behind(n) \in Link
BY DEF MapType, Behind, Link

LEMMA ChainExists ==
  ASSUME MapType, NEW b \in Bucket
  PROVE  \A n \in Nat : \E f \in [0 .. n -> Link] : Follows(f, b)
<1> DEFINE S == {n \in Nat : \E f \in [0 .. n -> Link] : Follows(f, b)}
<1>1. 0 \in S
  <2> DEFINE f == [k \in 0 .. 0 |-> heads[b]]
  <2>1. f \in [0 .. 0 -> Link] /\ Follows(f, b)
    BY DEF MapType, Follows
  <2> QED BY <2>1
<1>2. ASSUME NEW n \in Nat, n \in S PROVE n + 1 \in S
  <2>1. PICK f \in [0 .. n -> Link] : Follows(f, b)
    BY <1>2
  <2> DEFINE g == [k \in 0 .. n + 1 |-> IF k = n + 1 THEN Behind(f[n]) ELSE f[k]]
  <2>2. f[n] \in Link /\ Behind(f[n]) \in Link
    BY BehindType
  <2>3. g \in [0 .. n + 1 -> Link]
    BY <2>2
  <2>4. Follows(g, b)
    BY <2>1 DEF Follows
  <2> QED BY <2>3, <2>4
<1>3. \A n \in Nat : n \in S
  <2> HIDE DEF S
  <2> QED BY <1>1, <1>2, Induction
<1> QED BY <1>3

LEMMA ChainUnique ==
  ASSUME NEW b, NEW f, NEW g, DOMAIN f = 0 .. Nodes, DOMAIN g = 0 .. Nodes,
         Follows(f, b), Follows(g, b)
  PROVE  \A k \in 0 .. Nodes : f[k] = g[k]
<1> DEFINE S == {n \in Nat : n <= Nodes => f[n] = g[n]}
<1>1. 0 \in S
  BY DEF Follows
<1>2. ASSUME NEW n \in Nat, n \in S PROVE n + 1 \in S
  <2> SUFFICES ASSUME n + 1 <= Nodes PROVE f[n + 1] = g[n + 1]
    OBVIOUS
  <2>1. n + 1 \in 0 .. Nodes /\ n + 1 > 0 /\ (n + 1) - 1 = n /\ n <= Nodes
    BY SizesAssumption
  <2>2. f[n] = g[n]
    BY <1>2, <2>1
  <2>3. f[n + 1] = Behind(f[n]) /\ g[n + 1] = Behind(g[n])
    BY <2>1 DEF Follows
  <2> QED BY <2>2, <2>3
<1>3. \A n \in Nat : n \in S
  <2> HIDE DEF S
  <2> QED BY <1>1, <1>2, Induction
<1> QED BY <1>3, SizesAssumption

\* Chain is what the loops go along.
LEMMA ChainIs ==
  ASSUME MapType, NEW b \in Bucket
  PROVE  Chain(b) \in [0 .. Nodes -> Link] /\ Follows(Chain(b), b)
<1> DEFINE Loop(f) == f = [k \in 0 .. Nodes |->
             IF k = 0 THEN heads[b]
             ELSE IF f[k - 1] = NoIndex THEN NoIndex ELSE next_hash[f[k - 1]]]
<1>1. PICK g \in [0 .. Nodes -> Link] : Follows(g, b)
  BY ChainExists, SizesAssumption
<1>2. Loop(g)
  <2>1. g = [k \in 0 .. Nodes |-> g[k]]
    OBVIOUS
  <2>2. ASSUME NEW k \in 0 .. Nodes
        PROVE  g[k] = IF k = 0 THEN heads[b]
                      ELSE IF g[k - 1] = NoIndex THEN NoIndex ELSE next_hash[g[k - 1]]
    BY <1>1 DEF Follows, Behind
  <2> QED BY <2>1, <2>2
<1>3. Chain(b) = CHOOSE f : Loop(f)
  BY DEF Chain
<1>4. Loop(Chain(b))
  <2> HIDE DEF Loop
  <2> QED BY <1>2, <1>3
<1>5. DOMAIN Chain(b) = 0 .. Nodes /\ Follows(Chain(b), b)
  <2>1. ASSUME NEW k \in 0 .. Nodes
        PROVE  Chain(b)[k] = IF k = 0 THEN heads[b]
                      ELSE IF Chain(b)[k - 1] = NoIndex THEN NoIndex ELSE next_hash[Chain(b)[k - 1]]
    BY <1>4
  <2> QED BY <1>4, <2>1, SizesAssumption DEF Follows, Behind
<1>6. Chain(b) = [k \in 0 .. Nodes |-> Chain(b)[k]]
  BY <1>4
<1>7. \A k \in 0 .. Nodes : Chain(b)[k] = g[k]
  BY <1>1, <1>5, ChainUnique
<1> QED BY <1>5, <1>6, <1>7

\* What is the chain of b from its head to its end is Chain(b), ...
IsChain(f, b) == f \in [0 .. Nodes -> Link] /\ Follows(f, b)
ChainFacts == MapType => \A b \in Bucket : /\ IsChain(Chain(b), b)
                                           /\ \A f : IsChain(f, b) => f = Chain(b)

LEMMA ChainNow == ChainFacts
<1> SUFFICES ASSUME MapType, NEW b \in Bucket, NEW f, IsChain(f, b) PROVE f = Chain(b)
  BY ChainIs DEF ChainFacts, IsChain
<1>1. \A k \in 0 .. Nodes : f[k] = Chain(b)[k]
  BY ChainIs, ChainUnique DEF IsChain
<1>2. f = [k \in 0 .. Nodes |-> f[k]] /\ Chain(b) = [k \in 0 .. Nodes |-> Chain(b)[k]]
  BY ChainIs DEF IsChain
<1> QED BY <1>1, <1>2

\* ... in the next state too.
LEMMA ChainNext == ChainFacts'
BY ChainNow, PTL

-----------------------------------------------------------------------------
(* The inductive invariant of the map: the chains are the nodes in use,    *)
(* each in one place, and free_nodes are the others that were given out.   *)

OnChain(b, n) == \E k \in 0 .. Nodes : Chain(b)[k] = n

ChainsDistinct ==
  \A b \in Bucket : \A j, k \in 0 .. Nodes :
    Chain(b)[j] = Chain(b)[k] => j = k \/ Chain(b)[j] = NoIndex
ChainsHold ==
  \A b \in Bucket, n \in Index :
    OnChain(b, n) <=> masked_ptr[n] \in Lock /\ hash[masked_ptr[n]] = b
OneNodeEach ==
  \A m, n \in Index : masked_ptr[m] = masked_ptr[n] => m = n \/ masked_ptr[m] = NoLock
FreeUnused ==
  /\ \A i \in DOMAIN free_nodes : free_nodes[i] < size /\ masked_ptr[free_nodes[i]] = NoLock
  /\ \A i, j \in DOMAIN free_nodes : free_nodes[i] = free_nodes[j] => i = j
  /\ \A n \in Index : n >= size => masked_ptr[n] = NoLock

MapInv == MapType /\ ChainsDistinct /\ ChainsHold /\ OneNodeEach /\ FreeUnused

\* Behind the end of a chain there is nothing, ...
LEMMA EndStays ==
  ASSUME MapType, NEW b \in Bucket, NEW k \in 0 .. Nodes, Chain(b)[k] = NoIndex
  PROVE  \A j \in k .. Nodes : Chain(b)[j] = NoIndex
<1> DEFINE S == {n \in Nat : k + n <= Nodes => Chain(b)[k + n] = NoIndex}
<1>0. k \in Nat /\ Nodes \in Nat
  BY SizesAssumption
<1>1. 0 \in S
  BY <1>0
<1>2. ASSUME NEW n \in Nat, n \in S PROVE n + 1 \in S
  <2> SUFFICES ASSUME k + (n + 1) <= Nodes PROVE Chain(b)[k + (n + 1)] = NoIndex
    OBVIOUS
  <2>1. Chain(b)[k + n] = NoIndex
    BY <1>0, <1>2
  <2>2. k + (n + 1) \in 0 .. Nodes /\ k + (n + 1) > 0 /\ (k + (n + 1)) - 1 = k + n
    BY <1>0
  <2>3. Chain(b)[k + (n + 1)] = Behind(Chain(b)[k + n])
    <3>1. DOMAIN Chain(b) = 0 .. Nodes /\ Follows(Chain(b), b)
      BY ChainIs
    <3> QED BY <2>2, <3>1 DEF Follows
  <2> QED BY <2>1, <2>3 DEF Behind
<1>3. \A n \in Nat : n \in S
  <2> HIDE DEF S
  <2> QED BY <1>1, <1>2, Induction
<1>4. ASSUME NEW j \in k .. Nodes PROVE Chain(b)[j] = NoIndex
  <2>1. j - k \in S /\ k + (j - k) = j
    BY <1>0, <1>3
  <2> QED BY <2>1
<1> QED BY <1>4

\* ... and there is an end: a chain has no more nodes than there are.
LEMMA ChainEnds ==
  ASSUME MapType, ChainsDistinct, NEW b \in Bucket PROVE Chain(b)[Nodes] = NoIndex
<1> SUFFICES ASSUME Chain(b)[Nodes] # NoIndex PROVE FALSE
  OBVIOUS
<1>0. Nodes \in Nat
  BY SizesAssumption
<1>1. \A k \in 0 .. Nodes : Chain(b)[k] # NoIndex
  BY <1>0, EndStays
<1>2. Chain(b) \in [0 .. Nodes -> 0 .. Nodes - 1]
  BY <1>1, ChainIs DEF Link, Index
<1>3. PICK j, k \in 0 .. Nodes : j # k /\ Chain(b)[j] = Chain(b)[k]
  BY <1>0, <1>2, PigeonHole
<1> QED BY <1>1, <1>3 DEF ChainsDistinct

\* Find stops at the end of the chain or at the one node of the lock.
LEMMA FindFacts ==
  ASSUME MapInv, NEW l \in Lock
  PROVE  /\ Stop(l) \in 0 .. Nodes /\ Find(l) = Chain(hash[l])[Stop(l)]
         /\ Find(l) \in Link
         /\ Find(l) = NoIndex => \A n \in Index : masked_ptr[n] # l
         /\ Find(l) # NoIndex => /\ Find(l) \in Index /\ masked_ptr[Find(l)] = l
                                 /\ \A n \in Index : masked_ptr[n] = l => n = Find(l)
<1> DEFINE b == hash[l]
           Ends(k) == LET n == Chain(b)[k] IN IF n = NoIndex THEN TRUE ELSE masked_ptr[n] = l
           I == {k \in 0 .. Nodes : Ends(k)}
<1>0. /\ MapType /\ b \in Bucket /\ Nodes \in Nat /\ ChainsDistinct /\ ChainsHold /\ OneNodeEach
      /\ NoLock # l
  BY SizesAssumption, NoLockAssumption DEF MapInv, MapType
<1>1. Nodes \in I
  BY <1>0, ChainEnds
<1>2. I \subseteq Nat /\ I # {}
  BY <1>1
<1>3. Stop(l) = Min(I)
  BY DEF Stop
<1>4. Stop(l) \in I /\ \A j \in I : Stop(l) <= j
  <2> HIDE DEF I
  <2> QED BY <1>2, <1>3, MinFacts
<1>5. Stop(l) \in 0 .. Nodes /\ Find(l) = Chain(b)[Stop(l)]
  BY <1>4 DEF Find
<1>6. Find(l) \in Link
  BY <1>0, <1>5, ChainIs
<1>7. ASSUME Find(l) = NoIndex, NEW n \in Index, masked_ptr[n] = l PROVE FALSE
  <2>1. PICK k \in 0 .. Nodes : Chain(b)[k] = n
    BY <1>0, <1>7 DEF ChainsHold, OnChain
  <2>2. k \in I
    BY <1>7, <2>1
  <2>3. Stop(l) <= k /\ k \in Stop(l) .. Nodes
    BY <1>0, <1>4, <1>5, <2>2
  <2>4. Chain(b)[k] = NoIndex
    BY <1>0, <1>5, <1>7, <2>3, EndStays
  <2> QED BY <2>1, <2>4 DEF Index, NoIndex
<1>8. ASSUME Find(l) # NoIndex PROVE Find(l) \in Index /\ masked_ptr[Find(l)] = l
  BY <1>4, <1>5, <1>6, <1>8 DEF Link
<1>9. ASSUME Find(l) # NoIndex, NEW n \in Index, masked_ptr[n] = l PROVE n = Find(l)
  BY <1>0, <1>8, <1>9 DEF OneNodeEach
<1> QED BY <1>5, <1>6, <1>7, <1>8, <1>9

\* The invariant is what the runs check.
LEMMA MapInvImplies == MapInv => MapFindsNodes
<1> SUFFICES ASSUME MapInv PROVE MapFindsNodes
  OBVIOUS
<1>1. ASSUME NEW l \in Lock PROVE Users(l) = IF Find(l) = NoIndex THEN {} ELSE {Find(l)}
  BY <1>1, FindFacts DEF Users
<1>2. ASSUME NEW b \in Bucket, NEW k \in 0 .. Nodes, Chain(b)[k] # NoIndex
      PROVE  masked_ptr[Chain(b)[k]] \in Lock /\ hash[masked_ptr[Chain(b)[k]]] = b
  <2>1. Chain(b)[k] \in Index
    BY <1>2, ChainIs DEF MapInv, Link
  <2> QED BY <1>2, <2>1 DEF MapInv, ChainsHold, OnChain
<1> QED BY <1>1, <1>2 DEF MapFindsNodes, MapInv, ChainsDistinct, Bucket

-----------------------------------------------------------------------------
(* Each operation of the map.                                              *)

LEMMA MapInitInv == MapInit => MapInv
<1> SUFFICES ASSUME MapInit PROVE MapInv
  OBVIOUS
<1>0. Nodes \in Nat /\ Buckets \in Nat \ {0} /\ NoLock \notin Lock
  BY SizesAssumption, NoLockAssumption
<1>1. MapType
  <2>1. \A n \in Index : 0 \in Index
    BY <1>0 DEF Index
  <2>2. next_hash \in [Index -> Link]
    BY <2>1 DEF MapInit, Link
  <2> QED BY <1>0, <2>2 DEF MapInit, MapType, Bucket, Link
<1>2. ASSUME NEW b \in Bucket, NEW k \in 0 .. Nodes PROVE Chain(b)[k] = NoIndex
  <2>1. Chain(b)[0] = NoIndex
    BY <1>1, ChainIs DEF Follows, MapInit, Bucket
  <2> QED BY <1>0, <1>1, <2>1, EndStays
<1>3. \A n \in Index : masked_ptr[n] = NoLock /\ n # NoIndex
  BY DEF MapInit, Index, NoIndex
<1>4. ChainsDistinct
  BY <1>2 DEF ChainsDistinct
<1>5. ChainsHold
  BY <1>0, <1>2, <1>3 DEF ChainsHold, OnChain
<1>6. OneNodeEach
  BY <1>3 DEF OneNodeEach
<1>7. FreeUnused
  BY <1>3 DEF FreeUnused, MapInit
<1> QED BY <1>1, <1>4, <1>5, <1>6, <1>7 DEF MapInv

\* Add puts the node in front of its bucket's chain.
LEMMA AddKeepsChains ==
  ASSUME MapInv, MapType', NEW l \in Lock, NEW n \in Index, Find(l) = NoIndex,
         masked_ptr[n] = NoLock, Add(l, n), masked_ptr' = [masked_ptr EXCEPT ![n] = l],
         hash' = hash
  PROVE  ChainsDistinct' /\ ChainsHold' /\ OneNodeEach'
<1> PICK F : F = [c \in Bucket |-> Chain(c)]
  OBVIOUS
<1> PICK b : b = hash[l]
  OBVIOUS
<1> PICK D : D = [k \in 0 .. Nodes |-> IF k = 0 THEN n ELSE F[b][k - 1]]
  OBVIOUS
<1>0. /\ MapType /\ b \in Bucket /\ Nodes \in Nat /\ n # NoIndex /\ n \in Link /\ 0 \in 0 .. Nodes
      /\ ChainsDistinct /\ ChainsHold /\ OneNodeEach /\ l # NoLock /\ NoLock \notin Lock
      /\ \A c \in Bucket : /\ F[c] = Chain(c) /\ F[c] \in [0 .. Nodes -> Link] /\ Follows(F[c], c)
                           /\ F[c][Nodes] = NoIndex /\ DOMAIN F[c] = 0 .. Nodes
  BY SizesAssumption, NoLockAssumption, ChainIs, ChainEnds DEF MapInv, MapType, Index, NoIndex, Link
<1>1. ASSUME NEW c \in Bucket, NEW k \in 0 .. Nodes PROVE F[c][k] # n
  BY <1>0 DEF ChainsHold, OnChain
<1>2. /\ heads' = [heads EXCEPT ![b] = n] /\ heads'[b] = n
      /\ next_hash'[n] = heads[b] /\ \A m \in Index \ {n} : next_hash'[m] = next_hash[m]
  BY <1>0 DEF Add, MapType
<1>3. ASSUME NEW m \in Link, m # n PROVE Behind(m)' = Behind(m)
  BY <1>2, <1>3 DEF Behind, Link
<1>4. IsChain(D, b)'
  <2>1. D \in [0 .. Nodes -> Link]
    <3>1. ASSUME NEW k \in 0 .. Nodes PROVE D[k] \in Link
      BY <1>0
    <3> QED BY <3>1
  <2>2. D[0] = heads'[b]
    BY <1>0, <1>2
  <2>3. ASSUME NEW k \in 0 .. Nodes, k > 0 PROVE D[k] = Behind(D[k - 1])'
    <3>1. k - 1 \in 0 .. Nodes /\ D[k] = F[b][k - 1]
      BY <1>0, <2>3
    <3>2. CASE k = 1
      BY <1>0, <1>2, <3>1, <3>2 DEF Behind, Follows
    <3>3. CASE k > 1
      <4>1. D[k - 1] = F[b][(k - 1) - 1] /\ (k - 1) - 1 \in 0 .. Nodes
        BY <1>0, <3>1, <3>3
      <4>2. F[b][k - 1] = Behind(F[b][(k - 1) - 1])
        <5>1. Follows(F[b], b) /\ DOMAIN F[b] = 0 .. Nodes /\ k - 1 > 0
          BY <1>0, <3>3
        <5> QED BY <3>1, <5>1 DEF Follows
      <4>3. F[b][(k - 1) - 1] \in Link /\ F[b][(k - 1) - 1] # n
        BY <1>0, <1>1, <4>1
      <4> QED BY <1>3, <3>1, <4>1, <4>2, <4>3
    <3> QED BY <1>0, <2>3, <3>2, <3>3
  <2> QED BY <2>1, <2>2, <2>3 DEF IsChain, Follows
<1>5. ASSUME NEW c \in Bucket, c # b PROVE IsChain(F[c], c)'
  <2>1. heads'[c] = heads[c]
    BY <1>0, <1>2, <1>5 DEF MapType
  <2>2. ASSUME NEW k \in 0 .. Nodes, k > 0 PROVE F[c][k] = Behind(F[c][k - 1])'
    <3>1. k - 1 \in 0 .. Nodes /\ Follows(F[c], c) /\ DOMAIN F[c] = 0 .. Nodes
      BY <1>0, <2>2
    <3>2. F[c][k] = Behind(F[c][k - 1])
      BY <2>2, <3>1 DEF Follows
    <3> QED BY <1>0, <1>1, <1>3, <3>1, <3>2
  <2> QED BY <1>0, <2>1, <2>2 DEF IsChain, Follows
<1>6. \A c \in Bucket : Chain(c)' = IF c = b THEN D ELSE F[c]
  BY <1>4, <1>5, ChainNext DEF ChainFacts
<1>7. ChainsDistinct'
  <2>1. ASSUME NEW j \in 0 .. Nodes, NEW k \in 0 .. Nodes, D[j] = D[k] PROVE j = k \/ D[j] = NoIndex
    <3>1. ASSUME NEW i \in 0 .. Nodes PROVE i = 0 \/ (i - 1 \in 0 .. Nodes /\ D[i] = F[b][i - 1])
      BY <1>0
    <3>2. CASE j = 0 \/ k = 0
      BY <1>0, <1>1, <2>1, <3>1, <3>2
    <3>3. CASE j # 0 /\ k # 0
      <4>1. j - 1 \in 0 .. Nodes /\ k - 1 \in 0 .. Nodes /\ F[b][j - 1] = F[b][k - 1] /\ D[j] = F[b][j - 1]
        BY <2>1, <3>1, <3>3
      <4>2. j - 1 = k - 1 \/ F[b][j - 1] = NoIndex
        BY <1>0, <4>1 DEF ChainsDistinct
      <4> QED BY <1>0, <4>1, <4>2
    <3> QED BY <3>2, <3>3
  <2>2. ASSUME NEW c \in Bucket, NEW j \in 0 .. Nodes, NEW k \in 0 .. Nodes,
               Chain(c)'[j] = Chain(c)'[k]
        PROVE  j = k \/ Chain(c)'[j] = NoIndex
    BY <1>0, <1>6, <2>1, <2>2 DEF ChainsDistinct
  <2> QED BY <2>2 DEF ChainsDistinct
<1>8. \A m \in Index : masked_ptr'[m] = IF m = n THEN l ELSE masked_ptr[m]
  BY <1>0 DEF MapType
<1>9. ChainsHold'
  <2>1. ASSUME NEW m \in Index PROVE (\E k \in 0 .. Nodes : D[k] = m) <=> m = n \/ OnChain(b, m)
    <3>1. ASSUME NEW k \in 0 .. Nodes, D[k] = m, m # n PROVE OnChain(b, m)
      <4>1. k - 1 \in 0 .. Nodes /\ F[b][k - 1] = m
        BY <1>0, <3>1
      <4> QED BY <1>0, <4>1 DEF OnChain
    <3>2. ASSUME NEW k \in 0 .. Nodes, Chain(b)[k] = m PROVE \E i \in 0 .. Nodes : D[i] = m
      <4>1. k # Nodes
        BY <1>0, <3>2 DEF Index, NoIndex
      <4>2. k + 1 \in 0 .. Nodes /\ (k + 1) - 1 = k /\ k + 1 # 0
        BY <1>0, <4>1
      <4>3. D[k + 1] = m
        BY <1>0, <3>2, <4>2
      <4> QED BY <4>2, <4>3
    <3>3. D[0] = n
      BY <1>0
    <3> QED BY <1>0, <3>1, <3>2, <3>3 DEF OnChain
  <2>2. ASSUME NEW c \in Bucket, NEW m \in Index
        PROVE  OnChain(c, m)' <=> masked_ptr'[m] \in Lock /\ hash'[masked_ptr'[m]] = c
    <3>1. CASE c = b
      <4>0. Chain(c)' = D
        BY <1>6, <3>1
      <4>1. OnChain(c, m)' <=> m = n \/ OnChain(b, m)
        BY <2>1, <4>0 DEF OnChain
      <4> QED BY <1>0, <1>8, <3>1, <4>1 DEF ChainsHold
    <3>2. CASE c # b
      <4>1. OnChain(c, m)' <=> OnChain(c, m)
        BY <1>0, <1>6, <3>2 DEF OnChain
      <4> QED BY <1>0, <1>8, <3>2, <4>1 DEF ChainsHold
    <3> QED BY <3>1, <3>2
  <2> QED BY <2>2 DEF ChainsHold
<1>10. OneNodeEach'
  BY <1>0, <1>8, FindFacts DEF OneNodeEach
<1> QED BY <1>7, <1>9, <1>10

\* Remove takes the node out of its chain and leaves what is in front of it and
\* behind it.
LEMMA UnlinkKeepsChains ==
  ASSUME MapInv, MapType', NEW l \in Lock, NEW n, n = Find(l), n # NoIndex,
         Unlink(l, n), masked_ptr' = [masked_ptr EXCEPT ![n] = NoLock], hash' = hash
  PROVE  ChainsDistinct' /\ ChainsHold' /\ OneNodeEach'
<1> PICK F : F = [c \in Bucket |-> Chain(c)]
  OBVIOUS
<1> PICK b : b = hash[l]
  OBVIOUS
<1> PICK p : p = Stop(l)
  OBVIOUS
<1> PICK before : before = {m \in Index : \E k \in 1 .. Nodes : F[b][k - 1] = m /\ F[b][k] = n}
  OBVIOUS
<1> PICK D : D = [k \in 0 .. Nodes |-> IF k < p THEN F[b][k]
                                       ELSE IF k < Nodes THEN F[b][k + 1] ELSE NoIndex]
  OBVIOUS
<1>0. /\ MapType /\ b \in Bucket /\ Nodes \in Nat /\ 0 \in 0 .. Nodes
      /\ ChainsDistinct /\ ChainsHold /\ OneNodeEach /\ l # NoLock /\ NoLock \notin Lock
      /\ \A c \in Bucket : /\ F[c] = Chain(c) /\ F[c] \in [0 .. Nodes -> Link] /\ Follows(F[c], c)
                           /\ F[c][Nodes] = NoIndex /\ DOMAIN F[c] = 0 .. Nodes
  BY SizesAssumption, NoLockAssumption, ChainIs, ChainEnds DEF MapInv, MapType
<1>1. /\ p \in 0 .. Nodes /\ p < Nodes /\ n = F[b][p] /\ n \in Index /\ n \in Link
      /\ masked_ptr[n] = l
  BY <1>0, FindFacts DEF Link
<1>2. /\ heads' = [heads EXCEPT ![b] = IF @ = n THEN next_hash[n] ELSE @]
      /\ \A m \in Index : m # n /\ m \notin before => next_hash'[m] = next_hash[m]
      /\ \A m \in Index : m # n /\ m \in before => next_hash'[m] = next_hash[n]
  BY <1>0 DEF Unlink
<1>3. ASSUME NEW m \in Link, m # n, m \notin before PROVE Behind(m)' = Behind(m)
  BY <1>2, <1>3 DEF Behind, Link
<1>4. \A j, k \in 0 .. Nodes : F[b][j] = F[b][k] => j = k \/ F[b][j] = NoIndex
  BY <1>0 DEF ChainsDistinct
<1>5. n # NoIndex /\ NoIndex \notin Index
  BY DEF Index, NoIndex
<1>6. ASSUME NEW k \in 0 .. Nodes, F[b][k] = n PROVE k = p
  BY <1>1, <1>4, <1>5, <1>6
<1>7. ASSUME NEW k \in 1 .. Nodes PROVE /\ k \in 0 .. Nodes /\ k - 1 \in 0 .. Nodes
                                        /\ F[b][k] = Behind(F[b][k - 1])
  <2>1. Follows(F[b], b) /\ DOMAIN F[b] = 0 .. Nodes /\ k \in 0 .. Nodes /\ k > 0
    BY <1>0
  <2>2. k - 1 \in 0 .. Nodes
    BY <1>0
  <2> QED BY <2>1, <2>2 DEF Follows
<1>8. ASSUME NEW k \in 0 .. Nodes, F[b][k] \in before PROVE k + 1 = p
  <2>1. PICK i \in 1 .. Nodes : F[b][i - 1] = F[b][k] /\ F[b][i] = n
    BY <1>8
  <2>2. i = p /\ i - 1 \in 0 .. Nodes
    BY <1>0, <1>6, <1>7, <2>1
  <2>3. F[b][k] # NoIndex
    BY <1>5, <1>8
  <2> QED BY <1>0, <1>4, <2>1, <2>2, <2>3
<1>9. ASSUME p # 0 PROVE p - 1 \in 0 .. Nodes /\ F[b][p - 1] \in before /\ F[b][p - 1] # n
  <2>1. p \in 1 .. Nodes
    BY <1>0, <1>1, <1>9
  <2>2. p - 1 \in 0 .. Nodes /\ n = Behind(F[b][p - 1])
    BY <1>1, <1>7, <2>1
  <2>3. F[b][p - 1] \in Index
    BY <1>0, <1>5, <2>2 DEF Behind, Link
  <2> QED BY <1>0, <1>1, <1>6, <2>1, <2>2, <2>3
<1>10. F[b][p + 1] = next_hash[n] /\ p + 1 \in 0 .. Nodes
  <2>1. p + 1 \in 1 .. Nodes /\ (p + 1) - 1 = p
    BY <1>0, <1>1
  <2>2. p + 1 \in 0 .. Nodes /\ F[b][p + 1] = Behind(F[b][(p + 1) - 1])
    BY <1>7, <2>1
  <2>3. F[b][(p + 1) - 1] = n
    BY <1>1, <2>1
  <2> QED BY <1>5, <2>2, <2>3 DEF Behind
<1>11. IsChain(D, b)'
  <2>1. D \in [0 .. Nodes -> Link]
    <3>1. ASSUME NEW k \in 0 .. Nodes PROVE D[k] \in Link
      <4>1. k < Nodes => k + 1 \in 0 .. Nodes
        BY <1>0
      <4> QED BY <1>0, <4>1 DEF Link
    <3> QED BY <3>1
  <2>2. D[0] = heads'[b]
    <3>1. F[b][0] = heads[b]
      BY <1>0 DEF Follows
    <3>0. heads'[b] = IF heads[b] = n THEN next_hash[n] ELSE heads[b]
      BY <1>0, <1>2 DEF MapType
    <3>2. CASE p = 0
      <4>1. D[0] = F[b][0 + 1]
        BY <1>0, <1>1, <3>2
      <4>2. heads[b] = n
        BY <1>1, <3>1, <3>2
      <4> QED BY <1>10, <3>0, <3>2, <4>1, <4>2
    <3>3. CASE p # 0
      <4>0. heads[b] # n
        BY <1>0, <1>6, <3>1, <3>3
      <4>1. D[0] = F[b][0]
        BY <1>0, <1>1, <3>3
      <4> QED BY <3>0, <3>1, <4>0, <4>1
    <3> QED BY <3>2, <3>3
  <2>3. ASSUME NEW k \in 0 .. Nodes, k > 0 PROVE D[k] = Behind(D[k - 1])'
    <3>0. k \in 1 .. Nodes /\ k - 1 \in 0 .. Nodes /\ (k - 1) + 1 = k
      BY <1>0, <2>3
    <3>1. CASE k < p
      <4>1. D[k] = F[b][k] /\ D[k - 1] = F[b][k - 1]
        BY <1>0, <1>1, <3>0, <3>1
      <4>2. F[b][k - 1] # n /\ F[b][k - 1] \notin before
        <5>1. k - 1 # p /\ (k - 1) + 1 # p
          BY <1>0, <1>1, <3>0, <3>1
        <5> QED BY <1>6, <1>8, <3>0, <5>1
      <4> QED BY <1>0, <1>3, <1>7, <3>0, <4>1, <4>2
    <3>2. CASE k = p
      <4>1. D[k] = F[b][p + 1] /\ D[k - 1] = F[b][p - 1]
        BY <1>0, <1>1, <3>0, <3>2
      <4>2. F[b][p - 1] \in before /\ F[b][p - 1] # n /\ F[b][p - 1] \in Index
        BY <1>9, <3>0, <3>2
      <4>3. Behind(F[b][p - 1])' = next_hash[n]
        BY <1>2, <1>5, <4>2 DEF Behind
      <4> QED BY <1>10, <4>1, <4>3
    <3>3. CASE k > p
      <4>1. D[k - 1] = F[b][k]
        BY <1>0, <1>1, <3>0, <3>3
      <4>2. F[b][k] # n /\ F[b][k] \notin before /\ F[b][k] \in Link
        BY <1>0, <1>1, <1>6, <1>8, <3>0, <3>3
      <4>3. Behind(D[k - 1])' = Behind(F[b][k])
        BY <1>3, <4>1, <4>2
      <4>4. CASE k < Nodes
        <5>1. k + 1 \in 1 .. Nodes /\ (k + 1) - 1 = k /\ D[k] = F[b][k + 1]
          BY <1>0, <1>1, <3>0, <3>3, <4>4
        <5> QED BY <1>7, <4>3, <5>1
      <4>5. CASE k = Nodes
        <5>1. D[k] = NoIndex /\ F[b][k] = NoIndex
          BY <1>0, <1>1, <3>0, <3>3, <4>5
        <5> QED BY <4>3, <5>1 DEF Behind
      <4> QED BY <1>0, <3>0, <4>4, <4>5
    <3> QED BY <1>0, <1>1, <3>0, <3>1, <3>2, <3>3
  <2> QED BY <2>1, <2>2, <2>3 DEF IsChain, Follows
<1>12. ASSUME NEW c \in Bucket, c # b PROVE IsChain(F[c], c)'
  <2>1. heads'[c] = heads[c]
    BY <1>0, <1>2, <1>12 DEF MapType
  <2>2. ASSUME NEW i \in 0 .. Nodes, F[c][i] \in Index PROVE F[c][i] # n /\ F[c][i] \notin before
    <3>1. hash[masked_ptr[F[c][i]]] = c
      BY <1>0, <2>2 DEF ChainsHold, OnChain
    <3>2. ASSUME F[c][i] \in before PROVE FALSE
      <4>1. PICK k \in 1 .. Nodes : F[b][k - 1] = F[c][i]
        BY <3>2
      <4>2. k - 1 \in 0 .. Nodes
        BY <1>7
      <4>3. OnChain(b, F[c][i])
        BY <1>0, <4>1, <4>2 DEF OnChain
      <4> QED BY <1>0, <1>12, <2>2, <3>1, <4>3 DEF ChainsHold
    <3> QED BY <1>1, <1>12, <3>1, <3>2
  <2>3. ASSUME NEW k \in 0 .. Nodes, k > 0 PROVE F[c][k] = Behind(F[c][k - 1])'
    <3>1. k - 1 \in 0 .. Nodes /\ Follows(F[c], c) /\ DOMAIN F[c] = 0 .. Nodes
      BY <1>0, <2>3
    <3>2. F[c][k] = Behind(F[c][k - 1])
      BY <2>3, <3>1 DEF Follows
    <3>3. F[c][k - 1] \in Link
      BY <1>0, <3>1
    <3>4. CASE F[c][k - 1] \in Index
      BY <1>3, <2>2, <3>1, <3>2, <3>3, <3>4
    <3>5. CASE F[c][k - 1] = NoIndex
      BY <3>2, <3>5 DEF Behind
    <3> QED BY <3>3, <3>4, <3>5 DEF Link
  <2> QED BY <1>0, <2>1, <2>3 DEF IsChain, Follows
<1>13. \A c \in Bucket : Chain(c)' = IF c = b THEN D ELSE F[c]
  BY <1>11, <1>12, ChainNext DEF ChainFacts
<1>14. ASSUME NEW k \in 0 .. Nodes, D[k] # NoIndex
       PROVE  \E i \in 0 .. Nodes : /\ D[k] = F[b][i] /\ i # p /\ i = (IF k < p THEN k ELSE k + 1)
  <2>1. CASE k < p
    <3>1. D[k] = F[b][k] /\ k # p
      BY <1>0, <1>1, <2>1
    <3> QED BY <2>1, <3>1
  <2>2. CASE ~(k < p)
    <3>1. k < Nodes
      BY <1>0, <1>14, <2>2
    <3>2. k + 1 \in 0 .. Nodes /\ k + 1 # p /\ D[k] = F[b][k + 1]
      BY <1>0, <1>1, <2>2, <3>1
    <3> QED BY <2>2, <3>2
  <2> QED BY <2>1, <2>2
<1>15. ChainsDistinct'
  <2>1. ASSUME NEW j \in 0 .. Nodes, NEW k \in 0 .. Nodes, D[j] = D[k], D[j] # NoIndex PROVE j = k
    <3>1. PICK i \in 0 .. Nodes : /\ D[j] = F[b][i] /\ i = (IF j < p THEN j ELSE j + 1)
      BY <1>14, <2>1
    <3>2. PICK m \in 0 .. Nodes : /\ D[k] = F[b][m] /\ m = (IF k < p THEN k ELSE k + 1)
      BY <1>14, <2>1
    <3>3. i = m
      BY <1>4, <2>1, <3>1, <3>2
    <3> QED BY <1>0, <1>1, <3>1, <3>2, <3>3
  <2>2. ASSUME NEW c \in Bucket, NEW j \in 0 .. Nodes, NEW k \in 0 .. Nodes,
               Chain(c)'[j] = Chain(c)'[k]
        PROVE  j = k \/ Chain(c)'[j] = NoIndex
    BY <1>0, <1>13, <2>1, <2>2 DEF ChainsDistinct
  <2> QED BY <2>2 DEF ChainsDistinct
<1>16. \A m \in Index : masked_ptr'[m] = IF m = n THEN NoLock ELSE masked_ptr[m]
  BY <1>0 DEF MapType
<1>17. ChainsHold'
  <2>1. ASSUME NEW m \in Index PROVE (\E k \in 0 .. Nodes : D[k] = m) <=> m # n /\ OnChain(b, m)
    <3>1. ASSUME NEW k \in 0 .. Nodes, D[k] = m PROVE m # n /\ OnChain(b, m)
      BY <1>0, <1>5, <1>6, <1>14, <3>1 DEF OnChain
    <3>2. ASSUME NEW k \in 0 .. Nodes, Chain(b)[k] = m, m # n PROVE \E i \in 0 .. Nodes : D[i] = m
      <4>1. k # p /\ F[b][k] = m
        BY <1>0, <1>1, <3>2
      <4>2. CASE k < p
        BY <4>1, <4>2
      <4>3. CASE k > p
        <5>1. k - 1 \in 0 .. Nodes /\ ~(k - 1 < p) /\ k - 1 < Nodes /\ (k - 1) + 1 = k
          BY <1>0, <1>1, <4>3
        <5>2. D[k - 1] = m
          BY <4>1, <5>1
        <5> QED BY <5>1, <5>2
      <4> QED BY <1>0, <1>1, <4>1, <4>2, <4>3
    <3> QED BY <3>1, <3>2 DEF OnChain
  <2>2. ASSUME NEW c \in Bucket, NEW m \in Index
        PROVE  OnChain(c, m)' <=> masked_ptr'[m] \in Lock /\ hash'[masked_ptr'[m]] = c
    <3>1. CASE c = b
      <4>0. Chain(c)' = D
        BY <1>13, <3>1
      <4>1. OnChain(c, m)' <=> m # n /\ OnChain(b, m)
        BY <2>1, <4>0 DEF OnChain
      <4> QED BY <1>0, <1>16, <3>1, <4>1 DEF ChainsHold
    <3>2. CASE c # b
      <4>1. OnChain(c, m)' <=> OnChain(c, m)
        BY <1>0, <1>13, <3>2 DEF OnChain
      <4> QED BY <1>0, <1>1, <1>16, <3>2, <4>1 DEF ChainsHold
    <3> QED BY <3>1, <3>2
  <2> QED BY <2>2 DEF ChainsHold
<1>18. OneNodeEach'
  BY <1>0, <1>16 DEF OneNodeEach
<1> QED BY <1>15, <1>17, <1>18
LEMMA GetIdFreshStep ==
  ASSUME MapInv, NEW l \in Lock, GetIdFresh(l) PROVE MapInv'
<1>0. /\ MapType /\ FreeUnused /\ Nodes \in Nat /\ NoLock \notin Lock
      /\ size < Nodes /\ size \in 0 .. Nodes /\ size \in Index /\ hash[l] \in Bucket
  BY SizesAssumption, NoLockAssumption DEF MapInv, MapType, GetIdFresh, Index
<1>1. /\ Find(l) = NoIndex /\ Add(l, size) /\ masked_ptr' = [masked_ptr EXCEPT ![size] = l]
      /\ size' = size + 1 /\ hash' = hash /\ free_nodes' = free_nodes /\ free_nodes = <<>>
  BY DEF GetIdFresh
<1>2. heads[hash[l]] \in Link /\ size \in Link
  BY <1>0 DEF MapType, Link
<1>3. heads' \in [Bucket -> Link] /\ next_hash' \in [Index -> Link]
  BY <1>0, <1>1, <1>2 DEF MapType, Add
<1>4. MapType'
  <2>1. masked_ptr' \in [Index -> Lock \cup {NoLock}]
    BY <1>0, <1>1 DEF MapType
  <2>2. size' \in 0 .. Nodes
    BY <1>0, <1>1
  <2> QED BY <1>0, <1>1, <1>3, <2>1, <2>2 DEF MapType
<1>5. masked_ptr[size] = NoLock
  BY <1>0 DEF FreeUnused
<1>6. ChainsDistinct' /\ ChainsHold' /\ OneNodeEach'
  BY <1>0, <1>1, <1>4, <1>5, AddKeepsChains
<1>7. \A n \in Index : masked_ptr'[n] = IF n = size THEN l ELSE masked_ptr[n]
  BY <1>0, <1>1 DEF MapType
<1>8. FreeUnused'
  <2>1. ASSUME NEW n \in Index, n >= size' PROVE masked_ptr'[n] = NoLock
    <3>1. n # size /\ n >= size
      BY <1>0, <1>1, <2>1 DEF Index
    <3> QED BY <1>0, <1>7, <3>1 DEF FreeUnused
  <2>2. DOMAIN free_nodes' = {}
    BY <1>1
  <2> QED BY <2>1, <2>2 DEF FreeUnused
<1> QED BY <1>4, <1>6, <1>8 DEF MapInv

LEMMA GetIdReuseStep ==
  ASSUME MapInv, NEW l \in Lock, GetIdReuse(l) PROVE MapInv'
<1> PICK k : k = Len(free_nodes)
  OBVIOUS
<1> PICK n : n = free_nodes[k]
  OBVIOUS
<1>0. /\ MapType /\ FreeUnused /\ Nodes \in Nat /\ NoLock \notin Lock /\ hash[l] \in Bucket
      /\ free_nodes \in Seq(Index) /\ free_nodes # <<>>
  BY SizesAssumption, NoLockAssumption DEF MapInv, MapType, GetIdReuse
<1>1. /\ Find(l) = NoIndex /\ Add(l, n) /\ masked_ptr' = [masked_ptr EXCEPT ![n] = l]
      /\ free_nodes' = SubSeq(free_nodes, 1, k - 1) /\ hash' = hash /\ size' = size
  BY DEF GetIdReuse
<1>2. /\ k \in Nat /\ k > 0 /\ DOMAIN free_nodes = 1 .. k /\ k \in 1 .. k /\ n \in Index
      /\ free_nodes' \in Seq(Index) /\ DOMAIN free_nodes' = 1 .. k - 1
      /\ \A i \in 1 .. k - 1 : free_nodes'[i] = free_nodes[i]
  BY <1>0, <1>1
<1>3. heads[hash[l]] \in Link /\ n \in Link
  BY <1>0, <1>2 DEF MapType, Link
<1>4. heads' \in [Bucket -> Link] /\ next_hash' \in [Index -> Link]
  BY <1>0, <1>1, <1>2, <1>3 DEF MapType, Add
<1>5. MapType'
  BY <1>0, <1>1, <1>2, <1>4 DEF MapType
<1>6. masked_ptr[n] = NoLock /\ n < size
  BY <1>0, <1>2 DEF FreeUnused
<1>7. ChainsDistinct' /\ ChainsHold' /\ OneNodeEach'
  BY <1>1, <1>2, <1>5, <1>6, AddKeepsChains
<1>8. \A m \in Index : masked_ptr'[m] = IF m = n THEN l ELSE masked_ptr[m]
  BY <1>0, <1>1 DEF MapType
<1>9. ASSUME NEW i \in 1 .. k - 1 PROVE /\ i \in 1 .. k /\ free_nodes'[i] = free_nodes[i]
                                        /\ free_nodes[i] # n /\ free_nodes[i] \in Index
  BY <1>0, <1>2 DEF FreeUnused
<1>10. FreeUnused'
  <2>1. ASSUME NEW m \in Index, m >= size' PROVE masked_ptr'[m] = NoLock
    <3>1. m >= size /\ m # n
      BY <1>0, <1>1, <1>6, <2>1 DEF Index, MapType
    <3> QED BY <1>0, <1>8, <3>1 DEF FreeUnused
  <2>2. ASSUME NEW i \in 1 .. k - 1
        PROVE  free_nodes'[i] < size' /\ masked_ptr'[free_nodes'[i]] = NoLock
    <3>1. free_nodes[i] < size /\ masked_ptr[free_nodes[i]] = NoLock
      BY <1>0, <1>2, <1>9 DEF FreeUnused
    <3> QED BY <1>1, <1>8, <1>9, <3>1
  <2>3. ASSUME NEW i \in 1 .. k - 1, NEW j \in 1 .. k - 1, free_nodes'[i] = free_nodes'[j] PROVE i = j
    BY <1>0, <1>2, <1>9, <2>3 DEF FreeUnused
  <2> QED BY <1>2, <2>1, <2>2, <2>3 DEF FreeUnused
<1> QED BY <1>5, <1>7, <1>10 DEF MapInv

LEMMA RemoveNodeStep ==
  ASSUME MapInv, NEW l \in Lock, RemoveNode(l) PROVE MapInv'
<1> PICK n : n = Find(l)
  OBVIOUS
<1> PICK k : k = Len(free_nodes)
  OBVIOUS
<1>0. /\ MapType /\ FreeUnused /\ Nodes \in Nat /\ NoLock \notin Lock /\ hash[l] \in Bucket
      /\ n # NoIndex /\ n \in Index /\ masked_ptr[n] = l /\ free_nodes \in Seq(Index)
  BY SizesAssumption, NoLockAssumption, FindFacts DEF MapInv, MapType, RemoveNode
<1>1. /\ Unlink(l, n) /\ masked_ptr' = [masked_ptr EXCEPT ![n] = NoLock]
      /\ free_nodes' = Append(free_nodes, n) /\ hash' = hash /\ size' = size
  BY DEF RemoveNode
<1>2. /\ k \in Nat /\ DOMAIN free_nodes = 1 .. k
      /\ free_nodes' \in Seq(Index) /\ DOMAIN free_nodes' = 1 .. k + 1
      /\ \A i \in 1 .. k : free_nodes'[i] = free_nodes[i] /\ free_nodes[i] \in Index
      /\ free_nodes'[k + 1] = n
  BY <1>0, <1>1
<1>3. next_hash[n] \in Link /\ NoIndex \in Link
  BY <1>0 DEF MapType, Link
<1>4. heads' \in [Bucket -> Link] /\ next_hash' \in [Index -> Link]
  BY <1>0, <1>1, <1>3 DEF MapType, Unlink
<1>5. MapType'
  BY <1>0, <1>1, <1>2, <1>4 DEF MapType
<1>6. ChainsDistinct' /\ ChainsHold' /\ OneNodeEach'
  BY <1>0, <1>1, <1>5, UnlinkKeepsChains
<1>7. \A m \in Index : masked_ptr'[m] = IF m = n THEN NoLock ELSE masked_ptr[m]
  BY <1>0, <1>1 DEF MapType
<1>8. n < size
  <2>1. masked_ptr[n] # NoLock
    BY <1>0
  <2> QED BY <1>0, <2>1 DEF FreeUnused, MapType, Index
<1>9. FreeUnused'
  <2>1. ASSUME NEW m \in Index, m >= size' PROVE masked_ptr'[m] = NoLock
    BY <1>0, <1>1, <1>7, <2>1 DEF FreeUnused
  <2>2. ASSUME NEW i \in 1 .. k + 1
        PROVE  free_nodes'[i] < size' /\ masked_ptr'[free_nodes'[i]] = NoLock
    <3>1. CASE i = k + 1
      BY <1>0, <1>1, <1>2, <1>7, <1>8, <3>1
    <3>2. CASE i \in 1 .. k
      BY <1>0, <1>1, <1>2, <1>7, <3>2 DEF FreeUnused
    <3> QED BY <1>2, <3>1, <3>2
  <2>3. ASSUME NEW i \in 1 .. k + 1, NEW j \in 1 .. k + 1, free_nodes'[i] = free_nodes'[j] PROVE i = j
    <3>1. \A m \in 1 .. k : free_nodes'[m] # n
      BY <1>0, <1>2 DEF FreeUnused
    <3>2. \A a, c \in 1 .. k : free_nodes'[a] = free_nodes'[c] => a = c
      BY <1>0, <1>2 DEF FreeUnused
    <3> QED BY <1>2, <2>3, <3>1, <3>2
  <2> QED BY <1>2, <2>1, <2>2, <2>3 DEF FreeUnused
<1> QED BY <1>5, <1>6, <1>9 DEF MapInv

\* A step of the set does not touch the map.
LEMMA MapStutter ==
  ASSUME MapInv, UNCHANGED mapVars PROVE MapInv'
<1>0. UNCHANGED <<hash, heads, next_hash, masked_ptr, size, free_nodes>>
  BY DEF mapVars
<1>1. \A b : Chain(b)' = Chain(b)
  BY <1>0 DEF Chain
<1>2. MapType'
  BY <1>0 DEF MapInv, MapType
<1>3. ChainsDistinct' /\ OneNodeEach' /\ FreeUnused'
  BY <1>0, <1>1 DEF MapInv, ChainsDistinct, OneNodeEach, FreeUnused
<1>4. ChainsHold'
  BY <1>0, <1>1 DEF MapInv, ChainsHold, OnChain
<1> QED BY <1>2, <1>3, <1>4 DEF MapInv

LEMMA MapInvHolds == Spec => []MapInv
<1>1. Init => MapInv
  BY MapInitInv DEF Init
<1>2. ASSUME MapInv, [Next]_<<setVars, mapVars>> PROVE MapInv'
  <2>1. CASE MapNext
    BY <1>2, <2>1, GetIdFreshStep, GetIdReuseStep, RemoveNodeStep DEF MapNext
  <2>2. CASE UNCHANGED mapVars
    BY <1>2, <2>2, MapStutter
  <2>3. MapNext \/ UNCHANGED mapVars
    BY <1>2, Zenon DEF Next
  <2> QED BY <2>1, <2>2, <2>3
<1> QED BY <1>1, <1>2, PTL DEF Spec

\* A lock's node is found by its address as long as it has one, and nothing
\* else is, for every number of buckets and nodes and however the addresses
\* collide: PointerMap with GetId and RemoveNode (graphcycles.cc:316, 435, 477).
THEOREM LocksFindTheirNodes == Spec => []MapFindsNodes
BY MapInvHolds, MapInvImplies, PTL
-----------------------------------------------------------------------------
(* Tables of the set.  All that follows is about a table t of n slots.     *)

Content == Value \cup {Empty, Del}
IsTable(t, n) == n \in Nat \ {0} /\ t \in [0 .. n - 1 -> Content]

\* Where a value belongs, and how far it is from slot e to slot i, around.
Home(n, v) == (v * 41) % n
Far(n, e, i) == IF i >= e THEN i - e ELSE i - e + n

LEMMA TableFacts ==
  ASSUME NEW n, NEW t, IsTable(t, n)
  PROVE  /\ n \in Nat \ {0} /\ Size(t) = n /\ DOMAIN t = 0 .. n - 1
         /\ \A i \in 0 .. n - 1 : t[i] \in Content
         /\ \A v \in Value : v \in Nat /\ v # Empty /\ v # Del
         /\ Empty # Del
         /\ Filled(t) = {i \in 0 .. n - 1 : t[i] \in Value}
<1>1. n \in Nat \ {0} /\ DOMAIN t = 0 .. n - 1 /\ \A i \in 0 .. n - 1 : t[i] \in Content
  BY DEF IsTable
<1>2. Cardinality(0 .. n - 1) = n
  BY <1>1, FS_Interval
<1>3. \A v \in Value : v \in Nat /\ v # Empty /\ v # Del
  BY ValueAssumption DEF Empty, Del
<1>4. Filled(t) = {i \in 0 .. n - 1 : t[i] \in Value}
  BY <1>1, <1>3 DEF Filled, Content, Empty, Del
<1> QED BY <1>1, <1>2, <1>3, <1>4 DEF Size, Empty, Del

\* The probes of a value visit every slot once, in the order of the distance.
LEMMA ProbeFacts ==
  ASSUME NEW n, NEW t, IsTable(t, n), NEW v \in Value
  PROVE  /\ Home(n, v) \in 0 .. n - 1
         /\ \A k \in 0 .. n - 1 : /\ Probe(t, v, k) \in 0 .. n - 1
                                  /\ Far(n, Home(n, v), Probe(t, v, k)) = k
         /\ \A i \in 0 .. n - 1 : /\ Far(n, Home(n, v), i) \in 0 .. n - 1
                                  /\ Probe(t, v, Far(n, Home(n, v), i)) = i
<1> DEFINE h == Home(n, v)
<1>1. n \in Nat \ {0} /\ Size(t) = n /\ v * 41 \in Nat
  BY TableFacts
<1>2. h \in 0 .. n - 1
  BY <1>1, Division DEF Home
<1>3. ASSUME NEW k \in 0 .. n - 1
      PROVE  /\ Probe(t, v, k) \in 0 .. n - 1
             /\ h + k < n => Probe(t, v, k) = h + k
             /\ h + k >= n => Probe(t, v, k) = h + k - n
  BY <1>1, WrapAround DEF Probe, Home
<1> HIDE DEF h
<1>4. ASSUME NEW k \in 0 .. n - 1 PROVE Far(n, h, Probe(t, v, k)) = k
  <2>1. CASE h + k < n
    BY <1>1, <1>2, <1>3, <2>1 DEF Far
  <2>2. CASE h + k >= n
    BY <1>1, <1>2, <1>3, <2>2 DEF Far
  <2> QED BY <1>1, <1>2, <2>1, <2>2
<1>5. ASSUME NEW i \in 0 .. n - 1
      PROVE  Far(n, h, i) \in 0 .. n - 1 /\ Probe(t, v, Far(n, h, i)) = i
  <2>1. CASE i >= h
    <3>1. Far(n, h, i) = i - h /\ i - h \in 0 .. n - 1 /\ h + (i - h) = i
      BY <1>1, <1>2, <2>1 DEF Far
    <3> QED BY <1>1, <1>3, <3>1
  <2>2. CASE i < h
    <3>1. Far(n, h, i) = i - h + n /\ i - h + n \in 0 .. n - 1 /\ h + (i - h + n) - n = i
          /\ h + (i - h + n) >= n
      BY <1>1, <1>2, <2>2 DEF Far
    <3> QED BY <1>1, <1>3, <3>1
  <2> QED BY <1>1, <1>2, <2>1, <2>2
<1> QED BY <1>2, <1>3, <1>4, <1>5 DEF h

\* Each element is in one slot, and no empty slot is on the way to it.
OnceEach(t) == \A i, j \in Filled(t) : t[i] = t[j] => i = j
Reachable(t, n) == \A i \in Filled(t) : \A k \in 0 .. n - 1 :
                     k < Far(n, Home(n, t[i]), i) => t[Probe(t, t[i], k)] # Empty
InUse(t) == {i \in DOMAIN t : t[i] # Empty}
Contents(t) == {t[i] : i \in Filled(t)}

\* Where the search for an element ends, ...
LEMMA FindPresent ==
  ASSUME NEW n, NEW t, IsTable(t, n), OnceEach(t), Reachable(t, n),
         NEW v \in Value, NEW i \in 0 .. n - 1, t[i] = v
  PROVE  FindIndex(t, v) = i
<1> DEFINE d == Far(n, Home(n, v), i)
           S == Stops(t, v)
<1>0. /\ n \in Nat \ {0} /\ Size(t) = n /\ DOMAIN t = 0 .. n - 1 /\ v # Empty
      /\ i \in Filled(t) /\ Filled(t) = {j \in 0 .. n - 1 : t[j] \in Value}
  BY TableFacts
<1>1. d \in 0 .. n - 1 /\ Probe(t, v, d) = i
  BY ProbeFacts
<1>2. S = {k \in 0 .. n - 1 : t[Probe(t, v, k)] \in {v, Empty}}
  BY <1>0 DEF Stops
<1>3. d \in S /\ S \subseteq Nat
  BY <1>0, <1>1, <1>2
<1>4. Min(S) \in S /\ Min(S) <= d
  BY <1>3, MinFacts
<1>5. Min(S) \in 0 .. n - 1 /\ t[Probe(t, v, Min(S))] = v
  <2>1. ASSUME t[Probe(t, v, Min(S))] = Empty PROVE FALSE
    <3>1. Min(S) # d
      BY <1>0, <1>1, <2>1
    <3>2. Min(S) < d /\ Min(S) \in 0 .. n - 1
      BY <1>0, <1>1, <1>2, <1>4, <3>1
    <3> QED BY <1>0, <2>1, <3>2 DEF Reachable
  <2> QED BY <1>2, <1>4, <2>1
<1>6. Probe(t, v, Min(S)) = i
  <2>1. Probe(t, v, Min(S)) \in 0 .. n - 1
    BY <1>5, ProbeFacts
  <2> QED BY <1>0, <1>5, <2>1 DEF OnceEach
<1> QED BY <1>5, <1>6 DEF FindIndex

\* ... and for a value that is not in the table: at the first slot on its way
\* that is free.
LEMMA FindAbsent ==
  ASSUME NEW n, NEW t, IsTable(t, n), NEW v \in Value, \A i \in 0 .. n - 1 : t[i] # v,
         NEW e \in 0 .. n - 1, t[e] = Empty
  PROVE  \E m \in 0 .. n - 1 :
           /\ FindIndex(t, v) = Probe(t, v, m) /\ t[Probe(t, v, m)] \in {Empty, Del}
           /\ \A k \in 0 .. n - 1 : k < m => t[Probe(t, v, k)] \in Value
<1> DEFINE S == Stops(t, v)
           D == Deleted(t, v, Min(S)) \cup {Min(S)}
           d == Far(n, Home(n, v), e)
<1>0. /\ n \in Nat \ {0} /\ Size(t) = n /\ v # Empty
      /\ \A k \in 0 .. n - 1 : Probe(t, v, k) \in 0 .. n - 1 /\ t[Probe(t, v, k)] \in Content
  BY TableFacts, ProbeFacts
<1>1. d \in 0 .. n - 1 /\ Probe(t, v, d) = e
  BY ProbeFacts
<1>2. S = {k \in 0 .. n - 1 : t[Probe(t, v, k)] = Empty}
  BY <1>0 DEF Stops
<1>3. d \in S /\ S \subseteq Nat
  BY <1>1, <1>2
<1>4. Min(S) \in S /\ \A k \in S : Min(S) <= k
  BY <1>3, MinFacts
<1>5. Min(S) \in 0 .. n - 1 /\ t[Probe(t, v, Min(S))] = Empty
  BY <1>2, <1>4
<1>6. D = {k \in 0 .. Min(S) : t[Probe(t, v, k)] = Del} \cup {Min(S)} /\ D \subseteq 0 .. Min(S)
  BY <1>0, <1>5 DEF Deleted
<1>7. Min(D) \in D /\ \A k \in D : Min(D) <= k
  <2>1. D \subseteq Nat /\ D # {}
    BY <1>0, <1>5, <1>6
  <2> HIDE DEF D
  <2> QED BY <2>1, MinFacts
<1>8. FindIndex(t, v) = Probe(t, v, Min(D))
  <2>1. t[Probe(t, v, Min(S))] # v
    BY <1>0, <1>5
  <2> QED BY <2>1 DEF FindIndex
<1> HIDE DEF S, D
<1>9. Min(D) \in 0 .. n - 1 /\ t[Probe(t, v, Min(D))] \in {Empty, Del}
  BY <1>0, <1>5, <1>6, <1>7
<1>10. ASSUME NEW k \in 0 .. n - 1, k < Min(D) PROVE t[Probe(t, v, k)] \in Value
  <2>1. k < Min(S)
    BY <1>0, <1>5, <1>6, <1>7, <1>10
  <2>2. t[Probe(t, v, k)] # Empty
    BY <1>0, <1>2, <1>4, <1>5, <2>1
  <2>3. t[Probe(t, v, k)] # Del
    BY <1>0, <1>5, <1>6, <1>7, <1>10, <2>1
  <2> QED BY <1>0, <2>2, <2>3 DEF Content
<1> QED BY <1>8, <1>9, <1>10
\* Has says what the table holds.
LEMMA HasIsMembership ==
  ASSUME NEW n, NEW t, IsTable(t, n), OnceEach(t), Reachable(t, n),
         NEW e \in 0 .. n - 1, t[e] = Empty, NEW v \in Value
  PROVE  t[FindIndex(t, v)] = v <=> v \in Contents(t)
<1>0. Filled(t) = {j \in 0 .. n - 1 : t[j] \in Value} /\ v # Empty /\ v # Del
  BY TableFacts
<1>1. CASE v \in Contents(t)
  BY <1>0, <1>1, FindPresent DEF Contents
<1>2. CASE v \notin Contents(t)
  <2>1. \A i \in 0 .. n - 1 : t[i] # v
    BY <1>0, <1>2 DEF Contents
  <2>2. PICK m \in 0 .. n - 1 : FindIndex(t, v) = Probe(t, v, m) /\ t[Probe(t, v, m)] \in {Empty, Del}
    BY <2>1, FindAbsent
  <2> QED BY <1>0, <1>2, <2>2
<1> QED BY <1>1, <1>2

LEMMA SameProbes ==
  ASSUME NEW n, NEW t, NEW u, IsTable(t, n), IsTable(u, n)
  PROVE  \A v, k : Probe(u, v, k) = Probe(t, v, k)
BY TableFacts DEF Probe

\* Writing a new value where the search for it ends ...
Written(t, v, i, u) == i = FindIndex(t, v) /\ u = [t EXCEPT ![i] = v]

LEMMA PutAbsent ==
  ASSUME NEW n, NEW t, IsTable(t, n), OnceEach(t), Reachable(t, n),
         NEW v \in Value, v \notin Contents(t), NEW e \in 0 .. n - 1, t[e] = Empty,
         NEW i, NEW u, Written(t, v, i, u)
  PROVE  /\ i \in 0 .. n - 1 /\ t[i] \in {Empty, Del}
         /\ \A k \in 0 .. n - 1 : k < Far(n, Home(n, v), i) => t[Probe(t, v, k)] \in Value
         /\ u[i] = v /\ \A j \in 0 .. n - 1 : j # i => u[j] = t[j]
         /\ IsTable(u, n) /\ OnceEach(u) /\ Reachable(u, n)
         /\ Filled(u) = Filled(t) \cup {i} /\ i \notin Filled(t)
         /\ Contents(u) = Contents(t) \cup {v} /\ InUse(u) = InUse(t) \cup {i}
<1>0. /\ n \in Nat \ {0} /\ DOMAIN t = 0 .. n - 1 /\ v # Empty /\ v # Del
      /\ Filled(t) = {j \in 0 .. n - 1 : t[j] \in Value}
      /\ Empty \notin Value /\ Del \notin Value
  BY TableFacts
<1>1. \A j \in 0 .. n - 1 : t[j] # v
  BY <1>0 DEF Contents
<1>2. PICK m \in 0 .. n - 1 : /\ i = Probe(t, v, m) /\ t[Probe(t, v, m)] \in {Empty, Del}
                              /\ \A k \in 0 .. n - 1 : k < m => t[Probe(t, v, k)] \in Value
  BY <1>1, FindAbsent DEF Written
<1>3. i \in 0 .. n - 1 /\ t[i] \in {Empty, Del} /\ Far(n, Home(n, v), i) = m
  BY <1>2, ProbeFacts
<1>4. u[i] = v /\ \A j \in 0 .. n - 1 : j # i => u[j] = t[j]
  BY <1>0, <1>3 DEF Written
<1>5. IsTable(u, n)
  BY <1>0, <1>3 DEF Written, IsTable, Content
<1>6. DOMAIN u = 0 .. n - 1 /\ Filled(u) = {j \in 0 .. n - 1 : u[j] \in Value}
  BY <1>5, TableFacts
<1>7. Filled(u) = Filled(t) \cup {i} /\ i \notin Filled(t)
  BY <1>0, <1>3, <1>4, <1>6
<1>8. OnceEach(u)
  <2>1. ASSUME NEW j \in Filled(u), NEW k \in Filled(u), u[j] = u[k] PROVE j = k
    BY <1>0, <1>1, <1>4, <1>7, <2>1 DEF OnceEach
  <2> QED BY <2>1 DEF OnceEach
<1>9. Contents(u) = Contents(t) \cup {v}
  <2>1. ASSUME NEW x PROVE x \in Contents(u) <=> x \in Contents(t) \/ x = v
    BY <1>0, <1>4, <1>7 DEF Contents
  <2> QED BY <2>1
<1>10. InUse(u) = InUse(t) \cup {i}
  BY <1>0, <1>3, <1>4, <1>6 DEF InUse
<1>11. Reachable(u, n)
  <2> SUFFICES ASSUME NEW j \in Filled(u), NEW k \in 0 .. n - 1, k < Far(n, Home(n, u[j]), j)
               PROVE  u[Probe(u, u[j], k)] # Empty
    BY DEF Reachable
  <2>0. \A w, l : Probe(u, w, l) = Probe(t, w, l)
    BY <1>5, SameProbes
  <2>1. Probe(u, u[j], k) = Probe(t, u[j], k) /\ u[j] \in Value
    BY <1>6, <2>0
  <2>2. Probe(t, u[j], k) \in 0 .. n - 1
    BY <2>1, ProbeFacts
  <2>3. CASE j = i
    BY <1>0, <1>2, <1>3, <1>4, <2>1, <2>2, <2>3
  <2>4. CASE j # i
    <3>1. j \in Filled(t) /\ u[j] = t[j]
      BY <1>0, <1>4, <1>7, <2>4
    <3>2. t[Probe(t, u[j], k)] # Empty
      BY <3>1 DEF Reachable
    <3> QED BY <1>0, <1>4, <2>1, <2>2, <3>2
  <2> QED BY <2>3, <2>4
<1> QED BY <1>2, <1>3, <1>4, <1>5, <1>7, <1>8, <1>9, <1>10, <1>11

\* ... and erasing one keeps a table in order.
Erased(t, i, u) == u = [t EXCEPT ![i] = Del]

LEMMA EraseKeeps ==
  ASSUME NEW n, NEW t, IsTable(t, n), OnceEach(t), Reachable(t, n),
         NEW i \in Filled(t), NEW u, Erased(t, i, u)
  PROVE  /\ IsTable(u, n) /\ OnceEach(u) /\ Reachable(u, n)
         /\ Filled(u) = Filled(t) \ {i} /\ \A j \in Filled(u) : u[j] = t[j]
         /\ Contents(u) = Contents(t) \ {t[i]} /\ InUse(u) = InUse(t)
         /\ \A j \in 0 .. n - 1 : u[j] = Empty <=> t[j] = Empty
<1>0. /\ n \in Nat \ {0} /\ DOMAIN t = 0 .. n - 1 /\ Empty # Del
      /\ Filled(t) = {j \in 0 .. n - 1 : t[j] \in Value}
      /\ Empty \notin Value /\ Del \notin Value
  BY TableFacts
<1>1. u[i] = Del /\ \A j \in 0 .. n - 1 : j # i => u[j] = t[j]
  BY <1>0 DEF Erased
<1>2. IsTable(u, n)
  BY <1>0 DEF Erased, IsTable, Content
<1>3. DOMAIN u = 0 .. n - 1 /\ Filled(u) = {j \in 0 .. n - 1 : u[j] \in Value}
  BY <1>2, TableFacts
<1>4. Filled(u) = Filled(t) \ {i} /\ \A j \in Filled(u) : u[j] = t[j]
  BY <1>0, <1>1, <1>3
<1>5. \A j \in 0 .. n - 1 : u[j] = Empty <=> t[j] = Empty
  BY <1>0, <1>1
<1>6. OnceEach(u) /\ InUse(u) = InUse(t)
  BY <1>0, <1>3, <1>4, <1>5 DEF OnceEach, InUse
<1>7. Contents(u) = Contents(t) \ {t[i]}
  <2>1. ASSUME NEW x PROVE x \in Contents(u) <=> x \in Contents(t) /\ x # t[i]
    <3>1. ASSUME x \in Contents(u) PROVE x \in Contents(t) /\ x # t[i]
      <4>1. PICK j \in Filled(u) : x = u[j]
        BY <3>1 DEF Contents
      <4>2. j \in Filled(t) /\ j # i /\ x = t[j]
        BY <1>4, <4>1
      <4> QED BY <4>2 DEF Contents, OnceEach
    <3>2. ASSUME x \in Contents(t), x # t[i] PROVE x \in Contents(u)
      <4>1. PICK j \in Filled(t) : x = t[j]
        BY <3>2 DEF Contents
      <4>2. j \in Filled(u) /\ x = u[j]
        BY <1>4, <3>2, <4>1
      <4> QED BY <4>2 DEF Contents
    <3> QED BY <3>1, <3>2
  <2> QED BY <2>1
<1>8. Reachable(u, n)
  <2> SUFFICES ASSUME NEW j \in Filled(u), NEW k \in 0 .. n - 1, k < Far(n, Home(n, u[j]), j)
               PROVE  u[Probe(u, u[j], k)] # Empty
    BY DEF Reachable
  <2>0. \A w, l : Probe(u, w, l) = Probe(t, w, l)
    BY <1>2, SameProbes
  <2>1. Probe(u, u[j], k) = Probe(t, u[j], k) /\ u[j] \in Value /\ j \in Filled(t) /\ u[j] = t[j]
    BY <1>3, <1>4, <2>0
  <2>2. Probe(t, u[j], k) \in 0 .. n - 1
    BY <2>1, ProbeFacts
  <2>3. t[Probe(t, u[j], k)] # Empty
    BY <2>1 DEF Reachable
  <2> QED BY <1>5, <2>1, <2>2, <2>3
<1> QED BY <1>2, <1>4, <1>5, <1>6, <1>7, <1>8
-----------------------------------------------------------------------------
(* Why erasing and inserting do not fill a table.  Seen from an empty slot *)
(* e, the values that belong within the next d slots are enough for the    *)
(* slots in use there and for the elements that went on beyond them.       *)

\* Within the next d slots: those in use, the values that belong there, and the
\* elements from there that are farther on.
UsedWithin(t, n, e, d) == {i \in 0 .. n - 1 : t[i] # Empty /\ Far(n, e, i) \in 1 .. d}
HomeWithin(n, e, d) == {v \in Value : Far(n, e, Home(n, v)) \in 1 .. d}
GoneOn(t, n, e, d) == {i \in Filled(t) : Far(n, e, Home(n, t[i])) <= d /\ d < Far(n, e, i)}

Uncrowded(t, n) ==
  \A e \in 0 .. n - 1 : t[e] = Empty =>
    \A d \in 0 .. n - 1 :
      Cardinality(UsedWithin(t, n, e, d)) + Cardinality(GoneOn(t, n, e, d))
        <= Cardinality(HomeWithin(n, e, d))

LEMMA WithinFinite ==
  ASSUME IsFiniteSet(Value), NEW n, NEW t, IsTable(t, n), NEW e, NEW d
  PROVE  /\ IsFiniteSet(UsedWithin(t, n, e, d)) /\ Cardinality(UsedWithin(t, n, e, d)) \in Nat
         /\ IsFiniteSet(HomeWithin(n, e, d)) /\ Cardinality(HomeWithin(n, e, d)) \in Nat
         /\ IsFiniteSet(GoneOn(t, n, e, d)) /\ Cardinality(GoneOn(t, n, e, d)) \in Nat
<1>1. n \in Nat \ {0} /\ IsFiniteSet(0 .. n - 1) /\ Filled(t) \subseteq 0 .. n - 1
  BY TableFacts, FS_Interval
<1>2. /\ UsedWithin(t, n, e, d) \in SUBSET (0 .. n - 1) /\ GoneOn(t, n, e, d) \in SUBSET (0 .. n - 1)
      /\ HomeWithin(n, e, d) \in SUBSET Value
  BY <1>1 DEF UsedWithin, GoneOn, HomeWithin
<1>3. IsFiniteSet(UsedWithin(t, n, e, d)) /\ IsFiniteSet(GoneOn(t, n, e, d)) /\ IsFiniteSet(HomeWithin(n, e, d))
  BY <1>1, <1>2, FS_Subset
<1> QED BY <1>3, FS_CardinalityType

\* Cardinalities of parts and of what is counted twice.
LEMMA Together ==
  ASSUME NEW S, NEW T, IsFiniteSet(S), IsFiniteSet(T), S \cap T = {}
  PROVE  IsFiniteSet(S \cup T) /\ Cardinality(S \cup T) = Cardinality(S) + Cardinality(T)
<1>1. Cardinality({}) = 0 /\ Cardinality(S) \in Nat /\ Cardinality(T) \in Nat
  BY FS_EmptySet, FS_CardinalityType
<1>2. /\ IsFiniteSet(S \cup T)
      /\ Cardinality(S \cup T) = Cardinality(S) + Cardinality(T) - Cardinality(S \cap T)
  BY FS_Union
<1>3. Cardinality(S \cap T) = 0
  BY <1>1
<1> QED BY <1>1, <1>2, <1>3

LEMMA AtMost ==
  ASSUME NEW S, NEW T, IsFiniteSet(T), S \subseteq T
  PROVE  /\ IsFiniteSet(S) /\ Cardinality(S) \in Nat /\ Cardinality(T) \in Nat
         /\ Cardinality(S) <= Cardinality(T)
BY FS_Subset, FS_CardinalityType

\* Slots with different elements are as many as the elements.
LEMMA SlotsAsElements ==
  ASSUME NEW t, OnceEach(t), NEW S, S \subseteq Filled(t), IsFiniteSet(S)
  PROVE  /\ IsFiniteSet({t[i] : i \in S})
         /\ Cardinality({t[i] : i \in S}) = Cardinality(S)
<1> DEFINE T == {t[i] : i \in S}
           f == [i \in S |-> t[i]]
<1>1. f \in Bijection(S, T)
  BY DEF Bijection, Injection, Surjection, IsInjective, OnceEach
<1>2. ExistsBijection(S, T)
  BY <1>1 DEF ExistsBijection
<1> QED BY <1>2, FS_Bijection
\* Distances around the table.
LEMMA FarFacts ==
  ASSUME NEW n \in Nat \ {0}, NEW e \in 0 .. n - 1, NEW h \in 0 .. n - 1, NEW i \in 0 .. n - 1
  PROVE  /\ Far(n, e, i) \in 0 .. n - 1 /\ (Far(n, e, i) = 0 <=> i = e)
         /\ Far(n, h, i) < Far(n, h, e) => /\ Far(n, e, h) >= 1
                                           /\ Far(n, e, i) = Far(n, e, h) + Far(n, h, i)
         /\ Far(n, e, h) <= Far(n, e, i) => Far(n, h, i) = Far(n, e, i) - Far(n, e, h)
         /\ Far(n, e, i) < Far(n, e, h) => Far(n, h, i) = n + Far(n, e, i) - Far(n, e, h)
         /\ Far(n, e, h) + Far(n, h, i) < n => Far(n, e, i) = Far(n, e, h) + Far(n, h, i)
<1> n \in Nat /\ e \in Int /\ h \in Int /\ i \in Int
  OBVIOUS
<1>1. CASE e <= h /\ h <= i
  BY <1>1 DEF Far
<1>2. CASE e <= i /\ i < h
  BY <1>2 DEF Far
<1>3. CASE h < e /\ e <= i
  BY <1>3 DEF Far
<1>4. CASE h <= i /\ i < e
  BY <1>4 DEF Far
<1>5. CASE i < e /\ e <= h
  BY <1>5 DEF Far
<1>6. CASE i < h /\ h < e
  BY <1>6 DEF Far
<1> QED BY <1>1, <1>2, <1>3, <1>4, <1>5, <1>6

\* An element lies behind the slot where it belongs, seen from an empty one.
LEMMA HomeFirst ==
  ASSUME NEW n, NEW t, IsTable(t, n), Reachable(t, n), NEW i \in Filled(t),
         NEW e \in 0 .. n - 1, t[e] = Empty
  PROVE  /\ Home(n, t[i]) \in 0 .. n - 1 /\ i \in 0 .. n - 1 /\ t[i] \in Value
         /\ 1 <= Far(n, e, Home(n, t[i])) /\ Far(n, e, Home(n, t[i])) <= Far(n, e, i)
<1> DEFINE h == Home(n, t[i])
<1>0. n \in Nat \ {0} /\ i \in 0 .. n - 1 /\ t[i] \in Value /\ Empty \notin Value
  BY TableFacts
<1>1. h \in 0 .. n - 1 /\ Far(n, h, e) \in 0 .. n - 1 /\ Probe(t, t[i], Far(n, h, e)) = e
  BY <1>0, ProbeFacts
<1>2. Far(n, h, i) \in 0 .. n - 1 /\ Probe(t, t[i], Far(n, h, i)) = i
  BY <1>0, ProbeFacts
<1>3. ~(Far(n, h, e) < Far(n, h, i))
  BY <1>1 DEF Reachable
<1>4. Far(n, h, e) # Far(n, h, i)
  BY <1>0, <1>1, <1>2
<1>5. Far(n, h, i) < Far(n, h, e)
  BY <1>1, <1>2, <1>3, <1>4
<1>6. Far(n, e, h) \in 0 .. n - 1 /\ Far(n, e, h) >= 1 /\ Far(n, e, i) = Far(n, e, h) + Far(n, h, i)
  BY <1>0, <1>1, <1>5, FarFacts
<1> QED BY <1>0, <1>1, <1>2, <1>6

\* The values that belong more than x and at most y slots behind e.
HomeBetween(n, e, x, y) == {v \in Value : Far(n, e, Home(n, v)) \in x + 1 .. y}

\* Elements behind x that belong before y are some that went on beyond x, and
\* some that belong behind x; if a value from there is missing, there is room
\* for one more.
LEMMA OneMore ==
  ASSUME IsFiniteSet(Value), NEW n, NEW t, IsTable(t, n), OnceEach(t),
         NEW e \in 0 .. n - 1, NEW x \in 0 .. n - 1, NEW y \in 0 .. n - 1,
         NEW S, S \subseteq Filled(t),
         \A i \in S : x < Far(n, e, i) /\ Far(n, e, Home(n, t[i])) <= y,
         NEW v \in Value, v \notin Contents(t),
         x < Far(n, e, Home(n, v)), Far(n, e, Home(n, v)) <= y
  PROVE  /\ IsFiniteSet(HomeBetween(n, e, x, y)) /\ Cardinality(HomeBetween(n, e, x, y)) \in Nat
         /\ IsFiniteSet(S) /\ Cardinality(S) \in Nat
         /\ Cardinality(S) + 1 <= Cardinality(GoneOn(t, n, e, x)) + Cardinality(HomeBetween(n, e, x, y))
<1> DEFINE G == GoneOn(t, n, e, x)
           H == HomeBetween(n, e, x, y)
           A == S \cap G
           B == S \ G
           E == {t[i] : i \in B}
<1>0. n \in Nat \ {0} /\ Filled(t) = {i \in 0 .. n - 1 : t[i] \in Value} /\ IsFiniteSet(0 .. n - 1)
  BY TableFacts, FS_Interval
<1>1. IsFiniteSet(H) /\ Cardinality(H) \in Nat
  BY AtMost DEF HomeBetween
<1>2. IsFiniteSet(S) /\ Cardinality(S) \in Nat
  <2>1. S \subseteq 0 .. n - 1
    BY <1>0
  <2> QED BY <1>0, <2>1, AtMost
<1>3. IsFiniteSet(G)
  BY WithinFinite
<1>4. Cardinality(A) <= Cardinality(G) /\ Cardinality(A) \in Nat /\ Cardinality(G) \in Nat /\ IsFiniteSet(A)
  BY <1>3, AtMost
<1>5. IsFiniteSet(B) /\ Cardinality(B) \in Nat
  BY <1>2, AtMost
<1>6. Cardinality(S) = Cardinality(A) + Cardinality(B)
  <2>1. A \cap B = {} /\ A \cup B = S
    OBVIOUS
  <2> QED BY <1>4, <1>5, <2>1, Together
<1>7. ASSUME NEW i \in B PROVE t[i] \in H /\ t[i] # v
  <2>1. i \in S /\ i \in Filled(t) /\ i \in 0 .. n - 1 /\ t[i] \in Value
    BY <1>0
  <2>2. Home(n, t[i]) \in 0 .. n - 1
    BY <2>1, ProbeFacts
  <2>3. Far(n, e, Home(n, t[i])) \in 0 .. n - 1
    BY <1>0, <2>2, FarFacts
  <2>4. ~(Far(n, e, Home(n, t[i])) <= x)
    BY <2>1 DEF GoneOn
  <2>5. t[i] \in H
    BY <2>1, <2>3, <2>4 DEF HomeBetween
  <2> QED BY <2>1, <2>5 DEF Contents
<1>8. IsFiniteSet(E) /\ Cardinality(E) = Cardinality(B)
  BY <1>5, SlotsAsElements
<1>9. v \in H /\ v \notin E
  <2>1. Home(n, v) \in 0 .. n - 1
    BY ProbeFacts
  <2>2. Far(n, e, Home(n, v)) \in 0 .. n - 1
    BY <1>0, <2>1, FarFacts
  <2> QED BY <1>7, <2>2 DEF HomeBetween
<1>10. IsFiniteSet(E \cup {v}) /\ Cardinality(E \cup {v}) = Cardinality(E) + 1
  BY <1>8, <1>9, FS_AddElement
<1>11. Cardinality(E \cup {v}) <= Cardinality(H)
  <2>1. E \cup {v} \subseteq H
    BY <1>7, <1>9
  <2> QED BY <1>1, <2>1, AtMost
<1> QED BY <1>1, <1>2, <1>4, <1>5, <1>6, <1>8, <1>10, <1>11
\* All slots between the one where a new value belongs and the one it gets
\* hold elements.
LEMMA WayIsFull ==
  ASSUME NEW n, NEW t, IsTable(t, n), OnceEach(t), Reachable(t, n),
         NEW v \in Value, v \notin Contents(t),
         NEW i, NEW u, Written(t, v, i, u),
         NEW e \in 0 .. n - 1, t[e] = Empty, e # i
  PROVE  /\ Far(n, e, Home(n, v)) \in 1 .. n - 1 /\ Far(n, e, i) \in 1 .. n - 1
         /\ Far(n, e, Home(n, v)) <= Far(n, e, i)
         /\ \A s \in 0 .. n - 1 :
              Far(n, e, Home(n, v)) <= Far(n, e, s) /\ Far(n, e, s) < Far(n, e, i) => t[s] \in Value
<1> DEFINE h == Home(n, v)
<1>1. /\ i \in 0 .. n - 1 /\ u[i] = v /\ u[e] = Empty /\ i \in Filled(u)
      /\ IsTable(u, n) /\ Reachable(u, n)
      /\ \A k \in 0 .. n - 1 : k < Far(n, h, i) => t[Probe(t, v, k)] \in Value
  <2>1. Filled(u) = Filled(t) \cup {i}
    BY PutAbsent
  <2> QED BY <2>1, PutAbsent
<1>2. 1 <= Far(n, e, h) /\ Far(n, e, h) <= Far(n, e, i)
  BY <1>1, HomeFirst
<1>3. n \in Nat \ {0} /\ h \in 0 .. n - 1
  BY TableFacts, ProbeFacts
<1>4. Far(n, e, h) \in 0 .. n - 1 /\ Far(n, e, i) \in 0 .. n - 1
  BY <1>1, <1>3, FarFacts
<1>5. ASSUME NEW s \in 0 .. n - 1, Far(n, e, h) <= Far(n, e, s), Far(n, e, s) < Far(n, e, i)
      PROVE  t[s] \in Value
  <2>1. Far(n, h, s) = Far(n, e, s) - Far(n, e, h) /\ Far(n, e, s) \in 0 .. n - 1
    BY <1>3, <1>5, FarFacts
  <2>2. Far(n, h, i) = Far(n, e, i) - Far(n, e, h)
    BY <1>1, <1>2, <1>3, FarFacts
  <2>3. Far(n, h, s) \in 0 .. n - 1 /\ Probe(t, v, Far(n, h, s)) = s
    BY ProbeFacts
  <2>4. Far(n, h, s) < Far(n, h, i)
    BY <1>4, <1>5, <2>1, <2>2
  <2> QED BY <1>1, <2>3, <2>4
<1> QED BY <1>2, <1>3, <1>4, <1>5

\* Inserting a value keeps a table uncrowded: d short of the slot where the
\* value belongs ...
LEMMA CrowdBefore ==
  ASSUME IsFiniteSet(Value), NEW n, NEW t, IsTable(t, n), OnceEach(t), Reachable(t, n),
         NEW v \in Value, v \notin Contents(t),
         NEW i, NEW u, Written(t, v, i, u),
         NEW e \in 0 .. n - 1, t[e] = Empty, e # i,
         NEW d \in 0 .. n - 1, d < Far(n, e, Home(n, v)) \/ (t[i] = Del /\ Far(n, e, i) <= d)
  PROVE  UsedWithin(u, n, e, d) = UsedWithin(t, n, e, d) /\ GoneOn(u, n, e, d) = GoneOn(t, n, e, d)
<1>0. n \in Nat \ {0} /\ v # Empty /\ v # Del /\ Empty # Del
  BY TableFacts
<1>1. /\ i \in 0 .. n - 1 /\ u[i] = v /\ \A j \in 0 .. n - 1 : j # i => u[j] = t[j]
      /\ Filled(u) = Filled(t) \cup {i} /\ i \notin Filled(t)
  BY PutAbsent
<1>2. /\ Far(n, e, Home(n, v)) \in 1 .. n - 1 /\ Far(n, e, i) \in 1 .. n - 1
      /\ Far(n, e, Home(n, v)) <= Far(n, e, i)
  BY WayIsFull
<1>3. UsedWithin(u, n, e, d) = UsedWithin(t, n, e, d)
  <2>1. ASSUME NEW j \in 0 .. n - 1, Far(n, e, j) \in 1 .. d PROVE u[j] # Empty <=> t[j] # Empty
    <3>1. CASE j # i
      BY <1>1, <3>1
    <3>2. CASE j = i
      <4>1. t[i] = Del
        BY <1>0, <1>2, <2>1, <3>2
      <4> QED BY <1>0, <1>1, <3>2, <4>1
    <3> QED BY <3>1, <3>2
  <2> QED BY <2>1 DEF UsedWithin
<1>4. GoneOn(u, n, e, d) = GoneOn(t, n, e, d)
  <2>0. Filled(t) \subseteq 0 .. n - 1
    BY TableFacts
  <2>1. i \notin GoneOn(u, n, e, d)
    BY <1>0, <1>1, <1>2 DEF GoneOn
  <2>2. ASSUME NEW j, j # i PROVE j \in GoneOn(u, n, e, d) <=> j \in GoneOn(t, n, e, d)
    BY <1>1, <2>0, <2>2 DEF GoneOn
  <2>3. i \notin GoneOn(t, n, e, d)
    BY <1>1 DEF GoneOn
  <2>4. ASSUME NEW j PROVE j \in GoneOn(u, n, e, d) <=> j \in GoneOn(t, n, e, d)
    BY <2>1, <2>2, <2>3
  <2> QED BY <2>4
<1> QED BY <1>3, <1>4

\* The values that belong up to y are those up to x and those between.
LEMMA HomeSplit ==
  ASSUME IsFiniteSet(Value), NEW n \in Nat \ {0}, NEW e, NEW x \in Nat, NEW y \in Nat, x <= y
  PROVE  Cardinality(HomeWithin(n, e, y))
           = Cardinality(HomeWithin(n, e, x)) + Cardinality(HomeBetween(n, e, x, y))
<1>1. IsFiniteSet(HomeWithin(n, e, x)) /\ IsFiniteSet(HomeBetween(n, e, x, y))
  BY AtMost DEF HomeWithin, HomeBetween
<1>2. HomeWithin(n, e, x) \cap HomeBetween(n, e, x, y) = {}
  BY DEF HomeWithin, HomeBetween
<1>3. HomeWithin(n, e, x) \cup HomeBetween(n, e, x, y) = HomeWithin(n, e, y)
  BY DEF HomeWithin, HomeBetween
<1> QED BY <1>1, <1>2, <1>3, Together

\* ... between the two slots, where the new value goes on beyond d ...
LEMMA CrowdBetween ==
  ASSUME IsFiniteSet(Value), NEW n, NEW t, IsTable(t, n), OnceEach(t), Reachable(t, n), Uncrowded(t, n),
         NEW v \in Value, v \notin Contents(t),
         NEW i, NEW u, Written(t, v, i, u),
         NEW e \in 0 .. n - 1, t[e] = Empty, e # i,
         NEW d \in 0 .. n - 1, Far(n, e, Home(n, v)) <= d, d < Far(n, e, i)
  PROVE  Cardinality(UsedWithin(u, n, e, d)) + Cardinality(GoneOn(u, n, e, d))
           <= Cardinality(HomeWithin(n, e, d))
<1> DEFINE a == Far(n, e, Home(n, v))
           x == a - 1
           L == {j \in UsedWithin(t, n, e, d) : x < Far(n, e, j)}
           G == GoneOn(t, n, e, d)
           U == UsedWithin(t, n, e, x)
<1>0. /\ n \in Nat \ {0} /\ v # Empty /\ v # Del /\ Empty # Del
      /\ Filled(t) = {j \in 0 .. n - 1 : t[j] \in Value}
  BY TableFacts
<1>1. /\ i \in 0 .. n - 1 /\ u[i] = v /\ \A j \in 0 .. n - 1 : j # i => u[j] = t[j]
      /\ Filled(u) = Filled(t) \cup {i} /\ i \notin Filled(t)
  BY PutAbsent
<1>2. /\ a \in 1 .. n - 1 /\ Far(n, e, i) \in 1 .. n - 1 /\ a <= Far(n, e, i)
      /\ \A s \in 0 .. n - 1 : a <= Far(n, e, s) /\ Far(n, e, s) < Far(n, e, i) => t[s] \in Value
  BY WayIsFull
<1>3. x \in 0 .. n - 1 /\ x < a /\ x <= d /\ \A j \in 0 .. n - 1 : Far(n, e, j) \in 0 .. n - 1
  <2>1. \A j \in 0 .. n - 1 : Far(n, e, j) \in 0 .. n - 1
    BY <1>0, FarFacts
  <2>2. a <= d
    OBVIOUS
  <2> HIDE DEF a
  <2> QED BY <1>0, <1>2, <2>1, <2>2
<1> HIDE DEF a
<1>4. UsedWithin(u, n, e, d) \subseteq U \cup L
  <2>1. ASSUME NEW j \in UsedWithin(u, n, e, d) PROVE j \in U \cup L
    <3>1. j \in 0 .. n - 1 /\ u[j] # Empty /\ Far(n, e, j) \in 1 .. d
      BY DEF UsedWithin
    <3>2. j # i /\ t[j] # Empty
      BY <1>0, <1>1, <1>2, <3>1
    <3>3. j \in UsedWithin(t, n, e, d)
      BY <3>1, <3>2 DEF UsedWithin
    <3>4. CASE x < Far(n, e, j)
      BY <3>3, <3>4
    <3>5. CASE ~(x < Far(n, e, j))
      BY <1>3, <3>1, <3>2, <3>5 DEF UsedWithin
    <3> QED BY <3>4, <3>5
  <2> QED BY <2>1
<1>5. GoneOn(u, n, e, d) \subseteq G \cup {i}
  BY <1>0, <1>1 DEF GoneOn
<1>6. L \subseteq Filled(t) /\ \A j \in L : x < Far(n, e, j) /\ Far(n, e, Home(n, t[j])) <= d
  <2>1. ASSUME NEW j \in L PROVE j \in Filled(t) /\ x < Far(n, e, j) /\ Far(n, e, Home(n, t[j])) <= d
    <3>1. j \in 0 .. n - 1 /\ x < Far(n, e, j) /\ Far(n, e, j) <= d
      BY DEF UsedWithin
    <3>2. t[j] \in Value
      BY <1>0, <1>2, <1>3, <3>1
    <3>3. j \in Filled(t)
      BY <1>0, <3>1, <3>2
    <3>4. Home(n, t[j]) \in 0 .. n - 1 /\ Far(n, e, Home(n, t[j])) <= Far(n, e, j)
      BY <3>3, HomeFirst
    <3>5. Far(n, e, Home(n, t[j])) \in 0 .. n - 1
      BY <1>0, <3>4, FarFacts
    <3> QED BY <1>0, <1>3, <3>1, <3>3, <3>4, <3>5
  <2> QED BY <2>1
<1>7. G \subseteq Filled(t) /\ \A j \in G : x < Far(n, e, j) /\ Far(n, e, Home(n, t[j])) <= d
  <2>1. ASSUME NEW j \in G PROVE j \in Filled(t) /\ x < Far(n, e, j) /\ Far(n, e, Home(n, t[j])) <= d
    <3>1. j \in Filled(t) /\ Far(n, e, Home(n, t[j])) <= d /\ d < Far(n, e, j) /\ j \in 0 .. n - 1
      BY <1>0 DEF GoneOn
    <3> QED BY <1>0, <1>2, <1>3, <3>1
  <2> QED BY <2>1
<1>8. L \cap G = {}
  <2>1. ASSUME NEW j \in L, j \in G PROVE FALSE
    <3>1. j \in 0 .. n - 1 /\ Far(n, e, j) <= d /\ d < Far(n, e, j)
      BY <2>1 DEF UsedWithin, GoneOn
    <3> QED BY <1>0, <1>3, <3>1
  <2> QED BY <2>1
<1>9. IsFiniteSet(U) /\ IsFiniteSet(G) /\ IsFiniteSet(UsedWithin(t, n, e, d))
      /\ Cardinality(U) \in Nat /\ Cardinality(G) \in Nat
  BY WithinFinite
<1>10. IsFiniteSet(L) /\ Cardinality(L) \in Nat
  <2>1. L \subseteq UsedWithin(t, n, e, d)
    OBVIOUS
  <2> QED BY <1>9, <2>1, AtMost
<1>11. Cardinality(U) + Cardinality(GoneOn(t, n, e, x)) <= Cardinality(HomeWithin(n, e, x))
  BY <1>3 DEF Uncrowded
<1>12. /\ Cardinality(HomeBetween(n, e, x, d)) \in Nat
       /\ Cardinality(L \cup G) + 1 <= Cardinality(GoneOn(t, n, e, x)) + Cardinality(HomeBetween(n, e, x, d))
  <2> DEFINE S == L \cup G
  <2>1. S \subseteq Filled(t) /\ \A j \in S : x < Far(n, e, j) /\ Far(n, e, Home(n, t[j])) <= d
    BY <1>6, <1>7
  <2>2. x < Far(n, e, Home(n, v)) /\ Far(n, e, Home(n, v)) <= d
    BY <1>3 DEF a
  <2> HIDE DEF S, L, G, x
  <2>3. /\ Cardinality(HomeBetween(n, e, x, d)) \in Nat
        /\ Cardinality(S) + 1 <= Cardinality(GoneOn(t, n, e, x)) + Cardinality(HomeBetween(n, e, x, d))
    BY <1>3, <2>1, <2>2, OneMore
  <2> QED BY <2>3 DEF S
<1> HIDE DEF L, G, U
<1>13. Cardinality(L \cup G) = Cardinality(L) + Cardinality(G)
  BY <1>8, <1>9, <1>10, Together
<1>14. Cardinality(UsedWithin(u, n, e, d)) <= Cardinality(U) + Cardinality(L)
       /\ Cardinality(UsedWithin(u, n, e, d)) \in Nat
  <2>1. U \cap L = {}
    BY <1>0, <1>3 DEF U, L, UsedWithin
  <2>2. IsFiniteSet(U \cup L) /\ Cardinality(U \cup L) = Cardinality(U) + Cardinality(L)
    BY <1>9, <1>10, <2>1, Together
  <2> QED BY <1>4, <2>2, AtMost
<1>15. Cardinality(GoneOn(u, n, e, d)) <= Cardinality(G) + 1 /\ Cardinality(GoneOn(u, n, e, d)) \in Nat
  <2>1. i \notin G
    BY <1>1 DEF G, GoneOn
  <2>2. IsFiniteSet(G \cup {i}) /\ Cardinality(G \cup {i}) = Cardinality(G) + 1
    BY <1>9, <2>1, FS_AddElement
  <2> QED BY <1>5, <2>2, AtMost
<1>16. Cardinality(HomeWithin(n, e, d)) = Cardinality(HomeWithin(n, e, x)) + Cardinality(HomeBetween(n, e, x, d))
  <2>1. x \in Nat /\ d \in Nat /\ x <= d
    BY <1>0, <1>3
  <2> QED BY <1>0, <2>1, HomeSplit
<1>17. Cardinality(GoneOn(t, n, e, x)) \in Nat /\ Cardinality(HomeWithin(n, e, x)) \in Nat
  BY WithinFinite
<1> QED BY <1>9, <1>10, <1>11, <1>12, <1>13, <1>14, <1>15, <1>16, <1>17

\* ... and beyond the slot, where what follows it has room of its own.
LEMMA CrowdBeyond ==
  ASSUME IsFiniteSet(Value), NEW n, NEW t, IsTable(t, n), OnceEach(t), Reachable(t, n), Uncrowded(t, n),
         NEW v \in Value, v \notin Contents(t),
         NEW i, NEW u, Written(t, v, i, u),
         NEW e \in 0 .. n - 1, t[e] = Empty, e # i, t[i] = Empty,
         NEW d \in 0 .. n - 1, Far(n, e, i) <= d
  PROVE  Cardinality(UsedWithin(u, n, e, d)) + Cardinality(GoneOn(u, n, e, d))
           <= Cardinality(HomeWithin(n, e, d))
<1> DEFINE a == Far(n, e, Home(n, v))
           b == Far(n, e, i)
           x == a - 1
           c == d - b
           L == {j \in Filled(t) : a <= Far(n, e, j) /\ Far(n, e, j) < b}
           G == GoneOn(t, n, i, c)
           U == UsedWithin(t, n, e, x)
           W == UsedWithin(t, n, i, c)
<1>0. /\ n \in Nat \ {0} /\ v # Empty /\ v # Del /\ Empty # Del
      /\ Filled(t) = {j \in 0 .. n - 1 : t[j] \in Value}
  BY TableFacts
<1>1. /\ i \in 0 .. n - 1 /\ u[i] = v /\ \A j \in 0 .. n - 1 : j # i => u[j] = t[j]
      /\ Filled(u) = Filled(t) \cup {i} /\ i \notin Filled(t)
  BY PutAbsent
<1>2. /\ a \in 1 .. n - 1 /\ b \in 1 .. n - 1 /\ a <= b
      /\ \A s \in 0 .. n - 1 : a <= Far(n, e, s) /\ Far(n, e, s) < b => t[s] \in Value
  BY WayIsFull
<1>3. /\ \A j \in 0 .. n - 1 : Far(n, e, j) \in 0 .. n - 1 /\ Far(n, i, j) \in 0 .. n - 1
      /\ \A j \in 0 .. n - 1 : b <= Far(n, e, j) => Far(n, i, j) = Far(n, e, j) - b
      /\ \A j \in 0 .. n - 1 : Far(n, e, j) < b => Far(n, i, j) = n + Far(n, e, j) - b
      /\ \A j \in 0 .. n - 1 : Far(n, e, j) = b => j = i
  <2>1. ASSUME NEW j \in 0 .. n - 1
        PROVE  /\ Far(n, e, j) \in 0 .. n - 1 /\ Far(n, i, j) \in 0 .. n - 1
               /\ b <= Far(n, e, j) => Far(n, i, j) = Far(n, e, j) - b
               /\ Far(n, e, j) < b => Far(n, i, j) = n + Far(n, e, j) - b
               /\ Far(n, i, j) = 0 => j = i
    <3>1. Far(n, e, j) \in 0 .. n - 1
      BY <1>0, FarFacts
    <3>2. Far(n, i, j) \in 0 .. n - 1 /\ (Far(n, i, j) = 0 => j = i)
      BY <1>0, <1>1 DEF Far
    <3>3. Far(n, e, i) <= Far(n, e, j) => Far(n, i, j) = Far(n, e, j) - Far(n, e, i)
      BY <1>0, <1>1, FarFacts
    <3>4. Far(n, e, j) < Far(n, e, i) => Far(n, i, j) = n + Far(n, e, j) - Far(n, e, i)
      BY <1>0, <1>1, FarFacts
    <3> QED BY <3>1, <3>2, <3>3, <3>4
  <2>2. ASSUME NEW j \in 0 .. n - 1, Far(n, e, j) = b PROVE j = i
    <3>1. Far(n, i, j) = Far(n, e, j) - b
      BY <1>2, <2>1, <2>2
    <3>2. Far(n, i, j) = 0
      BY <1>2, <2>2, <3>1
    <3> QED BY <2>1, <3>2
  <2> QED BY <2>1, <2>2
<1> b <= d
  OBVIOUS
<1> HIDE DEF a, b
<1>4. x \in 0 .. n - 1 /\ x < a /\ x <= b /\ c \in 0 .. n - 1 /\ d \in Nat /\ b \in Nat /\ x \in Nat /\ b <= d
  BY <1>0, <1>2
<1>5. UsedWithin(u, n, e, d) \subseteq U \cup L \cup (W \cup {i})
  <2>1. ASSUME NEW j \in UsedWithin(u, n, e, d), j # i PROVE j \in U \cup L \cup W
    <3>1. j \in 0 .. n - 1 /\ t[j] # Empty /\ Far(n, e, j) \in 1 .. d
      BY <1>1, <2>1 DEF UsedWithin
    <3>2. CASE Far(n, e, j) < a
      BY <1>2, <1>3, <3>1, <3>2 DEF UsedWithin
    <3>3. CASE a <= Far(n, e, j) /\ Far(n, e, j) < b
      BY <1>0, <1>2, <3>1, <3>3
    <3>4. CASE b <= Far(n, e, j)
      <4>1. Far(n, e, j) # b
        BY <1>3, <2>1, <3>1
      <4>2. Far(n, i, j) = Far(n, e, j) - b /\ Far(n, e, j) \in 0 .. n - 1
        BY <1>3, <3>1, <3>4
      <4>3. Far(n, i, j) \in 1 .. c
        BY <1>2, <3>1, <3>4, <4>1, <4>2
      <4> QED BY <3>1, <4>3 DEF UsedWithin
    <3> QED BY <1>2, <1>3, <3>1, <3>2, <3>3, <3>4
  <2> QED BY <2>1
<1>6. GoneOn(u, n, e, d) \subseteq G
  <2>1. ASSUME NEW j \in GoneOn(u, n, e, d) PROVE j \in G
    <3>1. j \in Filled(u) /\ Far(n, e, Home(n, u[j])) <= d /\ d < Far(n, e, j)
      BY DEF GoneOn
    <3>2. j # i
      BY <1>2, <1>4, <3>1 DEF b
    <3>3. j \in Filled(t) /\ j \in 0 .. n - 1 /\ u[j] = t[j]
      BY <1>0, <1>1, <3>1, <3>2
    <3>4. /\ Home(n, t[j]) \in 0 .. n - 1
          /\ Far(n, i, Home(n, t[j])) <= Far(n, i, j)
      BY <1>1, <3>3, HomeFirst
    <3>5. Far(n, e, j) \in 0 .. n - 1 /\ b <= Far(n, e, j) /\ Far(n, i, j) = Far(n, e, j) - b
      BY <1>3, <1>4, <3>1, <3>3
    <3> DEFINE h == Home(n, t[j])
    <3>6. Far(n, e, h) \in 0 .. n - 1 /\ Far(n, e, h) <= d
      BY <1>3, <3>1, <3>3, <3>4
    <3>7. b <= Far(n, e, h)
      <4>1. Far(n, e, h) < b => Far(n, i, h) = n + Far(n, e, h) - b
        BY <1>3, <3>4
      <4> QED BY <1>0, <1>2, <3>4, <3>5, <3>6, <4>1
    <3>8. Far(n, i, h) = Far(n, e, h) - b
      BY <1>3, <3>4, <3>7
    <3>9. Far(n, i, h) <= c /\ c < Far(n, i, j)
      BY <1>2, <1>4, <3>1, <3>5, <3>6, <3>8
    <3> QED BY <3>3, <3>9 DEF GoneOn
  <2> QED BY <2>1
<1>7. ASSUME NEW j \in L PROVE x < Far(n, e, j) /\ Far(n, e, Home(n, t[j])) <= b
  <2>1. j \in Filled(t) /\ j \in 0 .. n - 1 /\ a <= Far(n, e, j) /\ Far(n, e, j) < b
    BY <1>0
  <2>2. Home(n, t[j]) \in 0 .. n - 1 /\ Far(n, e, Home(n, t[j])) <= Far(n, e, j)
    BY <2>1, HomeFirst
  <2>3. Far(n, e, Home(n, t[j])) \in 0 .. n - 1 /\ Far(n, e, j) \in 0 .. n - 1
    BY <1>3, <2>1, <2>2
  <2> QED BY <1>2, <1>4, <2>1, <2>2, <2>3
<1>8. IsFiniteSet(U) /\ IsFiniteSet(W) /\ IsFiniteSet(G)
      /\ Cardinality(U) \in Nat /\ Cardinality(W) \in Nat /\ Cardinality(G) \in Nat
  BY WithinFinite
<1>9. Cardinality(U) + Cardinality(GoneOn(t, n, e, x)) <= Cardinality(HomeWithin(n, e, x))
  BY <1>4 DEF Uncrowded
<1>10. Cardinality(W) + Cardinality(G) <= Cardinality(HomeWithin(n, i, c))
  BY <1>1, <1>4 DEF Uncrowded
<1>11. /\ Cardinality(HomeBetween(n, e, x, b)) \in Nat
       /\ IsFiniteSet(L) /\ Cardinality(L) \in Nat
       /\ Cardinality(L) + 1 <= Cardinality(GoneOn(t, n, e, x)) + Cardinality(HomeBetween(n, e, x, b))
  <2>1. L \subseteq Filled(t)
    OBVIOUS
  <2>2. x < Far(n, e, Home(n, v)) /\ Far(n, e, Home(n, v)) <= b /\ b \in 0 .. n - 1
    BY <1>2, <1>4 DEF a
  <2> HIDE DEF L, x
  <2> QED BY <1>4, <1>7, <2>1, <2>2, OneMore
<1> HIDE DEF L, G, U, W
<1>12. /\ Cardinality(UsedWithin(u, n, e, d)) <= Cardinality(U) + Cardinality(L) + Cardinality(W) + 1
       /\ Cardinality(UsedWithin(u, n, e, d)) \in Nat
  <2>1. U \cap L = {}
    <3>1. ASSUME NEW j \in U, j \in L PROVE FALSE
      <4>1. j \in 0 .. n - 1 /\ Far(n, e, j) <= x /\ a <= Far(n, e, j)
        BY <3>1 DEF U, L, UsedWithin
      <4>2. Far(n, e, j) \in 0 .. n - 1
        BY <1>3, <4>1
      <4> QED BY <1>0, <1>2, <4>1, <4>2
    <3> QED BY <3>1
  <2>2. IsFiniteSet(U \cup L) /\ Cardinality(U \cup L) = Cardinality(U) + Cardinality(L)
    BY <1>8, <1>11, <2>1, Together
  <2>3. i \notin W
    <3>1. Far(n, i, i) = 0
      BY <1>0, <1>1 DEF Far
    <3> QED BY <3>1 DEF W, UsedWithin
  <2>4. IsFiniteSet(W \cup {i}) /\ Cardinality(W \cup {i}) = Cardinality(W) + 1
    BY <1>8, <2>3, FS_AddElement
  <2>5. (U \cup L) \cap (W \cup {i}) = {}
    <3>1. ASSUME NEW j \in U \cup L PROVE Far(n, e, j) < b /\ j \in 0 .. n - 1
      BY <1>0, <1>2, <1>3, <1>4 DEF U, L, UsedWithin
    <3>2. i \notin U \cup L
      BY <1>2, <3>1 DEF b
    <3>3. ASSUME NEW j \in W PROVE ~(Far(n, e, j) < b)
      <4>1. j \in 0 .. n - 1 /\ Far(n, i, j) <= c
        BY DEF W, UsedWithin
      <4>2. Far(n, e, j) < b => Far(n, i, j) = n + Far(n, e, j) - b
        BY <1>3, <4>1
      <4> QED BY <1>0, <1>2, <1>3, <1>4, <4>1, <4>2
    <3> QED BY <3>1, <3>2, <3>3
  <2>6. /\ IsFiniteSet((U \cup L) \cup (W \cup {i}))
        /\ Cardinality((U \cup L) \cup (W \cup {i})) = Cardinality(U \cup L) + Cardinality(W \cup {i})
    BY <2>2, <2>4, <2>5, Together
  <2>7. /\ Cardinality(UsedWithin(u, n, e, d)) \in Nat
        /\ Cardinality(UsedWithin(u, n, e, d)) <= Cardinality((U \cup L) \cup (W \cup {i}))
    BY <1>5, <2>6, AtMost
  <2> QED BY <1>8, <1>11, <2>2, <2>4, <2>6, <2>7
<1>13. Cardinality(GoneOn(u, n, e, d)) <= Cardinality(G) /\ Cardinality(GoneOn(u, n, e, d)) \in Nat
  BY <1>6, <1>8, AtMost
<1>14. /\ Cardinality(HomeWithin(n, e, x)) + Cardinality(HomeBetween(n, e, x, b)) + Cardinality(HomeWithin(n, i, c))
            <= Cardinality(HomeWithin(n, e, d))
       /\ Cardinality(HomeWithin(n, i, c)) \in Nat
  <2>1. Cardinality(HomeWithin(n, e, b)) = Cardinality(HomeWithin(n, e, x)) + Cardinality(HomeBetween(n, e, x, b))
    BY <1>0, <1>4, HomeSplit
  <2>2. Cardinality(HomeWithin(n, e, d)) = Cardinality(HomeWithin(n, e, b)) + Cardinality(HomeBetween(n, e, b, d))
    BY <1>0, <1>4, HomeSplit
  <2>3. HomeWithin(n, i, c) \subseteq HomeBetween(n, e, b, d)
    <3>1. ASSUME NEW w \in HomeWithin(n, i, c) PROVE w \in HomeBetween(n, e, b, d)
      <4> DEFINE h == Home(n, w)
      <4>1. w \in Value /\ Far(n, i, h) \in 1 .. c
        BY DEF HomeWithin
      <4>2. h \in 0 .. n - 1
        BY <4>1, ProbeFacts
      <4>3. Far(n, e, h) \in 0 .. n - 1 /\ (Far(n, e, h) < b => Far(n, i, h) = n + Far(n, e, h) - b)
            /\ (b <= Far(n, e, h) => Far(n, i, h) = Far(n, e, h) - b)
        BY <1>3, <4>2
      <4>4. Far(n, e, h) \in b + 1 .. d
        BY <1>0, <1>2, <1>4, <4>1, <4>3
      <4> QED BY <4>1, <4>4 DEF HomeBetween
    <3> QED BY <3>1
  <2>4. IsFiniteSet(HomeBetween(n, e, b, d))
    BY AtMost DEF HomeBetween
  <2>5. /\ Cardinality(HomeWithin(n, i, c)) <= Cardinality(HomeBetween(n, e, b, d))
        /\ Cardinality(HomeWithin(n, i, c)) \in Nat /\ Cardinality(HomeBetween(n, e, b, d)) \in Nat
    BY <2>3, <2>4, AtMost
  <2>6. Cardinality(HomeWithin(n, e, b)) \in Nat /\ Cardinality(HomeWithin(n, e, x)) \in Nat
    BY WithinFinite
  <2> QED BY <1>11, <2>1, <2>2, <2>5, <2>6
<1>15. /\ Cardinality(GoneOn(t, n, e, x)) \in Nat /\ Cardinality(HomeWithin(n, e, x)) \in Nat
       /\ Cardinality(HomeWithin(n, e, d)) \in Nat
  BY WithinFinite
<1> QED BY <1>8, <1>9, <1>10, <1>11, <1>12, <1>13, <1>14, <1>15

LEMMA CrowdPut ==
  ASSUME IsFiniteSet(Value), NEW n, NEW t, IsTable(t, n), OnceEach(t), Reachable(t, n), Uncrowded(t, n),
         NEW v \in Value, v \notin Contents(t),
         NEW i, NEW u, Written(t, v, i, u), NEW e \in 0 .. n - 1, t[e] = Empty
  PROVE  Uncrowded(u, n)
<1> SUFFICES ASSUME NEW f \in 0 .. n - 1, u[f] = Empty, NEW d \in 0 .. n - 1
             PROVE  Cardinality(UsedWithin(u, n, f, d)) + Cardinality(GoneOn(u, n, f, d))
                      <= Cardinality(HomeWithin(n, f, d))
  BY DEF Uncrowded
<1>1. /\ i \in 0 .. n - 1 /\ u[i] = v /\ \A j \in 0 .. n - 1 : j # i => u[j] = t[j]
      /\ t[i] \in {Empty, Del}
  BY PutAbsent
<1>2. n \in Nat \ {0} /\ v # Empty
  BY TableFacts
<1>3. f # i /\ t[f] = Empty
  BY <1>1, <1>2
<1>4. Far(n, f, Home(n, v)) \in 1 .. n - 1 /\ Far(n, f, i) \in 1 .. n - 1
  BY <1>3, WayIsFull
<1>5. CASE d < Far(n, f, Home(n, v)) \/ (t[i] = Del /\ Far(n, f, i) <= d)
  <2>1. UsedWithin(u, n, f, d) = UsedWithin(t, n, f, d) /\ GoneOn(u, n, f, d) = GoneOn(t, n, f, d)
    BY <1>3, <1>5, CrowdBefore
  <2> QED BY <1>3, <2>1 DEF Uncrowded
<1>6. CASE Far(n, f, Home(n, v)) <= d /\ d < Far(n, f, i)
  BY <1>3, <1>6, CrowdBetween
<1>7. CASE Far(n, f, i) <= d /\ t[i] = Empty
  BY <1>3, <1>7, CrowdBeyond
<1> QED BY <1>1, <1>2, <1>4, <1>5, <1>6, <1>7

\* Erasing only shortens what went on.
LEMMA CrowdErase ==
  ASSUME IsFiniteSet(Value), NEW n, NEW t, IsTable(t, n), OnceEach(t), Reachable(t, n), Uncrowded(t, n),
         NEW i \in Filled(t), NEW u, Erased(t, i, u)
  PROVE  Uncrowded(u, n)
<1> SUFFICES ASSUME NEW f \in 0 .. n - 1, u[f] = Empty, NEW d \in 0 .. n - 1
             PROVE  Cardinality(UsedWithin(u, n, f, d)) + Cardinality(GoneOn(u, n, f, d))
                      <= Cardinality(HomeWithin(n, f, d))
  BY DEF Uncrowded
<1>1. /\ Filled(u) = Filled(t) \ {i} /\ \A j \in Filled(u) : u[j] = t[j]
      /\ \A j \in 0 .. n - 1 : u[j] = Empty <=> t[j] = Empty
  BY EraseKeeps
<1>2. UsedWithin(u, n, f, d) = UsedWithin(t, n, f, d)
  BY <1>1 DEF UsedWithin
<1>3. GoneOn(u, n, f, d) \subseteq GoneOn(t, n, f, d)
  BY <1>1 DEF GoneOn
<1>4. /\ Cardinality(UsedWithin(t, n, f, d)) \in Nat /\ IsFiniteSet(GoneOn(t, n, f, d))
      /\ Cardinality(HomeWithin(n, f, d)) \in Nat
  BY WithinFinite
<1>5. /\ Cardinality(GoneOn(u, n, f, d)) <= Cardinality(GoneOn(t, n, f, d))
      /\ Cardinality(GoneOn(u, n, f, d)) \in Nat /\ Cardinality(GoneOn(t, n, f, d)) \in Nat
  BY <1>3, <1>4, AtMost
<1>6. Cardinality(UsedWithin(t, n, f, d)) + Cardinality(GoneOn(t, n, f, d)) <= Cardinality(HomeWithin(n, f, d))
  BY <1>1 DEF Uncrowded
<1> QED BY <1>2, <1>4, <1>5, <1>6

-----------------------------------------------------------------------------
(* A set in order: its table of n slots holds the elements E, its count is *)
(* that of the slots in use, and a quarter of the slots is empty.          *)

Orderly(t, n, E) == /\ IsTable(t, n) /\ OnceEach(t) /\ Reachable(t, n)
                    /\ IsFiniteSet(Value) => Uncrowded(t, n)
                    /\ Contents(t) = E

SetInOrder(t, o, n, E) == Orderly(t, n, E) /\ o = Cardinality(InUse(t)) /\ o < n - n \div 4 /\ n >= 4

LEMMA BlankIsOrderly ==
  ASSUME NEW n \in Nat \ {0}
  PROVE  /\ Orderly(Blank(n), n, {}) /\ Cardinality(InUse(Blank(n))) = 0
         /\ \A i \in 0 .. n - 1 : Blank(n)[i] = Empty
<1> DEFINE t == Blank(n)
<1>1. IsTable(t, n) /\ \A i \in 0 .. n - 1 : t[i] = Empty
  BY DEF Blank, IsTable, Content
<1> HIDE DEF t
<1>2. Filled(t) = {} /\ InUse(t) = {}
  <2>1. DOMAIN t = 0 .. n - 1 /\ Filled(t) = {i \in 0 .. n - 1 : t[i] \in Value} /\ Empty \notin Value
    BY <1>1, TableFacts
  <2> QED BY <1>1, <2>1 DEF InUse
<1>3. OnceEach(t) /\ Reachable(t, n) /\ Contents(t) = {}
  BY <1>2 DEF OnceEach, Reachable, Contents
<1>4. ASSUME IsFiniteSet(Value) PROVE Uncrowded(t, n)
  <2> SUFFICES ASSUME NEW e \in 0 .. n - 1, NEW d \in 0 .. n - 1
               PROVE  Cardinality(UsedWithin(t, n, e, d)) + Cardinality(GoneOn(t, n, e, d))
                        <= Cardinality(HomeWithin(n, e, d))
    BY DEF Uncrowded
  <2>1. UsedWithin(t, n, e, d) = {} /\ GoneOn(t, n, e, d) = {}
    BY <1>1, <1>2 DEF UsedWithin, GoneOn
  <2>2. Cardinality(HomeWithin(n, e, d)) \in Nat
    BY <1>1, <1>4, WithinFinite
  <2> QED BY <2>1, <2>2, FS_EmptySet
<1>5. Cardinality(InUse(t)) = 0
  BY <1>2, FS_EmptySet
<1> QED BY <1>1, <1>3, <1>4, <1>5 DEF Orderly, t

\* The slots in use, and those that are not.
LEMMA InUseFacts ==
  ASSUME NEW n, NEW t, IsTable(t, n)
  PROVE  /\ InUse(t) \subseteq 0 .. n - 1 /\ IsFiniteSet(InUse(t)) /\ Cardinality(InUse(t)) \in Nat
         /\ Cardinality(InUse(t)) < n => \E e \in 0 .. n - 1 : t[e] = Empty
<1>1. n \in Nat \ {0} /\ DOMAIN t = 0 .. n - 1
  BY TableFacts
<1>2. IsFiniteSet(0 .. n - 1) /\ Cardinality(0 .. n - 1) = n
  BY <1>1, FS_Interval
<1>3. InUse(t) \subseteq 0 .. n - 1
  BY <1>1 DEF InUse
<1>4. IsFiniteSet(InUse(t)) /\ Cardinality(InUse(t)) \in Nat
  BY <1>2, <1>3, AtMost
<1>5. ASSUME \A e \in 0 .. n - 1 : t[e] # Empty PROVE Cardinality(InUse(t)) = n
  <2>1. InUse(t) = 0 .. n - 1
    BY <1>1, <1>5 DEF InUse
  <2> QED BY <1>2, <2>1
<1> QED BY <1>1, <1>3, <1>4, <1>5

\* Inserting a value into an orderly table with an empty slot.
Inserted(t, v, s) == s = Put([table |-> t, occupied |-> Cardinality(InUse(t))], v)

PutResult(n, t, E, v, s) ==
  /\ s = [table |-> s.table, occupied |-> s.occupied]
  /\ Orderly(s.table, n, E \cup {v}) /\ s.occupied = Cardinality(InUse(s.table))
  /\ v \in E => s.table = t
  /\ v \notin E => s.occupied <= Cardinality(InUse(t)) + 1

LEMMA PutStep ==
  ASSUME NEW n, NEW t, NEW E, Orderly(t, n, E), Cardinality(InUse(t)) < n, NEW v \in Value, NEW s,
         Inserted(t, v, s)
  PROVE  PutResult(n, t, E, v, s)
<1> DEFINE i == FindIndex(t, v)
           u == [t EXCEPT ![i] = v]
           o == Cardinality(InUse(t))
<1>0. /\ IsTable(t, n) /\ OnceEach(t) /\ Reachable(t, n) /\ (IsFiniteSet(Value) => Uncrowded(t, n))
      /\ Contents(t) = E
  BY DEF Orderly
<1>1. PICK e \in 0 .. n - 1 : t[e] = Empty
  BY <1>0, InUseFacts
<1>2. t[i] = v <=> v \in E
  BY <1>0, <1>1, HasIsMembership
<1>3. s.table = u /\ s.occupied = (IF t[i] = Empty THEN o + 1 ELSE o)
      /\ s = [table |-> s.table, occupied |-> s.occupied]
  BY DEF Inserted, Put
<1>4. n \in Nat \ {0} /\ v # Empty /\ v # Del /\ o \in Nat /\ DOMAIN t = 0 .. n - 1
      /\ Filled(t) = {j \in 0 .. n - 1 : t[j] \in Value} /\ IsFiniteSet(InUse(t))
  BY <1>0, TableFacts, InUseFacts
<1>5. CASE v \in E
  <2>1. t[i] = v
    BY <1>2, <1>5
  <2>2. PICK j \in 0 .. n - 1 : t[j] = v
    BY <1>0, <1>4, <1>5 DEF Contents
  <2>3. i = j
    BY <1>0, <2>2, FindPresent
  <2>4. u = t
    BY <1>4, <2>1, <2>3, <1>0 DEF IsTable
  <2>5. E \cup {v} = E
    BY <1>5
  <2>6. s.table = t /\ s.occupied = o
    BY <1>3, <1>4, <2>1, <2>4
  <2>7. Orderly(s.table, n, E \cup {v})
    BY <2>5, <2>6
  <2>8. s.occupied = Cardinality(InUse(s.table))
    BY <2>6
  <2> QED BY <1>3, <1>5, <2>6, <2>7, <2>8 DEF PutResult
<1>6. CASE v \notin E
  <2>0. Written(t, v, i, u)
    BY DEF Written
  <2> HIDE DEF i, u
  <2>1. /\ i \in 0 .. n - 1 /\ t[i] \in {Empty, Del}
        /\ u[i] = v /\ \A j \in 0 .. n - 1 : j # i => u[j] = t[j]
        /\ IsTable(u, n) /\ OnceEach(u) /\ Reachable(u, n)
        /\ Contents(u) = Contents(t) \cup {v} /\ InUse(u) = InUse(t) \cup {i}
    BY <1>0, <1>1, <1>6, <2>0, PutAbsent
  <2>2. ASSUME IsFiniteSet(Value) PROVE Uncrowded(u, n)
    BY <1>0, <1>1, <1>6, <2>0, <2>2, CrowdPut
  <2>3. Orderly(u, n, E \cup {v})
    BY <1>0, <2>1, <2>2 DEF Orderly
  <2>4. Cardinality(InUse(u)) = IF t[i] = Empty THEN o + 1 ELSE o
    <3>1. CASE t[i] = Empty
      <4>1. i \notin InUse(t)
        BY <3>1 DEF InUse
      <4> QED BY <1>4, <2>1, <3>1, <4>1, FS_AddElement
    <3>2. CASE t[i] # Empty
      <4>1. i \in InUse(t)
        BY <1>4, <2>1, <3>2 DEF InUse
      <4>2. InUse(u) = InUse(t)
        BY <2>1, <4>1
      <4> QED BY <3>2, <4>2
    <3> QED BY <3>1, <3>2
  <2>5. s.occupied <= o + 1
    BY <1>3, <1>4
  <2> QED BY <1>3, <1>6, <2>3, <2>4, <2>5 DEF PutResult
<1> QED BY <1>5, <1>6

-----------------------------------------------------------------------------
(* Growth: the elements of t move over one by one. *)

Moves(f, t, n, m) ==
  f = [k \in 0 .. m |->
        IF k = 0 THEN [table |-> Blank(2 * n), occupied |-> 0]
        ELSE IF k - 1 \in Filled(t) THEN Put(f[k - 1], t[k - 1])
        ELSE f[k - 1]]

\* The recursion in Grown has a solution, ...
LEMMA MovesExist ==
  ASSUME NEW t, NEW n PROVE \A m \in Nat : \E f : Moves(f, t, n, m)
<1> DEFINE S == {m \in Nat : \E f : Moves(f, t, n, m)}
           start == [table |-> Blank(2 * n), occupied |-> 0]
           Moved(f, k) == IF k = 0 THEN start
                          ELSE IF k - 1 \in Filled(t) THEN Put(f[k - 1], t[k - 1])
                          ELSE f[k - 1]
<1>1. 0 \in S
  <2> DEFINE f == [k \in 0 .. 0 |-> start]
  <2>1. \A k \in 0 .. 0 : Moved(f, k) = start
    OBVIOUS
  <2> HIDE DEF start
  <2>2. f = [k \in 0 .. 0 |-> Moved(f, k)]
    BY <2>1
  <2>3. Moves(f, t, n, 0)
    BY <2>2 DEF Moves, start
  <2> QED BY <2>3
<1>2. ASSUME NEW m \in Nat, m \in S PROVE m + 1 \in S
  <2>1. PICK f : Moves(f, t, n, m)
    BY <1>2
  <2> DEFINE g == [k \in 0 .. m + 1 |-> IF k = m + 1 THEN Moved(f, m + 1) ELSE f[k]]
  <2>2. f = [k \in 0 .. m |-> Moved(f, k)]
    BY <2>1 DEF Moves
  <2>3. ASSUME NEW k \in 0 .. m + 1 PROVE g[k] = Moved(g, k)
    <3>1. ASSUME k # 0 PROVE g[k - 1] = f[k - 1]
      BY <3>1
    <3>2. Moved(g, k) = Moved(f, k)
      BY <3>1
    <3>3. CASE k = m + 1
      BY <3>2, <3>3
    <3>4. CASE k # m + 1
      <4>1. k \in 0 .. m /\ g[k] = f[k]
        BY <3>4
      <4> HIDE DEF Moved, g
      <4>2. f[k] = Moved(f, k)
        BY <2>2, <4>1
      <4> QED BY <3>2, <4>1, <4>2
    <3> QED BY <3>3, <3>4
  <2>4. g = [k \in 0 .. m + 1 |-> Moved(g, k)]
    <3>1. g = [k \in 0 .. m + 1 |-> g[k]]
      OBVIOUS
    <3> HIDE DEF g, Moved
    <3> QED BY <2>3, <3>1
  <2>5. Moves(g, t, n, m + 1)
    <3> HIDE DEF g
    <3> QED BY <2>4 DEF Moves
  <2> QED BY <2>5
<1>3. \A m \in Nat : m \in S
  <2> HIDE DEF S
  <2> QED BY <1>1, <1>2, Induction
<1> QED BY <1>3

\* ... and Grown is the end of one.
LEMMA GrownIs ==
  ASSUME NEW n, NEW t, IsTable(t, n)
  PROVE  \E f : Moves(f, t, n, n) /\ Grown(t) = f[n]
<1> DEFINE g == CHOOSE f : Moves(f, t, n, n)
<1>1. n \in Nat /\ Size(t) = n
  BY TableFacts
<1>2. Moves(g, t, n, n)
  BY <1>1, MovesExist
<1>3. Grown(t) = g[n]
  BY <1>1 DEF Grown, Moves
<1> QED BY <1>2, <1>3

\* The elements in the first m slots.
FirstOf(t, m) == {t[i] : i \in {j \in Filled(t) : j < m}}

\* Each move puts one element into the new table, which has room for all.
LEMMA MovesKeepOrder ==
  ASSUME NEW n, NEW t, IsTable(t, n), OnceEach(t), NEW f, Moves(f, t, n, n)
  PROVE  \A m \in 0 .. n : /\ f[m] = [table |-> f[m].table, occupied |-> f[m].occupied]
                           /\ Orderly(f[m].table, 2 * n, FirstOf(t, m))
                           /\ f[m].occupied = Cardinality(InUse(f[m].table)) /\ f[m].occupied <= m
<1> DEFINE Good(m) == /\ f[m] = [table |-> f[m].table, occupied |-> f[m].occupied]
                      /\ Orderly(f[m].table, 2 * n, FirstOf(t, m))
                      /\ f[m].occupied = Cardinality(InUse(f[m].table)) /\ f[m].occupied <= m
           S == {m \in Nat : m <= n => Good(m)}
<1>0. n \in Nat \ {0} /\ Filled(t) = {i \in 0 .. n - 1 : t[i] \in Value}
  BY TableFacts
<1>1. /\ f[0] = [table |-> Blank(2 * n), occupied |-> 0]
      /\ \A k \in 0 .. n : k # 0 => f[k] = IF k - 1 \in Filled(t) THEN Put(f[k - 1], t[k - 1]) ELSE f[k - 1]
  <2>1. \A k \in 0 .. n : f[k] = IF k = 0 THEN [table |-> Blank(2 * n), occupied |-> 0]
                                 ELSE IF k - 1 \in Filled(t) THEN Put(f[k - 1], t[k - 1])
                                 ELSE f[k - 1]
    BY DEF Moves
  <2> QED BY <1>0, <2>1
<1>2. 0 \in S
  <2>1. FirstOf(t, 0) = {}
    BY <1>0 DEF FirstOf
  <2>2. Orderly(Blank(2 * n), 2 * n, {}) /\ Cardinality(InUse(Blank(2 * n))) = 0
    BY <1>0, BlankIsOrderly
  <2>3. f[0].table = Blank(2 * n) /\ f[0].occupied = 0
        /\ f[0] = [table |-> f[0].table, occupied |-> f[0].occupied]
    BY <1>1
  <2> QED BY <2>1, <2>2, <2>3
<1>3. ASSUME NEW m \in Nat, m \in S PROVE m + 1 \in S
  <2> SUFFICES ASSUME m + 1 <= n PROVE Good(m + 1)
    OBVIOUS
  <2>1. Good(m) /\ m \in 0 .. n - 1 /\ m + 1 \in 0 .. n /\ m + 1 # 0 /\ (m + 1) - 1 = m
    BY <1>0, <1>3
  <2>2. f[m + 1] = IF m \in Filled(t) THEN Put(f[m], t[m]) ELSE f[m]
    BY <1>1, <2>1
  <2>3. CASE m \notin Filled(t)
    <3>1. FirstOf(t, m + 1) = FirstOf(t, m)
      BY <1>0, <2>3 DEF FirstOf
    <3>2. f[m + 1] = f[m]
      BY <2>2, <2>3
    <3>3. f[m].occupied <= m + 1
      <4>1. IsTable(f[m].table, 2 * n)
        BY <2>1 DEF Orderly
      <4>2. Cardinality(InUse(f[m].table)) \in Nat
        BY <4>1, InUseFacts
      <4> QED BY <2>1, <4>2
    <3> QED BY <2>1, <3>1, <3>2, <3>3
  <2>4. CASE m \in Filled(t)
    <3>1. FirstOf(t, m + 1) = FirstOf(t, m) \cup {t[m]}
      <4>1. ASSUME NEW x PROVE x \in FirstOf(t, m + 1) <=> x \in FirstOf(t, m) \/ x = t[m]
        <5>1. \A j \in Filled(t) : j < m + 1 <=> j < m \/ j = m
          BY <1>0
        <5> QED BY <2>4, <5>1 DEF FirstOf
      <4> QED BY <4>1
    <3>2. t[m] \notin FirstOf(t, m) /\ t[m] \in Value
      BY <1>0, <2>4 DEF FirstOf, OnceEach
    <3> DEFINE r == f[m].table
               o == Cardinality(InUse(r))
               s == f[m + 1]
    <3>3. Orderly(r, 2 * n, FirstOf(t, m)) /\ o <= m /\ f[m] = [table |-> r, occupied |-> o]
      BY <2>1
    <3>4. o \in Nat /\ o < 2 * n
      <4>1. IsTable(r, 2 * n)
        BY <3>3 DEF Orderly
      <4>2. o \in Nat
        BY <4>1, InUseFacts
      <4> HIDE DEF o
      <4> QED BY <1>0, <2>1, <3>3, <4>2
    <3>5. Inserted(r, t[m], s)
      BY <2>2, <2>4, <3>3 DEF Inserted
    <3> HIDE DEF s, r, Good, S
    <3>6. PutResult(2 * n, r, FirstOf(t, m), t[m], s)
      BY <3>2, <3>3, <3>4, <3>5, PutStep
    <3> HIDE DEF o
    <3>8. /\ s = [table |-> s.table, occupied |-> s.occupied]
          /\ Orderly(s.table, 2 * n, FirstOf(t, m) \cup {t[m]})
          /\ s.occupied = Cardinality(InUse(s.table)) /\ s.occupied <= o + 1
      BY <3>2, <3>6 DEF PutResult, o
    <3>7. s.occupied <= m + 1
      <4>1. IsTable(s.table, 2 * n)
        BY <3>8 DEF Orderly
      <4>2. Cardinality(InUse(s.table)) \in Nat
        BY <4>1, InUseFacts
      <4> QED BY <3>3, <3>4, <3>8, <4>2
    <3> QED BY <3>1, <3>8, <3>7 DEF Good, s
  <2> QED BY <2>3, <2>4
<1>4. \A m \in Nat : m \in S
  <2> HIDE DEF S
  <2> QED BY <1>2, <1>3, Induction
<1> QED BY <1>0, <1>4

LEMMA GrownStep ==
  ASSUME NEW n, NEW t, NEW E, Orderly(t, n, E), n >= 4, NEW s, s = Grown(t)
  PROVE  SetInOrder(s.table, s.occupied, 2 * n, E)
<1>1. IsTable(t, n) /\ OnceEach(t) /\ Contents(t) = E
  BY DEF Orderly
<1>2. PICK f : Moves(f, t, n, n) /\ s = f[n]
  BY <1>1, GrownIs
<1>3. n \in Nat \ {0} /\ n \in 0 .. n /\ Filled(t) = {i \in 0 .. n - 1 : t[i] \in Value}
  BY <1>1, TableFacts
<1>4. Orderly(s.table, 2 * n, FirstOf(t, n)) /\ s.occupied = Cardinality(InUse(s.table)) /\ s.occupied <= n
  <2>1. Moves(f, t, n, n)
    BY <1>2
  <2>2. \A m \in 0 .. n : /\ f[m] = [table |-> f[m].table, occupied |-> f[m].occupied]
                          /\ Orderly(f[m].table, 2 * n, FirstOf(t, m))
                          /\ f[m].occupied = Cardinality(InUse(f[m].table)) /\ f[m].occupied <= m
    BY <1>1, <2>1, MovesKeepOrder
  <2> QED BY <1>2, <1>3, <2>2
<1>5. FirstOf(t, n) = E
  <2>1. {j \in Filled(t) : j < n} = Filled(t)
    BY <1>3
  <2> QED BY <1>1, <2>1 DEF FirstOf, Contents
<1>6. s.occupied \in Nat
  <2>1. IsTable(s.table, 2 * n)
    BY <1>4 DEF Orderly
  <2> QED BY <1>4, <2>1, InUseFacts
<1>7. s.occupied < 2 * n - (2 * n) \div 4 /\ 2 * n >= 4
  BY <1>3, <1>4, <1>6
<1> QED BY <1>4, <1>5, <1>7 DEF SetInOrder

-----------------------------------------------------------------------------
(* The inductive invariant of the set. *)

SetInv == elements \subseteq Value /\ \E n : SetInOrder(table, occupied, n, elements)

LEMMA SetInitInv == SetInit => SetInv
<1> SUFFICES ASSUME SetInit PROVE SetInv
  OBVIOUS
<1>1. Inline \in Nat \ {0} /\ Inline >= 4 /\ 0 < Inline - Inline \div 4
  BY InlineAssumption
<1>2. Orderly(Blank(Inline), Inline, {}) /\ Cardinality(InUse(Blank(Inline))) = 0
  BY <1>1, BlankIsOrderly
<1>3. SetInOrder(table, occupied, Inline, elements)
  BY <1>1, <1>2 DEF SetInit, SetInOrder
<1> QED BY <1>3 DEF SetInit, SetInv

\* What the invariant says of the table.
LEMMA OrderFacts ==
  ASSUME NEW t, NEW o, NEW n, NEW E, SetInOrder(t, o, n, E)
  PROVE  /\ Orderly(t, n, E) /\ n \in Nat \ {0} /\ n >= 4 /\ Size(t) = n /\ o \in Nat
         /\ o = Cardinality(InUse(t)) /\ o < n - n \div 4 /\ o < n
         /\ \E e \in 0 .. n - 1 : t[e] = Empty
         /\ \A v \in Value : t[FindIndex(t, v)] = v <=> v \in E
<1>1. Orderly(t, n, E) /\ o = Cardinality(InUse(t)) /\ o < n - n \div 4 /\ n >= 4
      /\ IsTable(t, n) /\ OnceEach(t) /\ Reachable(t, n) /\ Contents(t) = E
  BY DEF SetInOrder, Orderly
<1>2. n \in Nat \ {0} /\ Size(t) = n /\ o \in Nat
  BY <1>1, TableFacts, InUseFacts
<1>3. o < n
  BY <1>1, <1>2
<1>4. PICK e \in 0 .. n - 1 : t[e] = Empty
  BY <1>1, <1>3, InUseFacts
<1>5. \A v \in Value : t[FindIndex(t, v)] = v <=> v \in E
  BY <1>1, <1>4, HasIsMembership
<1> QED BY <1>1, <1>2, <1>3, <1>4, <1>5

LEMMA SetInitNext == (SetInit => SetInv)'
BY SetInitInv, PTL

LEMMA InsertStep == ASSUME SetInv, NEW v \in Value, Insert(v) PROVE SetInv'
<1>1. PICK n : SetInOrder(table, occupied, n, elements)
  BY DEF SetInv
<1> DEFINE s == Put([table |-> table, occupied |-> occupied], v)
<1>2. /\ Orderly(table, n, elements) /\ n \in Nat \ {0} /\ n >= 4 /\ occupied = Cardinality(InUse(table))
      /\ occupied < n - n \div 4 /\ occupied < n /\ (Has(v) <=> v \in elements)
  BY <1>1, OrderFacts DEF Has
<1>3. /\ Orderly(s.table, n, elements \cup {v}) /\ s.occupied = Cardinality(InUse(s.table))
      /\ v \in elements => s.table = table
  <2>1. Inserted(table, v, s)
    BY <1>2 DEF Inserted
  <2>2. Orderly(table, n, elements) /\ Cardinality(InUse(table)) < n
    BY <1>2
  <2> HIDE DEF s
  <2>3. PutResult(n, table, elements, v, s)
    BY <2>1, <2>2, PutStep
  <2> QED BY <2>3 DEF PutResult
<1> HIDE DEF s
<1>4. elements' = elements \cup {v} /\ elements' \subseteq Value
  BY DEF Insert, SetInv
<1>5. Size(s.table) = n
  <2>1. IsTable(s.table, n)
    BY <1>3 DEF Orderly
  <2> QED BY <2>1, TableFacts
<1>6. CASE ~Has(v) /\ Full(s)
  <2>1. table' = Grown(s.table).table /\ occupied' = Grown(s.table).occupied
    BY <1>6 DEF Insert, s
  <2>2. SetInOrder(Grown(s.table).table, Grown(s.table).occupied, 2 * n, elements \cup {v})
    BY <1>2, <1>3, GrownStep
  <2>3. SetInOrder(table', occupied', 2 * n, elements')
    BY <1>4, <2>1, <2>2
  <2> QED BY <1>4, <2>3 DEF SetInv
<1>7. CASE ~(~Has(v) /\ Full(s))
  <2>1. table' = s.table /\ occupied' = s.occupied
    BY <1>7 DEF Insert, s
  <2>2. s.occupied < n - n \div 4
    <3>1. CASE Has(v)
      BY <1>2, <1>3, <3>1
    <3>2. CASE ~Full(s)
      <4>1. s.occupied \in Nat
        <5>1. IsTable(s.table, n)
          BY <1>3 DEF Orderly
        <5> QED BY <1>3, <5>1, InUseFacts
      <4> QED BY <1>2, <1>5, <3>2, <4>1 DEF Full
    <3> QED BY <1>7, <3>1, <3>2
  <2>3. SetInOrder(table', occupied', n, elements')
    BY <1>2, <1>3, <1>4, <2>1, <2>2 DEF SetInOrder
  <2> QED BY <1>4, <2>3 DEF SetInv
<1> QED BY <1>6, <1>7

LEMMA EraseStep == ASSUME SetInv, NEW v \in Value, Erase(v) PROVE SetInv'
<1>1. PICK n : SetInOrder(table, occupied, n, elements)
  BY DEF SetInv
<1> DEFINE i == FindIndex(table, v)
           u == [table EXCEPT ![i] = Del]
<1>2. /\ IsTable(table, n) /\ OnceEach(table) /\ Reachable(table, n) /\ Contents(table) = elements
      /\ IsFiniteSet(Value) => Uncrowded(table, n)
      /\ n >= 4 /\ occupied = Cardinality(InUse(table)) /\ occupied < n - n \div 4
  BY <1>1 DEF SetInOrder, Orderly
<1>3. Has(v) <=> v \in elements
  BY <1>1, OrderFacts DEF Has
<1>4. occupied' = occupied /\ elements' = elements \ {v} /\ elements' \subseteq Value
  BY DEF Erase, SetInv
<1>5. CASE ~Has(v)
  <2>1. table' = table /\ elements' = elements
    BY <1>3, <1>4, <1>5 DEF Erase
  <2> QED BY <1>1, <1>4, <2>1 DEF SetInv
<1>6. CASE Has(v)
  <2>1. table' = u
    BY <1>6 DEF Erase
  <2>2. i \in Filled(table) /\ table[i] = v
    <3>1. Filled(table) = {j \in 0 .. n - 1 : table[j] \in Value}
      BY <1>2, TableFacts
    <3>2. PICK j \in 0 .. n - 1 : table[j] = v
      BY <1>2, <1>3, <1>6, <3>1 DEF Contents
    <3>3. i = j
      BY <1>2, <3>2, FindPresent
    <3> QED BY <3>1, <3>2, <3>3
  <2>3. Erased(table, i, u)
    BY DEF Erased
  <2> HIDE DEF i, u
  <2>4. /\ IsTable(u, n) /\ OnceEach(u) /\ Reachable(u, n)
        /\ Contents(u) = Contents(table) \ {table[i]} /\ InUse(u) = InUse(table)
    BY <1>2, <2>2, <2>3, EraseKeeps
  <2>5. IsFiniteSet(Value) => Uncrowded(u, n)
    BY <1>2, <2>2, <2>3, CrowdErase
  <2>6. SetInOrder(u, occupied, n, elements \ {v})
    BY <1>2, <2>2, <2>4, <2>5 DEF SetInOrder, Orderly
  <2>7. SetInOrder(table', occupied', n, elements')
    BY <1>4, <2>1, <2>6
  <2> QED BY <1>4, <2>7 DEF SetInv
<1> QED BY <1>5, <1>6

LEMMA SetInvHolds == Spec => []SetInv
<1>1. Init => SetInv
  BY SetInitInv DEF Init
<1>2. ASSUME SetInv, [Next]_<<setVars, mapVars>> PROVE SetInv'
  <2>1. CASE Clear
    <3>1. SetInit'
      BY <2>1 DEF Clear, SetInit
    <3> QED BY <3>1, SetInitNext
  <2>2. CASE \E v \in Value : Insert(v) \/ Erase(v)
    BY <1>2, <2>2, InsertStep, EraseStep
  <2>3. CASE UNCHANGED setVars
    BY <1>2, <2>3 DEF SetInv, setVars
  <2> QED BY <1>2, <2>1, <2>2, <2>3 DEF Next, SetNext
<1> QED BY <1>1, <1>2, PTL DEF Spec

\* What the invariant says of the set.
LEMMA SetInvImplies == SetInv => TableIsSet /\ ProbesEnd
<1> SUFFICES ASSUME SetInv PROVE TableIsSet /\ ProbesEnd
  OBVIOUS
<1>1. PICK n : SetInOrder(table, occupied, n, elements)
  BY DEF SetInv
<1>2. /\ IsTable(table, n) /\ OnceEach(table) /\ Contents(table) = elements /\ Uncrowded(table, n)
  BY <1>1, FiniteAssumption DEF SetInOrder, Orderly
<1>3. /\ n \in Nat \ {0} /\ Size(table) = n /\ occupied = Cardinality(InUse(table))
      /\ occupied < n - n \div 4 /\ \A v \in Value : Has(v) <=> v \in elements
  BY <1>1, OrderFacts DEF Has
<1>4. PICK e \in 0 .. n - 1 : table[e] = Empty
  BY <1>1, OrderFacts
<1>5. TableIsSet
  BY <1>2, <1>3 DEF TableIsSet, Contents, OnceEach
<1>6. occupied <= Cardinality(Value)
  <2> DEFINE d == n - 1
  <2>1. UsedWithin(table, n, e, d) = InUse(table)
    <3>1. ASSUME NEW i PROVE i \in UsedWithin(table, n, e, d) <=> i \in InUse(table)
      <4>1. DOMAIN table = 0 .. n - 1
        BY <1>2, TableFacts
      <4>2. ASSUME i \in 0 .. n - 1, table[i] # Empty PROVE Far(n, e, i) \in 1 .. d
        <5>1. i # e
          BY <1>4, <4>2
        <5> QED BY <1>3, <4>2, <5>1 DEF Far
      <4> QED BY <4>1, <4>2 DEF UsedWithin, InUse
    <3> QED BY <3>1
  <2>2. d \in 0 .. n - 1
    BY <1>3
  <2>3. Cardinality(UsedWithin(table, n, e, d)) + Cardinality(GoneOn(table, n, e, d))
          <= Cardinality(HomeWithin(n, e, d))
    BY <1>2, <1>4, <2>2 DEF Uncrowded
  <2>4. /\ Cardinality(GoneOn(table, n, e, d)) \in Nat /\ Cardinality(HomeWithin(n, e, d)) \in Nat
        /\ Cardinality(UsedWithin(table, n, e, d)) \in Nat
    BY <1>2, FiniteAssumption, WithinFinite
  <2>5. Cardinality(HomeWithin(n, e, d)) <= Cardinality(Value) /\ Cardinality(Value) \in Nat
    <3>1. HomeWithin(n, e, d) \subseteq Value
      BY DEF HomeWithin
    <3> QED BY <3>1, FiniteAssumption, AtMost
  <2> QED BY <1>3, <2>1, <2>3, <2>4, <2>5
<1>7. ProbesEnd
  BY <1>3, <1>6 DEF ProbesEnd, InUse
<1> QED BY <1>5, <1>7

\* A node's set of edges holds what was inserted and not erased, each element
\* once, and finds each of them and no other (graphcycles.cc:160-196): erased
\* slots, their reuse and growth lose and double none.
THEOREM SetsHoldTheirElements == Spec => []TableIsSet
BY SetInvHolds, SetInvImplies, PTL

\* A search always meets an empty slot (the loop at graphcycles.cc:231 ends),
\* and inserting and erasing over and over does not use up the table
\* (graphcycles.cc:168): there are never more slots in use than values.
THEOREM SearchesEnd == Spec => []ProbesEnd
BY SetInvHolds, SetInvImplies, PTL
=============================================================================

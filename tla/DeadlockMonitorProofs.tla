----------------------- MODULE DeadlockMonitorProofs -----------------------
(***************************************************************************)
(* Theorems about DeadlockMonitor, for every set of threads and locks,     *)
(* every limit and every kind of program.                                  *)
(***************************************************************************)
EXTENDS DeadlockMonitor, TLAPS, WellFoundedInduction, SequenceTheorems, FiniteSetTheorems

-----------------------------------------------------------------------------
(* The loop of before_lock.                                                *)

\* Edges that lead into id do not change what is reachable from id: the loop
\* of before_lock may be judged, entry for entry, on the graph it started with
\* (deadlock_monitor.cpp:132).
THEOREM NewEdgesDoNotReach ==
  ASSUME NEW E, NEW N, NEW h, NEW id, NEW b, NEW I \in SUBSET (DOMAIN h)
  PROVE  Reaches(E \cup {<<h[i].id, id>> : i \in I}, N, id, b) <=> Reaches(E, N, id, b)
<1> DEFINE F == E \cup {<<h[i].id, id>> : i \in I}
<1>1. ASSUME NEW S \in SUBSET N, id \in S
      PROVE  Closed(E, S) <=> Closed(F, S)
  <2>1. \A e \in {<<h[i].id, id>> : i \in I} : e[2] = id
    OBVIOUS
  <2> QED BY <1>1, <2>1 DEF Closed
<1> QED BY <1>1 DEF Reaches

-----------------------------------------------------------------------------
(* The history's operations.                                               *)

EntryType == [mu : Lock, id : Id, count : Nat \ {0}]

\* A set of natural numbers has a least one, which First yields.
LEMMA LessIsWellFounded == IsWellFoundedOn({ss \in Nat \X Nat : ss[1] < ss[2]}, Nat)
BY NatLessThanWellFounded, Zenon DEF OpToRel

LEMMA FirstIsLeast ==
  ASSUME NEW I, I \subseteq Nat, I # {}
  PROVE  First(I) \in I /\ \A j \in I : First(I) <= j
<1> DEFINE Less == {ss \in Nat \X Nat : ss[1] < ss[2]}
<1>1. PICK i \in I : \A j \in I : ~(<<j, i>> \in Less)
  BY LessIsWellFounded, WFMin, Zenon
<1>2. ASSUME NEW j \in I PROVE i <= j
  <2>1. i \in Nat /\ j \in Nat /\ <<j, i>> \in Nat \X Nat
    OBVIOUS
  <2>2. ~(j < i)
    BY <1>1, <2>1
  <2> QED BY <2>1, <2>2
<1> QED BY <1>2 DEF First

LEMMA FoundIndex ==
  ASSUME NEW h \in Seq(EntryType), NEW id, WithId(h, id) # {}
  PROVE  /\ First(WithId(h, id)) \in 1 .. Len(h)
         /\ h[First(WithId(h, id))].id = id
<1>1. WithId(h, id) \subseteq 1 .. Len(h)
  BY DEF WithId
<1>2. WithId(h, id) \subseteq Nat
  BY <1>1
<1>3. First(WithId(h, id)) \in WithId(h, id)
  BY <1>2, FirstIsLeast, Zenon
<1> QED BY <1>1, <1>3 DEF WithId

LEMMA CountedType ==
  ASSUME NEW e \in EntryType
  PROVE  /\ Counted(e, 1) \in EntryType
         /\ e.count # 1 => Counted(e, -1) \in EntryType
BY DEF EntryType, Counted, Entry

LEMMA RecordType ==
  ASSUME NEW h \in Seq(EntryType), NEW mu \in Lock, NEW id \in Id, NEW max \in Nat,
         Len(h) <= max
  PROVE  Record(h, mu, id, max) \in Seq(EntryType) /\ Len(Record(h, mu, id, max)) <= max
<1>1. CASE WithId(h, id) # {}
  <2>1. First(WithId(h, id)) \in 1 .. Len(h)
    BY <1>1, FoundIndex
  <2> DEFINE i == First(WithId(h, id))
  <2>2. Counted(h[i], 1) \in EntryType
    BY <2>1, CountedType
  <2> QED BY <1>1, <2>1, <2>2 DEF Record
<1>2. CASE WithId(h, id) = {}
  <2>1. Entry(mu, id, 1) \in EntryType
    BY DEF Entry, EntryType
  <2> QED BY <1>2, <2>1 DEF Record
<1> QED BY <1>1, <1>2

LEMMA ReleaseType ==
  ASSUME NEW h \in Seq(EntryType), NEW id
  PROVE  Release(h, id) \in Seq(EntryType) /\ Len(Release(h, id)) <= Len(h)
<1> DEFINE i == First(WithId(h, id))
<1>1. CASE WithId(h, id) = {}
  BY <1>1 DEF Release
<1>2. CASE WithId(h, id) # {}
  <2>1. i \in 1 .. Len(h)
    BY <1>2, FoundIndex
  <2>2. CASE h[i].count = 1
    <3>1. [h EXCEPT ![i] = h[Len(h)]] \in Seq(EntryType) /\ Len([h EXCEPT ![i] = h[Len(h)]]) = Len(h)
      BY <2>1
    <3> QED BY <1>2, <2>1, <2>2, <3>1 DEF Release
  <2>3. CASE h[i].count # 1
    <3>1. Counted(h[i], -1) \in EntryType
      BY <2>1, <2>3, CountedType
    <3> QED BY <1>2, <2>1, <2>3, <3>1 DEF Release
  <2> QED BY <2>2, <2>3
<1> QED BY <1>1, <1>2

-----------------------------------------------------------------------------
(* Types.                                                                  *)

\* What the types rest on: where a thread is tells what its target is, a lock
\* is owned exactly when it was entered, and who waits may enter once more.
Wrappers ==
  /\ \A t \in Thread : /\ pc[t] # "run" => target[t].mu \in Lock
                       /\ pc[t] \in {"try", "got"} => target[t].id \in Id
                       /\ Len(held[t]) <= MaxLocks
                       /\ pc[t] \in {"wait", "try", "cnd_wait"} /\ owner[target[t].mu] = t
                            => depth[target[t].mu] < MaxDepth
  /\ \A l \in Lock : owner[l] = NoThread <=> depth[l] = 0

TypeInv == TypeOK /\ Wrappers

\* The types of the history, for the proofs below.
LEMMA HeldType == TypeOK => held \in [Thread -> Seq(EntryType)]
BY DEF TypeOK, EntryType

LEMMA Bounds == MaxLocks \in Nat /\ MaxGen \in Nat /\ MaxIgnore \in Nat /\ MaxDepth \in Nat \ {0}
BY BoundsAssumption

USE NoThreadAssumption, NoLockAssumption, Bounds

LEMMA IdOfLock ==
  ASSUME TypeOK, NEW l \in Lock, l \in nodes \/ gen[l] < MaxGen
  PROVE  /\ GetGraphId(l) \in Id /\ GetGraphId(l)[1] = l /\ GetGraphId(l)[2] \in Gen
         /\ GetGraphId(l) # InvalidId
BY DEF TypeOK, GetGraphId, Id, Gen, InvalidId

LEMMA AllocateType ==
  ASSUME TypeOK, NEW l \in Lock, Allocate(l)
  PROVE  /\ nodes' \in SUBSET Lock /\ gen' \in [Lock -> Gen] /\ free' \in Nat
         /\ GetGraphId(l) \in Id
<1>1. l \in nodes \/ gen[l] < MaxGen
  BY DEF Allocate
<1>2. GetGraphId(l) \in Id /\ GetGraphId(l)[2] \in Gen
  BY <1>1, IdOfLock
<1> QED BY <1>2 DEF TypeOK, Allocate

\* GetId's part of the node.
LEMMA GetIdTraceType ==
  ASSUME NEW t \in Thread, NEW l \in Lock, GetId(t, l),
         priority \in [Lock -> 0 .. MaxLocks + 1],
         tracedBy \in [Lock -> Thread \cup {NoThread}]
  PROVE  /\ priority' \in [Lock -> 0 .. MaxLocks + 1]
         /\ tracedBy' \in [Lock -> Thread \cup {NoThread}]
<1>1. CASE l \in nodes
  BY <1>1 DEF GetId
<1>2. CASE l \notin nodes
  <2>1. 0 \in 0 .. MaxLocks + 1
    OBVIOUS
  <2>2. /\ priority' = [priority EXCEPT ![l] = 0]
        /\ \/ tracedBy' = [tracedBy EXCEPT ![l] = t]
           \/ tracedBy' = [tracedBy EXCEPT ![l] = NoThread]
    BY <1>2 DEF GetId
  <2> QED BY <2>1, <2>2
<1> QED BY <1>1, <1>2

LEMMA InitType == Init => TypeInv
<1> SUFFICES ASSUME Init PROVE TypeInv
  OBVIOUS
<1>1. /\ nodes \in SUBSET Lock /\ gen \in [Lock -> Gen] /\ order \in SUBSET (Id \X Id)
      /\ priority \in [Lock -> 0 .. MaxLocks + 1] /\ tracedBy \in [Lock -> Thread \cup {NoThread}]
      /\ free \in Nat /\ nested \in SUBSET (Lock \X Lock)
  BY DEF Init, Gen
<1>2. /\ held \in [Thread -> Seq(EntryType)]
      /\ synch \in [Thread -> {"none", "watched", "unwatched"}]
      /\ timing \in [Thread -> {"off", "on", "never"}]
      /\ ignoreLock \in [Thread -> 0 .. MaxIgnore] /\ ignoreUnlock \in [Thread -> 0 .. MaxIgnore]
  BY DEF Init
<1>3. /\ pc \in [Thread -> {"run", "wait", "try", "got", "unlock", "cnd_wait"}]
      /\ target \in [Thread -> [mu : Lock \cup {NoLock}, id : Id \cup {InvalidId}]]
      /\ owner \in [Lock -> Thread \cup {NoThread}] /\ depth \in [Lock -> 0 .. MaxDepth]
  BY DEF Init, Idle
<1>4. TypeOK
  BY <1>1, <1>2, <1>3 DEF Init, TypeOK, EntryType
<1>5. Wrappers
  BY DEF Init, Wrappers
<1> QED BY <1>4, <1>5 DEF TypeInv

LEMMA NewEdgesType ==
  ASSUME TypeOK, NEW t \in Thread, NEW id \in Id
  PROVE  NewEdges(held[t], id) \subseteq Id \X Id
<1>1. \A i \in DOMAIN held[t] : held[t][i].id \in Id
  <2>1. held[t] \in Seq(EntryType)
    BY HeldType
  <2>2. \A i \in DOMAIN held[t] : held[t][i] \in EntryType
    BY <2>1
  <2> QED BY <2>2 DEF EntryType
<1> QED BY <1>1 DEF NewEdges, Passed

\* The steps in front of a lock.
LEMMA BeforeLockType ==
  ASSUME TypeInv, NEW t \in Thread, NEW l \in Lock, LockCall(t, l)
  PROVE  TypeInv'
<1>1. CASE BeforeLockIgnored(t, l)
  <2>1. /\ pc' \in [Thread -> {"run", "wait", "try", "got", "unlock", "cnd_wait"}]
        /\ target' \in [Thread -> [mu : Lock \cup {NoLock}, id : Id \cup {InvalidId}]]
    BY <1>1 DEF BeforeLockIgnored, TypeInv, TypeOK, Goto
  <2>2. ignoreLock' \in [Thread -> 0 .. MaxIgnore]
    BY <1>1 DEF BeforeLockIgnored, TypeInv, TypeOK
  <2>3. nested' \in SUBSET (Lock \X Lock)
    BY <1>1 DEF BeforeLockIgnored, TypeInv, TypeOK, Nest, Owned
  <2>4. TypeOK'
    BY <1>1, <2>1, <2>2, <2>3 DEF BeforeLockIgnored, TypeInv, TypeOK, graph, errors
  <2>5. Wrappers'
    BY <1>1 DEF BeforeLockIgnored, TypeInv, TypeOK, Wrappers, Goto, MayEnter, Owned
  <2> QED BY <2>4, <2>5 DEF TypeInv
<1>2. CASE BeforeLockFull(t, l)
  <2>1. TypeOK'
    BY <1>2 DEF BeforeLockFull, TypeInv, TypeOK, GetAllLocks, Goto, Nest, Owned, graph
  <2>2. Wrappers'
    BY <1>2 DEF BeforeLockFull, TypeInv, TypeOK, Wrappers, Goto, MayEnter, Owned
  <2> QED BY <2>1, <2>2 DEF TypeInv
<1>3. CASE BeforeLock(t, l)
  <2>1. /\ nodes' \in SUBSET Lock /\ gen' \in [Lock -> Gen] /\ free' \in Nat
        /\ GetGraphId(l) \in Id
    BY <1>3, AllocateType DEF BeforeLock, GetIdAndTrace, TypeInv
  <2>2. Len(held[t]) + 1 \in 0 .. MaxLocks + 1
    BY <1>3, HeldType DEF BeforeLock, Full, TypeInv
  <2>3. /\ priority' \in [Lock -> 0 .. MaxLocks + 1]
        /\ tracedBy' \in [Lock -> Thread \cup {NoThread}]
    <3>1. /\ priority \in [Lock -> 0 .. MaxLocks + 1]
          /\ tracedBy \in [Lock -> Thread \cup {NoThread}]
      BY DEF TypeInv, TypeOK
    <3>2. \/ priority' = priority /\ tracedBy' = tracedBy
          \/ /\ priority' = [priority EXCEPT ![l] = Len(held[t]) + 1]
             /\ tracedBy' = [tracedBy EXCEPT ![l] = t]
      BY <1>3 DEF BeforeLock, GetIdAndTrace
    <3> QED BY <2>2, <3>1, <3>2
  <2>4. order' \in SUBSET (Id \X Id)
    BY <1>3, <2>1, NewEdgesType DEF BeforeLock, TypeInv, TypeOK
  <2>5. potential_deadlocks_found' \in BOOLEAN
    BY <1>3 DEF BeforeLock, ClosesCycle, TypeInv, TypeOK
  <2>6. TypeOK'
    BY <1>3, <2>1, <2>3, <2>4, <2>5
    DEF BeforeLock, TypeInv, TypeOK, GetAllLocks, StartTiming, Goto, Nest, Owned
  <2>7. Wrappers'
    BY <1>3 DEF BeforeLock, TypeInv, TypeOK, Wrappers, Goto, MayEnter, Owned
  <2> QED BY <2>6, <2>7 DEF TypeInv
<1> QED BY <1>1, <1>2, <1>3 DEF LockCall

LEMMA BeforeTryLockType ==
  ASSUME TypeInv, NEW t \in Thread, NEW l \in Lock, BeforeTryLock(t, l)
  PROVE  TypeInv'
<1>1. /\ nodes' \in SUBSET Lock /\ gen' \in [Lock -> Gen] /\ free' \in Nat
      /\ GetGraphId(l) \in Id
  BY AllocateType DEF BeforeTryLock, GetId, TypeInv
<1>2. /\ priority' \in [Lock -> 0 .. MaxLocks + 1]
      /\ tracedBy' \in [Lock -> Thread \cup {NoThread}]
  <2>1. /\ priority \in [Lock -> 0 .. MaxLocks + 1]
        /\ tracedBy \in [Lock -> Thread \cup {NoThread}]
    BY DEF TypeInv, TypeOK
  <2>2. GetId(t, l)
    BY DEF BeforeTryLock
  <2> QED BY <2>1, <2>2, GetIdTraceType
<1>3. /\ pc' \in [Thread -> {"run", "wait", "try", "got", "unlock", "cnd_wait"}]
      /\ target' \in [Thread -> [mu : Lock \cup {NoLock}, id : Id \cup {InvalidId}]]
  BY <1>1 DEF BeforeTryLock, TypeInv, TypeOK, Goto
<1>4. /\ synch' \in [Thread -> {"none", "watched", "unwatched"}]
      /\ timing' \in [Thread -> {"off", "on", "never"}]
      /\ ignoreLock' \in [Thread -> 0 .. MaxIgnore]
  BY DEF BeforeTryLock, TypeInv, TypeOK, GetAllLocks, StartTiming
<1>5. TypeOK'
  BY <1>1, <1>2, <1>3, <1>4 DEF BeforeTryLock, TypeInv, TypeOK, errors
<1>6. Wrappers'
  BY <1>1 DEF BeforeTryLock, TypeInv, TypeOK, Wrappers, Goto, MayEnter, Owned
<1> QED BY <1>5, <1>6 DEF TypeInv

\* The steps of the locks themselves.
LEMMA ReturnType ==
  ASSUME TypeOK, NEW t \in Thread, Return(t)
  PROVE  /\ pc' \in [Thread -> {"run", "wait", "try", "got", "unlock", "cnd_wait"}]
         /\ target' \in [Thread -> [mu : Lock \cup {NoLock}, id : Id \cup {InvalidId}]]
BY DEF TypeOK, Return, Idle

LEMMA GrabType ==
  ASSUME TypeInv, NEW t \in Thread, pc[t] \in {"wait", "try", "cnd_wait"},
         Free(t, target[t].mu), Grab(t, target[t].mu)
  PROVE  /\ owner' \in [Lock -> Thread \cup {NoThread}] /\ depth' \in [Lock -> 0 .. MaxDepth]
         /\ \A l \in Lock : owner'[l] = NoThread <=> depth'[l] = 0
         /\ target[t].mu \in Lock
         /\ \A l \in Lock : l # target[t].mu => owner'[l] = owner[l] /\ depth'[l] = depth[l]
<1> DEFINE l == target[t].mu
<1>1. l \in Lock
  BY DEF TypeInv, Wrappers
<1>2. depth[l] \in 0 .. MaxDepth /\ depth[l] + 1 \in 1 .. MaxDepth
  <2>1. depth[l] \in 0 .. MaxDepth
    BY <1>1 DEF TypeInv, TypeOK
  <2>2. owner[l] = t => depth[l] < MaxDepth
    BY DEF TypeInv, Wrappers
  <2>3. owner[l] = NoThread => depth[l] = 0
    BY <1>1 DEF TypeInv, Wrappers
  <2> QED BY <2>1, <2>2, <2>3 DEF Free
<1>3. /\ owner' = [owner EXCEPT ![l] = t]
      /\ depth' = [depth EXCEPT ![l] = depth[l] + 1]
  BY DEF Grab
<1>4. \A k \in Lock : owner[k] = NoThread <=> depth[k] = 0
  BY DEF TypeInv, Wrappers
<1>5. owner \in [Lock -> Thread \cup {NoThread}] /\ depth \in [Lock -> 0 .. MaxDepth]
  BY DEF TypeInv, TypeOK
<1> HIDE DEF l
<1>6. owner' \in [Lock -> Thread \cup {NoThread}] /\ depth' \in [Lock -> 0 .. MaxDepth]
  BY <1>1, <1>2, <1>3, <1>5
<1>7. \A k \in Lock : owner'[k] = NoThread <=> depth'[k] = 0
  BY <1>1, <1>2, <1>3, <1>4, <1>5
<1>8. \A k \in Lock : k # l => owner'[k] = owner[k] /\ depth'[k] = depth[k]
  BY <1>1, <1>3, <1>5
<1> QED BY <1>1, <1>6, <1>7, <1>8 DEF l

\* A thread other than t that owned the lock t grabbed owns it no more, and one
\* that did not does not own it now.
LEMMA GrabOwner ==
  ASSUME TypeInv, NEW t \in Thread, pc[t] \in {"wait", "try", "cnd_wait"},
         Free(t, target[t].mu), Grab(t, target[t].mu), NEW u \in Thread, u # t,
         pc[u] \in {"wait", "try", "cnd_wait"}, owner'[target[u].mu] = u
  PROVE  depth'[target[u].mu] < MaxDepth
<1>1. target[u].mu \in Lock /\ target[t].mu \in Lock
  BY DEF TypeInv, Wrappers
<1>2. target[u].mu # target[t].mu
  BY <1>1 DEF Grab, TypeInv, TypeOK
<1>3. owner[target[u].mu] = u /\ depth'[target[u].mu] = depth[target[u].mu]
  BY <1>1, <1>2, GrabType
<1> QED BY <1>3 DEF TypeInv, Wrappers

LEMMA LockType ==
  ASSUME TypeInv, NEW t \in Thread, Enter(t) \/ TryEnter(t) \/ TryEnterFails(t) \/ CndWake(t)
  PROVE  TypeInv'
<1>1. CASE Enter(t)
  <2>1. /\ pc' \in [Thread -> {"run", "wait", "try", "got", "unlock", "cnd_wait"}]
        /\ target' \in [Thread -> [mu : Lock \cup {NoLock}, id : Id \cup {InvalidId}]]
    BY <1>1, ReturnType DEF Enter, TypeInv, TypeOK
  <2>2. /\ owner' \in [Lock -> Thread \cup {NoThread}] /\ depth' \in [Lock -> 0 .. MaxDepth]
        /\ \A l \in Lock : owner'[l] = NoThread <=> depth'[l] = 0
    BY <1>1, GrabType DEF Enter
  <2>3. TypeOK'
    BY <1>1, <2>1, <2>2 DEF Enter, TypeInv, TypeOK, graph, own, errors
  <2>4. /\ \A u \in Thread : u # t => pc'[u] = pc[u] /\ target'[u] = target[u]
        /\ \/ pc'[t] = "run"
           \/ pc'[t] = "got" /\ target'[t] = target[t] /\ target[t].id # InvalidId
    BY <1>1 DEF Enter, Return, TypeInv, TypeOK
  <2>5. target[t].mu \in Lock /\ target[t].id \in Id \cup {InvalidId}
    BY <1>1 DEF Enter, TypeInv, TypeOK, Wrappers
  <2>6. \A u \in Thread : /\ pc'[u] \in {"wait", "try", "cnd_wait"}
                          /\ owner'[target'[u].mu] = u
                          => depth'[target'[u].mu] < MaxDepth
    BY <1>1, <2>4, GrabOwner DEF Enter
  <2>7. Wrappers'
    BY <1>1, <2>2, <2>4, <2>5, <2>6 DEF Enter, TypeInv, Wrappers, own
  <2> QED BY <2>3, <2>7 DEF TypeInv
<1>2. CASE TryEnter(t)
  <2>1. pc' \in [Thread -> {"run", "wait", "try", "got", "unlock", "cnd_wait"}]
    BY <1>2 DEF TryEnter, TypeInv, TypeOK
  <2>2. /\ owner' \in [Lock -> Thread \cup {NoThread}] /\ depth' \in [Lock -> 0 .. MaxDepth]
        /\ \A l \in Lock : owner'[l] = NoThread <=> depth'[l] = 0
    BY <1>2, GrabType DEF TryEnter
  <2>3. TypeOK'
    BY <1>2, <2>1, <2>2 DEF TryEnter, TypeInv, TypeOK, graph, own, errors
  <2>4. pc'[t] = "got" /\ \A u \in Thread : u # t => pc'[u] = pc[u]
    BY <1>2 DEF TryEnter, TypeInv, TypeOK
  <2>5. \A u \in Thread : /\ pc'[u] \in {"wait", "try", "cnd_wait"}
                          /\ owner'[target'[u].mu] = u
                          => depth'[target'[u].mu] < MaxDepth
    BY <1>2, <2>4, GrabOwner DEF TryEnter
  <2>6. Wrappers'
    BY <1>2, <2>2, <2>4, <2>5 DEF TryEnter, TypeInv, Wrappers, own
  <2> QED BY <2>3, <2>6 DEF TypeInv
<1>3. CASE TryEnterFails(t)
  <2>1. TypeOK'
    BY <1>3, ReturnType DEF TryEnterFails, TypeInv, TypeOK, graph, own, errors
  <2>2. Wrappers'
    BY <1>3 DEF TryEnterFails, TypeInv, TypeOK, Wrappers, Return, Idle, own
  <2> QED BY <2>1, <2>2 DEF TypeInv
<1>4. CASE CndWake(t)
  <2>1. /\ pc' \in [Thread -> {"run", "wait", "try", "got", "unlock", "cnd_wait"}]
        /\ target' \in [Thread -> [mu : Lock \cup {NoLock}, id : Id \cup {InvalidId}]]
    BY <1>4, ReturnType DEF CndWake, TypeInv
  <2>2. /\ owner' \in [Lock -> Thread \cup {NoThread}] /\ depth' \in [Lock -> 0 .. MaxDepth]
        /\ \A l \in Lock : owner'[l] = NoThread <=> depth'[l] = 0
    BY <1>4, GrabType DEF CndWake
  <2>3. TypeOK'
    BY <1>4, <2>1, <2>2 DEF CndWake, TypeInv, TypeOK, graph, own, errors
  <2>4. /\ pc'[t] = "run"
        /\ \A u \in Thread : u # t => pc'[u] = pc[u] /\ target'[u] = target[u]
    BY <1>4 DEF CndWake, Return, TypeInv, TypeOK
  <2>5. \A u \in Thread : /\ pc'[u] \in {"wait", "try", "cnd_wait"}
                          /\ owner'[target'[u].mu] = u
                          => depth'[target'[u].mu] < MaxDepth
    BY <1>4, <2>4, GrabOwner DEF CndWake
  <2>6. Wrappers'
    BY <1>4, <2>2, <2>4, <2>5 DEF CndWake, TypeInv, Wrappers, own
  <2> QED BY <2>3, <2>6 DEF TypeInv
<1> QED BY <1>1, <1>2, <1>3, <1>4

LEMMA InLockType ==
  ASSUME TypeInv, NEW t \in Thread, InLock(t)
  PROVE  TypeInv'
<1>1. target[t].mu \in Lock /\ target[t].id \in Id /\ Len(held[t]) <= MaxLocks
  BY DEF InLock, TypeInv, Wrappers
<1> DEFINE h == Record(held[t], target[t].mu, target[t].id, MaxLocks)
<1>2. h \in Seq(EntryType) /\ Len(h) <= MaxLocks
  BY <1>1, HeldType, RecordType DEF TypeInv
<1>3. held' = [held EXCEPT ![t] = h]
  BY DEF InLock
<1> HIDE DEF h
<1>4. held' \in [Thread -> Seq(EntryType)] /\ \A u \in Thread : Len(held'[u]) <= MaxLocks
  BY <1>2, <1>3, HeldType DEF TypeInv, Wrappers
<1>5. TypeOK'
  BY <1>4, ReturnType DEF InLock, TypeInv, TypeOK, EntryType, graph, errors
<1>6. Wrappers'
  BY <1>4 DEF InLock, TypeInv, TypeOK, Wrappers, Return, Idle
<1> QED BY <1>5, <1>6 DEF TypeInv

\* The steps of a release.
LEMMA AfterLockType ==
  ASSUME TypeInv, NEW t \in Thread, NEW l \in Lock, UnlockCall(t, l)
  PROVE  TypeInv'
<1>1. CASE AfterLockIgnored(t, l)
  <2>1. /\ pc' \in [Thread -> {"run", "wait", "try", "got", "unlock", "cnd_wait"}]
        /\ target' \in [Thread -> [mu : Lock \cup {NoLock}, id : Id \cup {InvalidId}]]
    BY <1>1 DEF AfterLockIgnored, TypeInv, TypeOK, Goto
  <2>2. ignoreUnlock' \in [Thread -> 0 .. MaxIgnore]
    BY <1>1 DEF AfterLockIgnored, TypeInv, TypeOK
  <2>3. TypeOK'
    BY <1>1, <2>1, <2>2 DEF AfterLockIgnored, TypeInv, TypeOK, graph, errors
  <2>4. Wrappers'
    BY <1>1 DEF AfterLockIgnored, TypeInv, TypeOK, Wrappers, Goto
  <2> QED BY <2>3, <2>4 DEF TypeInv
<1>2. CASE AfterLock(t, l)
  <2> DEFINE h == Release(held[t], GetGraphId(l))
  <2>1. h \in Seq(EntryType) /\ Len(h) <= Len(held[t]) /\ Len(held[t]) \in Nat
    BY HeldType, ReleaseType DEF TypeInv
  <2>2. held' = [held EXCEPT ![t] = h]
    BY <1>2 DEF AfterLock
  <2> HIDE DEF h
  <2>3. Len(held[t]) <= MaxLocks /\ Len(h) \in Nat
    BY <2>1 DEF TypeInv, Wrappers
  <2>4. held' \in [Thread -> Seq(EntryType)] /\ \A u \in Thread : Len(held'[u]) <= MaxLocks
    BY <2>1, <2>2, <2>3, HeldType DEF TypeInv, Wrappers
  <2>5. /\ nodes' \in SUBSET Lock /\ gen' \in [Lock -> Gen] /\ free' \in Nat
    BY <1>2, AllocateType DEF AfterLock, GetId, TypeInv
  <2>6. /\ priority' \in [Lock -> 0 .. MaxLocks + 1]
        /\ tracedBy' \in [Lock -> Thread \cup {NoThread}]
    <3>1. /\ priority \in [Lock -> 0 .. MaxLocks + 1]
          /\ tracedBy \in [Lock -> Thread \cup {NoThread}]
      BY DEF TypeInv, TypeOK
    <3>2. GetId(t, l)
      BY <1>2 DEF AfterLock
    <3> QED BY <3>1, <3>2, GetIdTraceType
  <2>7. /\ pc' \in [Thread -> {"run", "wait", "try", "got", "unlock", "cnd_wait"}]
        /\ target' \in [Thread -> [mu : Lock \cup {NoLock}, id : Id \cup {InvalidId}]]
    BY <1>2 DEF AfterLock, TypeInv, TypeOK, Goto
  <2>8. /\ synch' \in [Thread -> {"none", "watched", "unwatched"}]
        /\ timing' \in [Thread -> {"off", "on", "never"}]
        /\ other_errors_found' \in BOOLEAN
    BY <1>2 DEF AfterLock, TypeInv, TypeOK, GetAllLocks, StopTiming
  <2>9. TypeOK'
    BY <1>2, <2>4, <2>5, <2>6, <2>7, <2>8 DEF AfterLock, TypeInv, TypeOK, EntryType
  <2>10. Wrappers'
    BY <1>2, <2>4 DEF AfterLock, TypeInv, TypeOK, Wrappers, Goto
  <2> QED BY <2>9, <2>10 DEF TypeInv
<1> QED BY <1>1, <1>2 DEF UnlockCall

LEMMA LeaveType ==
  ASSUME TypeInv, NEW t \in Thread, Leave(t)
  PROVE  TypeInv'
<1> DEFINE l == target[t].mu
<1>1. l \in Lock
  BY DEF Leave, TypeInv, Wrappers
<1>2. owner \in [Lock -> Thread \cup {NoThread}] /\ depth \in [Lock -> 0 .. MaxDepth]
  BY DEF TypeInv, TypeOK
<1>3. \A k \in Lock : owner[k] = NoThread <=> depth[k] = 0
  BY DEF TypeInv, Wrappers
<1>4. \/ owner' = owner /\ depth' = depth
      \/ /\ owner[l] = t
         /\ depth' = [depth EXCEPT ![l] = depth[l] - 1]
         /\ owner' = IF depth[l] = 1 THEN [owner EXCEPT ![l] = NoThread] ELSE owner
  BY DEF Leave
<1> HIDE DEF l
<1>5. owner[l] = t => depth[l] \in 1 .. MaxDepth
  BY <1>1, <1>2, <1>3
<1>6. owner' \in [Lock -> Thread \cup {NoThread}] /\ depth' \in [Lock -> 0 .. MaxDepth]
  BY <1>1, <1>2, <1>4, <1>5
<1>7. \A k \in Lock : owner'[k] = NoThread <=> depth'[k] = 0
  BY <1>1, <1>2, <1>3, <1>4, <1>5
<1>8. \A k \in Lock, u \in Thread : owner'[k] = u => owner[k] = u /\ depth'[k] <= depth[k]
  BY <1>1, <1>2, <1>4, <1>5
<1>9. TypeOK'
  BY <1>6, ReturnType DEF Leave, TypeInv, TypeOK, graph, own, errors
<1>10. \A u \in Thread : /\ pc'[u] \in {"wait", "try", "cnd_wait"}
                         /\ owner'[target'[u].mu] = u
                         => depth'[target'[u].mu] < MaxDepth
  <2> SUFFICES ASSUME NEW u \in Thread, pc'[u] \in {"wait", "try", "cnd_wait"},
                      owner'[target'[u].mu] = u
               PROVE  depth'[target'[u].mu] < MaxDepth
    OBVIOUS
  <2>1. pc[u] = pc'[u] /\ target'[u] = target[u]
    BY DEF Leave, Return, TypeInv, TypeOK
  <2>2. target[u].mu \in Lock
    BY <2>1 DEF TypeInv, Wrappers
  <2>3. owner[target[u].mu] = u /\ depth'[target[u].mu] <= depth[target[u].mu]
    BY <1>8, <2>1, <2>2
  <2>4. depth[target[u].mu] < MaxDepth
    BY <2>1, <2>3 DEF TypeInv, Wrappers
  <2>5. depth[target[u].mu] \in Nat /\ depth'[target[u].mu] \in Nat
    BY <1>2, <1>6, <2>2
  <2> QED BY <2>1, <2>3, <2>4, <2>5
<1>11. Wrappers'
  <2>1. /\ pc'[t] = "run"
        /\ \A u \in Thread : u # t => pc'[u] = pc[u] /\ target'[u] = target[u]
    BY DEF Leave, Return, TypeInv, TypeOK
  <2> QED BY <1>7, <1>10, <2>1 DEF Leave, TypeInv, Wrappers, own
<1> QED BY <1>9, <1>11 DEF TypeInv

\* The other calls.
LEMMA DeleteLockType ==
  ASSUME TypeInv, NEW t \in Thread, NEW l \in Lock, DeleteLock(t, l)
  PROVE  TypeInv'
<1>1. /\ nodes' \in SUBSET Lock /\ order' \in SUBSET (Id \X Id)
      /\ free' \in Nat /\ nested' \in SUBSET (Lock \X Lock)
  BY DEF DeleteLock, TypeInv, TypeOK
<1>2. /\ owner' \in [Lock -> Thread \cup {NoThread}] /\ depth' \in [Lock -> 0 .. MaxDepth]
      /\ synch' \in [Thread -> {"none", "watched", "unwatched"}]
  BY DEF DeleteLock, TypeInv, TypeOK, GetAllLocks
<1>3. TypeOK'
  BY <1>1, <1>2 DEF DeleteLock, TypeInv, TypeOK
<1>4. Wrappers'
  BY DEF DeleteLock, TypeInv, TypeOK, Wrappers
<1> QED BY <1>3, <1>4 DEF TypeInv

LEMMA OtherType ==
  ASSUME TypeInv, NEW t \in Thread, IncreaseIgnoreCounter(t) \/ ThreadExit(t)
  PROVE  TypeInv'
<1>1. CASE IncreaseIgnoreCounter(t)
  <2>1. ignoreLock' \in [Thread -> 0 .. MaxIgnore] /\ ignoreUnlock' \in [Thread -> 0 .. MaxIgnore]
    BY <1>1 DEF IncreaseIgnoreCounter, TypeInv, TypeOK
  <2>2. TypeOK'
    BY <1>1, <2>1 DEF IncreaseIgnoreCounter, TypeInv, TypeOK, graph, errors, program
  <2>3. Wrappers'
    BY <1>1 DEF IncreaseIgnoreCounter, TypeInv, Wrappers, program
  <2> QED BY <2>2, <2>3 DEF TypeInv
<1>2. CASE ThreadExit(t)
  <2>1. /\ held' \in [Thread -> Seq(EntryType)]
        /\ synch' \in [Thread -> {"none", "watched", "unwatched"}]
        /\ timing' \in [Thread -> {"off", "on", "never"}]
    <3>1. <<>> \in Seq(EntryType) /\ held \in [Thread -> Seq(EntryType)]
      BY HeldType DEF TypeInv
    <3>2. held' = [held EXCEPT ![t] = <<>>]
      BY <1>2 DEF ThreadExit
    <3>3. held' \in [Thread -> Seq(EntryType)]
      BY <3>1, <3>2
    <3>4. /\ synch' \in [Thread -> {"none", "watched", "unwatched"}]
          /\ timing' \in [Thread -> {"off", "on", "never"}]
      BY <1>2 DEF ThreadExit, TypeInv, TypeOK
    <3> QED BY <3>3, <3>4
  <2>2. TypeOK'
    BY <1>2, <2>1 DEF ThreadExit, TypeInv, TypeOK, EntryType, graph, errors, program
  <2>3. \A u \in Thread : Len(held'[u]) <= MaxLocks
    BY <1>2, HeldType DEF ThreadExit, TypeInv, Wrappers
  <2>4. Wrappers'
    BY <1>2, <2>3 DEF ThreadExit, TypeInv, Wrappers, program
  <2> QED BY <2>2, <2>4 DEF TypeInv
<1> QED BY <1>1, <1>2

LEMMA CndWaitType ==
  ASSUME TypeInv, NEW t \in Thread, NEW l \in Lock, CndWait(t, l)
  PROVE  TypeInv'
<1>1. /\ pc' \in [Thread -> {"run", "wait", "try", "got", "unlock", "cnd_wait"}]
      /\ target' \in [Thread -> [mu : Lock \cup {NoLock}, id : Id \cup {InvalidId}]]
  BY DEF CndWait, TypeInv, TypeOK, Goto
<1>2. /\ owner' \in [Lock -> Thread \cup {NoThread}] /\ depth' \in [Lock -> 0 .. MaxDepth]
      /\ synch' \in [Thread -> {"none", "watched", "unwatched"}]
      /\ timing' \in [Thread -> {"off", "on", "never"}]
  BY DEF CndWait, TypeInv, TypeOK, GetAllLocks
<1>3. TypeOK'
  BY <1>1, <1>2 DEF CndWait, TypeInv, TypeOK, graph, errors
<1>4. Wrappers'
  BY DEF CndWait, TypeInv, TypeOK, Wrappers, Goto
<1> QED BY <1>3, <1>4 DEF TypeInv

LEMMA StutterType == TypeInv /\ UNCHANGED vars => TypeInv'
<1> SUFFICES ASSUME TypeInv, UNCHANGED vars PROVE TypeInv'
  OBVIOUS
<1>1. TypeOK'
  BY DEF TypeInv, TypeOK, vars, graph, own, errors, program
<1>2. Wrappers'
  BY DEF TypeInv, Wrappers, vars, own, program
<1> QED BY <1>1, <1>2 DEF TypeInv

\* One lemma per call, put together.
LEMMA TypeStep == TypeInv /\ [Next]_vars => TypeInv'
<1> SUFFICES ASSUME TypeInv, [Next]_vars PROVE TypeInv'
  OBVIOUS
<1>1. ASSUME NEW t \in Thread, NEW l \in Lock,
             \/ LockCall(t, l) \/ UnlockCall(t, l)
             \/ BeforeTryLock(t, l) \/ DeleteLock(t, l) \/ CndWait(t, l)
      PROVE  TypeInv'
  BY <1>1, BeforeLockType, AfterLockType, BeforeTryLockType, DeleteLockType, CndWaitType
<1>2. ASSUME NEW t \in Thread,
             \/ Enter(t) \/ InLock(t) \/ TryEnter(t) \/ TryEnterFails(t) \/ Leave(t)
             \/ IncreaseIgnoreCounter(t) \/ CndWake(t) \/ ThreadExit(t)
      PROVE  TypeInv'
  BY <1>2, LockType, InLockType, LeaveType, OtherType
<1>3. CASE UNCHANGED vars
  BY <1>3, StutterType
<1> QED BY <1>1, <1>2, <1>3 DEF Next

LEMMA TypeInvHolds == Spec => []TypeInv
BY InitType, TypeStep, PTL DEF Spec

\* The monitor and the program keep to their types: a history stays within its
\* MAX_LOCKS_PER_THREAD entries, a lock is owned exactly while it is entered,
\* and a recorded lock comes with an id of the graph (thread_history_helper.cpp).
THEOREM MonitorTypeCorrect == Spec => []TypeOK
<1>1. TypeInv => TypeOK
  BY DEF TypeInv
<1> QED BY <1>1, TypeInvHolds, PTL
-----------------------------------------------------------------------------
(* What a thread's history says of the locks it holds, and what the        *)
(* monitor concludes from it.                                              *)

USE NoThreadAssumption, NoLockAssumption, Bounds

-----------------------------------------------------------------------------
(* Histories in which no two entries have the same id.                     *)

Distinct(h) == \A i, j \in DOMAIN h : h[i].id = h[j].id => i = j

\* How often a history says that the lock of this id is held.
Count(h, id) == IF WithId(h, id) = {} THEN 0 ELSE h[First(WithId(h, id))].count

\* The entries of g are entries of h or name the lock mu by id.
SameEntries(g, h, mu, id) ==
  \A i \in DOMAIN g : \/ g[i].mu = mu /\ g[i].id = id
                      \/ \E j \in DOMAIN h : g[i].mu = h[j].mu /\ g[i].id = h[j].id

LEMMA CountType ==
  ASSUME NEW h \in Seq(EntryType), NEW id
  PROVE  Count(h, id) \in Nat /\ (Count(h, id) = 0 <=> WithId(h, id) = {})
<1>1. CASE WithId(h, id) = {}
  BY <1>1 DEF Count
<1>2. CASE WithId(h, id) # {}
  <2>1. First(WithId(h, id)) \in 1 .. Len(h)
    BY <1>2, FoundIndex
  <2>2. h[First(WithId(h, id))] \in EntryType
    BY <2>1
  <2> QED BY <1>2, <2>2 DEF Count, EntryType
<1> QED BY <1>1, <1>2

LEMMA CountOfEntry ==
  ASSUME NEW h \in Seq(EntryType), Distinct(h), NEW i \in DOMAIN h
  PROVE  Count(h, h[i].id) = h[i].count
<1>1. WithId(h, h[i].id) # {}
  BY DEF WithId
<1> DEFINE k == First(WithId(h, h[i].id))
<1>2. k \in 1 .. Len(h) /\ h[k].id = h[i].id
  BY <1>1, FoundIndex
<1>3. k = i
  BY <1>2 DEF Distinct
<1> QED BY <1>1, <1>3 DEF Count

LEMMA CountOfNone ==
  ASSUME NEW h \in Seq(EntryType), NEW id, \A i \in DOMAIN h : h[i].id # id
  PROVE  Count(h, id) = 0
BY DEF Count, WithId

\* Two histories with the same entry for an id, or both without one, agree.
LEMMA CountsAgree ==
  ASSUME NEW h \in Seq(EntryType), NEW g \in Seq(EntryType), Distinct(h), Distinct(g), NEW id,
         \A i \in DOMAIN h : h[i].id = id => \E j \in DOMAIN g : g[j] = h[i],
         \A j \in DOMAIN g : g[j].id = id => \E i \in DOMAIN h : h[i] = g[j]
  PROVE  Count(g, id) = Count(h, id)
<1>1. CASE \E i \in DOMAIN h : h[i].id = id
  <2>1. PICK i \in DOMAIN h : h[i].id = id
    BY <1>1
  <2>2. PICK j \in DOMAIN g : g[j] = h[i]
    BY <2>1
  <2>3. Count(h, h[i].id) = h[i].count /\ Count(g, g[j].id) = g[j].count
    BY CountOfEntry
  <2> QED BY <2>1, <2>2, <2>3
<1>2. CASE \A i \in DOMAIN h : h[i].id # id
  BY <1>2, CountOfNone
<1> QED BY <1>1, <1>2

\* update_lock_history_in_lock: the lock is counted once more, or dropped when
\* the history is full; the other locks are counted as before.
LEMMA RecordCounts ==
  ASSUME NEW h \in Seq(EntryType), Distinct(h), NEW mu \in Lock, NEW id \in Id,
         NEW max \in Nat, Len(h) <= max
  PROVE  LET g == Record(h, mu, id, max)
         IN  /\ Distinct(g) /\ SameEntries(g, h, mu, id)
             /\ \A x : x # id => Count(g, x) = Count(h, x)
             /\ \/ Count(g, id) = Count(h, id) + 1
                \/ Len(h) = max /\ WithId(h, id) = {} /\ g = h
<1> DEFINE g == Record(h, mu, id, max)
<1>0. g \in Seq(EntryType)
  BY RecordType
<1>1. CASE WithId(h, id) # {}
  <2> DEFINE k == First(WithId(h, id))
  <2>1. k \in 1 .. Len(h) /\ h[k].id = id
    BY <1>1, FoundIndex
  <2>2. PICK e \in EntryType : e = Counted(h[k], 1)
    BY <2>1, CountedType
  <2>3. e.id = id /\ e.mu = h[k].mu /\ e.count = h[k].count + 1
    BY <2>1, <2>2 DEF Counted, Entry
  <2>4. g = [h EXCEPT ![k] = e]
    BY <1>1, <2>2 DEF Record
  <2> HIDE DEF k, g
  <2>5. DOMAIN g = DOMAIN h /\ g[k] = e /\ \A i \in DOMAIN h : i # k => g[i] = h[i]
    BY <2>1, <2>4
  <2>6. \A i \in DOMAIN h : g[i].id = h[i].id /\ g[i].mu = h[i].mu
    BY <2>1, <2>3, <2>5
  <2>7. Distinct(g)
    BY <2>5, <2>6 DEF Distinct
  <2>8. SameEntries(g, h, mu, id)
    BY <2>5, <2>6 DEF SameEntries
  <2>9. ASSUME NEW x, x # id PROVE Count(g, x) = Count(h, x)
    <3>1. \A i \in DOMAIN h : h[i].id = x => g[i] = h[i]
      BY <2>1, <2>5, <2>9
    <3>2. \A i \in DOMAIN g : g[i].id = x => g[i] = h[i] /\ i \in DOMAIN h
      BY <2>5, <2>6, <3>1
    <3> QED BY <1>0, <2>5, <2>7, <3>1, <3>2, CountsAgree
  <2>10. Count(g, id) = Count(h, id) + 1
    <3>1. k \in DOMAIN h /\ k \in DOMAIN g
      BY <2>1, <2>5
    <3>2. Count(h, h[k].id) = h[k].count
      BY <3>1, CountOfEntry
    <3>3. Count(g, g[k].id) = g[k].count
      BY <1>0, <2>7, <3>1, CountOfEntry
    <3> QED BY <2>1, <2>3, <2>5, <3>2, <3>3
  <2> QED BY <2>7, <2>8, <2>9, <2>10 DEF g
<1>2. CASE WithId(h, id) = {} /\ Len(h) = max
  <2>1. g = h
    BY <1>2 DEF Record
  <2>2. SameEntries(h, h, mu, id)
    BY DEF SameEntries
  <2> QED BY <1>2, <2>1, <2>2
<1>3. CASE WithId(h, id) = {} /\ Len(h) # max
  <2>0. Entry(mu, id, 1) \in EntryType
    BY DEF Entry, EntryType
  <2>1. PICK e \in EntryType : e = Entry(mu, id, 1)
    BY <2>0
  <2>2. e.mu = mu /\ e.id = id /\ e.count = 1
    BY <2>1 DEF Entry
  <2>3. g = Append(h, e)
    BY <1>3, <2>1 DEF Record
  <2> HIDE DEF g
  <2>4. /\ DOMAIN h = 1 .. Len(h) /\ Len(h) \in Nat /\ DOMAIN g = 1 .. (Len(h) + 1)
        /\ g[Len(h) + 1] = e /\ \A i \in DOMAIN h : g[i] = h[i]
    BY <2>3
  <2>5. \A i \in DOMAIN h : h[i].id # id
    BY <1>3 DEF WithId
  <2>6. \A i \in DOMAIN g : i \in DOMAIN h \/ i = Len(h) + 1
    BY <2>4
  <2>7. Distinct(g)
    BY <2>2, <2>4, <2>5, <2>6 DEF Distinct
  <2>8. SameEntries(g, h, mu, id)
    BY <2>2, <2>4, <2>6 DEF SameEntries
  <2>9. ASSUME NEW x, x # id PROVE Count(g, x) = Count(h, x)
    <3>1. \A i \in DOMAIN h : i \in DOMAIN g /\ g[i] = h[i]
      BY <2>4
    <3>2. \A i \in DOMAIN g : g[i].id = x => i \in DOMAIN h /\ g[i] = h[i]
      BY <2>2, <2>4, <2>6, <2>9
    <3> QED BY <1>0, <2>7, <3>1, <3>2, CountsAgree
  <2>10. Count(g, id) = Count(h, id) + 1
    <3>1. Count(h, id) = 0
      BY <2>5, CountOfNone
    <3>2. Len(h) + 1 \in DOMAIN g
      BY <2>4
    <3>3. Count(g, g[Len(h) + 1].id) = g[Len(h) + 1].count
      BY <1>0, <2>7, <3>2, CountOfEntry
    <3> QED BY <2>2, <2>4, <3>1, <3>3
  <2> QED BY <2>7, <2>8, <2>9, <2>10 DEF g
<1> QED BY <1>1, <1>2, <1>3

\* update_lock_history_after_lock: a recorded lock is counted once less, and
\* the last entry, which may move, and all others are kept.
LEMMA ReleaseCounts ==
  ASSUME NEW h \in Seq(EntryType), Distinct(h), NEW id
  PROVE  LET g == Release(h, id)
         IN  /\ Distinct(g)
             /\ \A i \in DOMAIN g : \E j \in DOMAIN h : g[i].mu = h[j].mu /\ g[i].id = h[j].id
             /\ \A x : x # id => Count(g, x) = Count(h, x)
             /\ Count(g, id) = IF Count(h, id) = 0 THEN 0 ELSE Count(h, id) - 1
<1> DEFINE g == Release(h, id)
<1>0. g \in Seq(EntryType)
  BY ReleaseType
<1>1. CASE WithId(h, id) = {}
  BY <1>1, CountType DEF Release
<1>2. CASE WithId(h, id) # {}
  <2> DEFINE k == First(WithId(h, id))
  <2>1. k \in 1 .. Len(h) /\ h[k].id = id
    BY <1>2, FoundIndex
  <2>2. Count(h, id) = h[k].count /\ h[k] \in EntryType /\ h[k].count \in Nat \ {0}
    <3>1. h[k] \in EntryType
      BY <2>1
    <3>2. h[k].count \in Nat \ {0}
      BY <3>1 DEF EntryType
    <3>3. Count(h, id) = h[k].count
      BY <1>2 DEF Count
    <3> QED BY <3>1, <3>2, <3>3
  <2>3. CASE h[k].count = 1
    <3> DEFINE n == Len(h)
               e == h[n]
               f == [h EXCEPT ![k] = e]
    <3>1. g = SubSeq(f, 1, n - 1) /\ n \in Nat \ {0} /\ e \in EntryType
      BY <1>2, <2>1, <2>3 DEF Release
    <3>2. f \in Seq(EntryType) /\ Len(f) = n
      BY <2>1, <3>1
    <3> HIDE DEF g, k
    <3>3. DOMAIN g = 1 .. (n - 1) /\ \A i \in 1 .. (n - 1) : g[i] = f[i]
      BY <3>1, <3>2
    <3>4. /\ DOMAIN h = 1 .. n
          /\ \A i \in 1 .. n : f[i] = IF i = k THEN e ELSE h[i]
      BY <2>1, <3>1
    <3>5. \A i \in DOMAIN g : g[i] = IF i = k THEN e ELSE h[i]
      BY <3>1, <3>3, <3>4
    <3> HIDE DEF f
    <3>6. \A i \in DOMAIN g : \E j \in DOMAIN h : j # k /\ g[i] = h[j] /\ (j = IF i = k THEN n ELSE i)
      BY <2>1, <3>1, <3>3, <3>4, <3>5
    <3>7. \A j \in DOMAIN h : j # k => \E i \in DOMAIN g : g[i] = h[j]
      <4> SUFFICES ASSUME NEW j \in DOMAIN h, j # k PROVE \E i \in DOMAIN g : g[i] = h[j]
        OBVIOUS
      <4>1. CASE j = n
        BY <2>1, <3>1, <3>3, <3>4, <3>5, <4>1
      <4>2. CASE j # n
        BY <2>1, <3>1, <3>3, <3>4, <3>5, <4>2
      <4> QED BY <4>1, <4>2
    <3>8. Distinct(g)
      <4> SUFFICES ASSUME NEW i \in DOMAIN g, NEW j \in DOMAIN g, g[i].id = g[j].id
                   PROVE  i = j
        BY DEF Distinct
      <4>1. PICK a \in DOMAIN h : g[i] = h[a] /\ (a = IF i = k THEN n ELSE i)
        BY <3>6
      <4>2. PICK b \in DOMAIN h : g[j] = h[b] /\ (b = IF j = k THEN n ELSE j)
        BY <3>6
      <4>3. a = b
        BY <4>1, <4>2 DEF Distinct
      <4> QED BY <3>1, <3>3, <4>1, <4>2, <4>3
    <3>9. \A j \in DOMAIN h : h[j].id = id => j = k
      BY <2>1, <3>4 DEF Distinct
    <3>10. \A i \in DOMAIN g : g[i].id # id
      BY <3>6, <3>9
    <3>11. Count(g, id) = 0
      BY <1>0, <3>10, CountOfNone
    <3>12. ASSUME NEW x, x # id PROVE Count(g, x) = Count(h, x)
      <4>1. \A j \in DOMAIN h : h[j].id = x => \E i \in DOMAIN g : g[i] = h[j]
        BY <2>1, <3>7, <3>12
      <4>2. \A i \in DOMAIN g : g[i].id = x => \E j \in DOMAIN h : h[j] = g[i]
        BY <3>6
      <4> QED BY <1>0, <3>8, <4>1, <4>2, CountsAgree
    <3>13. \A i \in DOMAIN g : \E j \in DOMAIN h : g[i].mu = h[j].mu /\ g[i].id = h[j].id
      BY <3>6
    <3> QED BY <2>2, <2>3, <3>8, <3>11, <3>12, <3>13 DEF g
  <2>4. CASE h[k].count # 1
    <3>1. PICK e \in EntryType : e = Counted(h[k], -1)
      BY <2>2, <2>4, CountedType
    <3>2. e.id = id /\ e.mu = h[k].mu /\ e.count = h[k].count - 1
      BY <2>1, <3>1 DEF Counted, Entry
    <3>3. g = [h EXCEPT ![k] = e]
      BY <1>2, <2>4, <3>1 DEF Release
    <3> HIDE DEF k, g
    <3>4. DOMAIN g = DOMAIN h /\ g[k] = e /\ k \in DOMAIN h /\ \A i \in DOMAIN h : i # k => g[i] = h[i]
      BY <2>1, <3>3
    <3>5. \A i \in DOMAIN h : g[i].id = h[i].id /\ g[i].mu = h[i].mu
      BY <2>1, <3>2, <3>4
    <3>6. Distinct(g)
      BY <3>4, <3>5 DEF Distinct
    <3>7. ASSUME NEW x, x # id PROVE Count(g, x) = Count(h, x)
      <4>1. \A i \in DOMAIN h : h[i].id = x => g[i] = h[i]
        BY <2>1, <3>4, <3>7
      <4>2. \A i \in DOMAIN g : g[i].id = x => g[i] = h[i] /\ i \in DOMAIN h
        BY <3>4, <3>5, <4>1
      <4> QED BY <1>0, <3>4, <3>6, <4>1, <4>2, CountsAgree
    <3>8. Count(g, g[k].id) = g[k].count
      BY <1>0, <3>4, <3>6, CountOfEntry
    <3> QED BY <2>2, <3>2, <3>4, <3>5, <3>6, <3>7, <3>8 DEF g
  <2> QED BY <2>3, <2>4
<1> QED BY <1>1, <1>2

-----------------------------------------------------------------------------
(* What the history invariant says, thread by thread.                      *)

\* The entries have different ids; each names its lock, by the id of its last
\* node or of an earlier one.
Entries(t) ==
  /\ Distinct(held[t])
  /\ \A i \in DOMAIN held[t] : /\ held[t][i].id[1] = held[t][i].mu
                               /\ held[t][i].id[2] <= gen[held[t][i].mu]

\* The lock a thread goes for has a node, and the id is that node's.
Aimed(t) ==
  pc[t] \in {"wait", "try", "got"} /\ target[t].id # InvalidId =>
    target[t].mu \in nodes /\ target[t].id = <<target[t].mu, gen[target[t].mu]>>

\* While releases are to be ignored, nothing is recorded or about to be.
Ignored(t) ==
  /\ ignoreUnlock[t] > 0 => /\ held[t] = <<>> /\ pc[t] \notin {"try", "got"}
                            /\ pc[t] = "wait" => target[t].id = InvalidId
  /\ "ignore" \notin Ops => ignoreLock[t] = 0 /\ ignoreUnlock[t] = 0

\* Without misuse no lock goes away while it is recorded, and who releases a
\* lock owns it.
Fresh(t) ==
  "misuse" \notin Ops =>
    /\ \A i \in DOMAIN held[t] : Alive(held[t][i].id)
    /\ pc[t] = "unlock" => owner[target[t].mu] = t

\* How often the history says that the lock is held, by the id it has now, and
\* how far that is behind in the middle of a wrapper that changes the lock.
RecordedNow(t, l) == Count(held[t], GetGraphId(l))
Late(t, l) == IF target[t].mu # l THEN 0
              ELSE IF pc[t] = "got" \/ (pc[t] = "unlock" /\ owner[l] = t) THEN 1
              ELSE IF pc[t] = "cnd_wait" THEN -1 ELSE 0

\* How much more often the thread holds the lock than its history says.
Slack(t, l) == Holds(t, l) - RecordedNow(t, l) - Late(t, l)

Ledger == \A t \in Thread : Entries(t) /\ Aimed(t) /\ Ignored(t) /\ Fresh(t)
NeverAhead == \A t \in Thread, l \in Lock : Slack(t, l) >= 0

\* A history is never ahead of what the thread holds.
HistoryInv == TypeInv /\ Ledger /\ NeverAhead

\* The programs this is about: an ignored lock is released by the thread that
\* owns it and is not taken by a try, which is monitored all the same.
IgnoresWell == "ignore" \in Ops => "try" \notin Ops /\ "misuse" \notin Ops

LEMMA SlackType ==
  ASSUME TypeInv, NEW t \in Thread, NEW l \in Lock
  PROVE  /\ RecordedNow(t, l) \in Nat /\ Late(t, l) \in {-1, 0, 1} /\ Holds(t, l) \in Nat
         /\ Slack(t, l) \in Int
         /\ owner[l] = t => Holds(t, l) >= 1
<1>1. RecordedNow(t, l) \in Nat
  BY HeldType, CountType DEF RecordedNow, TypeInv
<1>2. Late(t, l) \in {-1, 0, 1}
  BY DEF Late
<1>3. Holds(t, l) \in Nat /\ (owner[l] = t => Holds(t, l) >= 1)
  <2>1. depth[l] \in Nat /\ (owner[l] = NoThread <=> depth[l] = 0)
    BY DEF TypeInv, TypeOK, Wrappers
  <2> QED BY <2>1 DEF Holds
<1> QED BY <1>1, <1>2, <1>3 DEF Slack

\* The graph keeps the ids it has given out.
IdsKept == /\ nodes \subseteq nodes'
           /\ \A l \in Lock : /\ GetGraphId(l)' = GetGraphId(l) /\ gen[l] <= gen'[l]
                              /\ l \in nodes => gen'[l] = gen[l]

LEMMA AllocateKeepsIds ==
  ASSUME TypeOK, NEW l \in Lock, Allocate(l)
  PROVE  IdsKept /\ l \in nodes' /\ GetGraphId(l) = <<l, gen'[l]>>
<1>1. gen \in [Lock -> Gen] /\ \A k \in Lock : gen[k] \in Nat
  BY DEF TypeOK, Gen
<1>2. gen'[l] = (IF l \in nodes THEN gen[l] ELSE gen[l] + 1) /\ \A k \in Lock : k # l => gen'[k] = gen[k]
  BY <1>1 DEF Allocate, GetGraphId
<1>3. nodes' = nodes \cup {l}
  BY DEF Allocate
<1> QED BY <1>1, <1>2, <1>3 DEF IdsKept, GetGraphId

LEMMA SameGraphKeepsIds ==
  ASSUME TypeOK, nodes' = nodes, gen' = gen
  PROVE  IdsKept
BY DEF IdsKept, GetGraphId, TypeOK, Gen

LEMMA AliveKept ==
  ASSUME TypeOK, IdsKept, NEW id, Alive(id)
  PROVE  id[1] \in nodes' /\ id[2] = gen'[id[1]]
<1>1. id[1] \in Lock /\ id[1] \in nodes /\ id[2] = gen[id[1]]
  BY DEF TypeOK, Alive
<1> QED BY <1>1 DEF IdsKept

LEMMA IgnoreTypes ==
  ASSUME TypeOK, NEW t \in Thread
  PROVE  ignoreLock[t] \in Nat /\ ignoreUnlock[t] \in Nat
<1>1. ignoreLock \in [Thread -> 0 .. MaxIgnore] /\ ignoreUnlock \in [Thread -> 0 .. MaxIgnore]
  BY DEF TypeOK
<1> QED BY <1>1

\* Ids of different locks differ.
LEMMA IdsDiffer == \A k, l : GetGraphId(k) = GetGraphId(l) => k = l
BY DEF GetGraphId

\* What a step leaves alone of a thread.
Untouched(t) == /\ held'[t] = held[t] /\ pc'[t] = pc[t] /\ target'[t] = target[t]
                /\ ignoreLock'[t] = ignoreLock[t] /\ ignoreUnlock'[t] = ignoreUnlock[t]

LEMMA GenerationsGrow ==
  ASSUME TypeInv, TypeInv', IdsKept
  PROVE  \A l \in Lock : gen[l] \in Nat /\ gen'[l] \in Nat /\ gen[l] <= gen'[l]
BY DEF IdsKept, TypeInv, TypeOK, Gen

\* Entries stay sound as long as the ids are kept.
LEMMA EntriesKept ==
  ASSUME TypeInv, TypeInv', IdsKept, NEW t \in Thread, held'[t] = held[t], Entries(t)
  PROVE  Entries(t)'
<1>1. \A i \in DOMAIN held[t] : held[t][i].mu \in Lock /\ held[t][i].id[2] \in Nat
  <2>1. held[t] \in Seq(EntryType)
    BY HeldType DEF TypeInv
  <2>2. \A i \in DOMAIN held[t] : held[t][i] \in EntryType
    BY <2>1
  <2> QED BY <2>2 DEF EntryType, Id, Gen
<1>2. \A l \in Lock : gen[l] \in Nat /\ gen'[l] \in Nat /\ gen[l] <= gen'[l]
  BY GenerationsGrow
<1>3. \A i \in DOMAIN held[t] : /\ held[t][i].id[1] = held[t][i].mu
                               /\ held[t][i].id[2] <= gen'[held[t][i].mu]
  BY <1>1, <1>2 DEF Entries
<1> QED BY <1>3 DEF Entries, Distinct

\* A thread that takes no part in a step keeps its part of the ledger, as long
\* as nobody takes away the lock it is about to release.
LEMMA OthersKept ==
  ASSUME TypeInv, TypeInv', IdsKept, Ledger, NEW t \in Thread, Untouched(t),
         pc[t] = "unlock" /\ owner[target[t].mu] = t => owner'[target[t].mu] = t
  PROVE  Entries(t)' /\ Aimed(t)' /\ Ignored(t)' /\ Fresh(t)'
<1>1. Entries(t)'
  BY EntriesKept DEF Ledger, Untouched
<1>2. Aimed(t)'
  BY DEF Ledger, Untouched, Aimed, IdsKept, TypeInv, TypeOK
<1>3. Ignored(t)'
  BY DEF Ledger, Untouched, Ignored
<1>4. Fresh(t)'
  <2>1. ASSUME NEW i \in DOMAIN held[t], Alive(held[t][i].id)
        PROVE  held[t][i].id[1] \in nodes' /\ held[t][i].id[2] = gen'[held[t][i].id[1]]
    BY <2>1, AliveKept DEF TypeInv
  <2> QED BY <2>1 DEF Ledger, Untouched, Fresh, Alive
<1> QED BY <1>1, <1>2, <1>3, <1>4

LEMMA SlackKept ==
  ASSUME NEW t \in Thread, NEW l \in Lock, IdsKept,
         held'[t] = held[t], Late(t, l)' = Late(t, l),
         owner'[l] = t <=> owner[l] = t, owner[l] = t => depth'[l] = depth[l]
  PROVE  Slack(t, l)' = Slack(t, l)
<1>1. Holds(t, l)' = Holds(t, l)
  BY DEF Holds
<1>2. RecordedNow(t, l)' = RecordedNow(t, l)
  BY DEF RecordedNow, IdsKept
<1> QED BY <1>1, <1>2 DEF Slack

\* A call of the monitor before a lock, which goes to the place w with the id x.
LEMMA BeforeCall ==
  ASSUME HistoryInv, TypeInv', IdsKept, NEW t \in Thread, NEW l \in Lock,
         NEW w \in {"wait", "try"}, NEW x,
         pc[t] = "run", Goto(t, w, l, x),
         held' = held, owner' = owner, depth' = depth, ignoreUnlock' = ignoreUnlock,
         \A u \in Thread : u # t => ignoreLock'[u] = ignoreLock[u],
         ignoreLock[t] = 0 => ignoreLock'[t] = 0,
         x = InvalidId \/ (l \in nodes' /\ x = <<l, gen'[l]>>),
         x # InvalidId \/ w = "try" => ignoreUnlock[t] = 0
  PROVE  Ledger' /\ \A u \in Thread, k \in Lock : Slack(u, k)' = Slack(u, k)
<1>1. /\ pc'[t] = w /\ target'[t] = [mu |-> l, id |-> x]
      /\ \A u \in Thread : u # t => pc'[u] = pc[u] /\ target'[u] = target[u]
  BY DEF Goto, HistoryInv, TypeInv, TypeOK
<1>2. ASSUME NEW u \in Thread, u # t PROVE Entries(u)' /\ Aimed(u)' /\ Ignored(u)' /\ Fresh(u)'
  BY <1>1, <1>2, OthersKept DEF HistoryInv, Untouched
<1>3. Entries(t)' /\ Aimed(t)' /\ Ignored(t)' /\ Fresh(t)'
  <2>1. Entries(t)'
    BY EntriesKept DEF HistoryInv, Ledger
  <2>2. Aimed(t)'
    BY <1>1 DEF Aimed
  <2>3. Ignored(t)'
    BY <1>1 DEF HistoryInv, Ledger, Ignored, TypeInv, TypeOK
  <2>4. Fresh(t)'
    <3>1. ASSUME NEW i \in DOMAIN held[t], Alive(held[t][i].id)
          PROVE  held[t][i].id[1] \in nodes' /\ held[t][i].id[2] = gen'[held[t][i].id[1]]
      BY <3>1, AliveKept DEF HistoryInv, TypeInv
    <3> QED BY <1>1, <3>1 DEF HistoryInv, Ledger, Fresh, Alive
  <2> QED BY <2>1, <2>2, <2>3, <2>4
<1>4. \A u \in Thread, k \in Lock : Slack(u, k)' = Slack(u, k)
  <2> SUFFICES ASSUME NEW u \in Thread, NEW k \in Lock PROVE Slack(u, k)' = Slack(u, k)
    OBVIOUS
  <2>1. Late(u, k)' = Late(u, k)
    BY <1>1 DEF Late
  <2> QED BY <2>1, SlackKept
<1> QED BY <1>2, <1>3, <1>4 DEF Ledger

LEMMA BeforeLockLedger ==
  ASSUME HistoryInv, TypeInv', NEW t \in Thread, NEW l \in Lock, LockCall(t, l)
  PROVE  Ledger' /\ \A u \in Thread, k \in Lock : Slack(u, k)' = Slack(u, k)
<1>0. TypeOK /\ ignoreLock[t] \in Nat /\ ignoreUnlock[t] \in Nat
  BY IgnoreTypes DEF HistoryInv, TypeInv
<1>1. CASE BeforeLockIgnored(t, l)
  <2>1. IdsKept
    BY <1>0, <1>1, SameGraphKeepsIds DEF BeforeLockIgnored, graph
  <2>2. /\ \A u \in Thread : u # t => ignoreLock'[u] = ignoreLock[u]
        /\ ignoreLock[t] > 0
    BY <1>0, <1>1 DEF BeforeLockIgnored, TypeOK
  <2> QED BY <1>0, <1>1, <2>1, <2>2, BeforeCall DEF BeforeLockIgnored
<1>2. CASE BeforeLockFull(t, l)
  <2>1. IdsKept
    BY <1>0, <1>2, SameGraphKeepsIds DEF BeforeLockFull, graph
  <2> QED BY <1>0, <1>2, <2>1, BeforeCall DEF BeforeLockFull
<1>3. CASE BeforeLock(t, l)
  <2>1. IdsKept /\ l \in nodes' /\ GetGraphId(l) = <<l, gen'[l]>>
    BY <1>0, <1>3, AllocateKeepsIds DEF BeforeLock, GetIdAndTrace
  <2>2. ignoreUnlock[t] = 0
    BY <1>0, <1>3 DEF BeforeLock, MayEnter
  <2> QED BY <1>0, <1>3, <2>1, <2>2, BeforeCall DEF BeforeLock
<1> QED BY <1>1, <1>2, <1>3 DEF LockCall

LEMMA BeforeTryLockLedger ==
  ASSUME HistoryInv, TypeInv', IgnoresWell, NEW t \in Thread, NEW l \in Lock, BeforeTryLock(t, l)
  PROVE  Ledger' /\ \A u \in Thread, k \in Lock : Slack(u, k)' = Slack(u, k)
<1>0. TypeOK
  BY DEF HistoryInv, TypeInv
<1>1. ignoreLock[t] = 0 /\ ignoreUnlock[t] = 0
  BY DEF BeforeTryLock, IgnoresWell, HistoryInv, Ledger, Ignored
<1>2. IdsKept /\ l \in nodes' /\ GetGraphId(l) = <<l, gen'[l]>>
  BY <1>0, AllocateKeepsIds DEF BeforeTryLock, GetId
<1>3. /\ \A u \in Thread : u # t => ignoreLock'[u] = ignoreLock[u]
      /\ ignoreLock'[t] = 0
  BY <1>0, <1>1 DEF BeforeTryLock, TypeOK
<1> QED BY <1>1, <1>2, <1>3, BeforeCall DEF BeforeTryLock

\* A lock is taken: the thread holds it once more, the others hold what they held.
LEMMA Grabbed ==
  ASSUME TypeInv, NEW t \in Thread, NEW l, l = target[t].mu,
         pc[t] \in {"wait", "try", "cnd_wait"}, Free(t, target[t].mu), Grab(t, target[t].mu)
  PROVE  /\ l \in Lock /\ owner'[l] = t /\ Holds(t, l)' = Holds(t, l) + 1
         /\ \A u \in Thread, k \in Lock : u # t \/ k # l =>
              /\ owner'[k] = u <=> owner[k] = u
              /\ owner[k] = u => depth'[k] = depth[k]
<1>1. l \in Lock /\ (owner[l] = t \/ owner[l] = NoThread)
  BY DEF TypeInv, Wrappers, Free
<1>2. /\ owner' = [owner EXCEPT ![l] = t] /\ depth' = [depth EXCEPT ![l] = depth[l] + 1]
      /\ owner \in [Lock -> Thread \cup {NoThread}] /\ depth \in [Lock -> 0 .. MaxDepth]
      /\ owner[l] = NoThread <=> depth[l] = 0
  BY <1>1 DEF Grab, TypeInv, TypeOK, Wrappers
<1>3. owner'[l] = t /\ Holds(t, l)' = Holds(t, l) + 1
  BY <1>1, <1>2 DEF Holds
<1>4. \A u \in Thread, k \in Lock : u # t \/ k # l =>
        (owner'[k] = u <=> owner[k] = u) /\ (owner[k] = u => depth'[k] = depth[k])
  BY <1>1, <1>2
<1> QED BY <1>1, <1>3, <1>4

\* What the threads other than t keep in a step in which only t moves.
Alone(t) == \A u \in Thread : u # t =>
  /\ Untouched(u)
  /\ pc[u] = "unlock" /\ owner[target[u].mu] = u => owner'[target[u].mu] = u

LEMMA AloneKeepsOthers ==
  ASSUME TypeInv, TypeInv', IdsKept, Ledger, NEW t \in Thread, Alone(t),
         Entries(t)', Aimed(t)', Ignored(t)', Fresh(t)'
  PROVE  Ledger'
BY OthersKept DEF Ledger, Alone

LEMMA GrabIsAlone ==
  ASSUME TypeInv, NEW t \in Thread, pc[t] \in {"wait", "try", "cnd_wait"},
         Free(t, target[t].mu), Grab(t, target[t].mu),
         \A u \in Thread : u # t => Untouched(u)
  PROVE  Alone(t)
BY Grabbed DEF Alone, TypeInv, Wrappers

LEMMA LockLedger ==
  ASSUME HistoryInv, TypeInv', NEW t \in Thread,
         Enter(t) \/ TryEnter(t) \/ TryEnterFails(t) \/ CndWake(t)
  PROVE  /\ Ledger'
         /\ \A u \in Thread, k \in Lock :
              \/ Slack(u, k)' = Slack(u, k)
              \/ /\ Enter(t) /\ target[t].id = InvalidId
                 /\ Slack(u, k)' = Slack(u, k) + 1
<1>0. TypeInv /\ TypeOK /\ Ledger
  BY DEF HistoryInv, TypeInv
<1>1. /\ held' = held /\ ignoreLock' = ignoreLock /\ ignoreUnlock' = ignoreUnlock
      /\ nodes' = nodes /\ gen' = gen
  BY DEF Enter, TryEnter, TryEnterFails, CndWake, own, graph
<1>2. IdsKept /\ Entries(t)'
  BY <1>0, <1>1, SameGraphKeepsIds, EntriesKept DEF Ledger
<1>3. /\ \/ pc'[t] = "run"
         \/ /\ pc'[t] = "got" /\ pc[t] \in {"wait", "try"}
            /\ target'[t] = target[t] /\ target[t].id # InvalidId
      /\ \A u \in Thread : u # t => pc'[u] = pc[u] /\ target'[u] = target[u]
  <2>1. DOMAIN pc = Thread /\ DOMAIN target = Thread
    BY <1>0 DEF TypeOK
  <2>2. CASE Return(t)
    BY <2>1, <2>2 DEF Return
  <2>3. CASE /\ pc' = [pc EXCEPT ![t] = "got"] /\ UNCHANGED target /\ target[t].id # InvalidId
             /\ pc[t] \in {"wait", "try"}
    BY <2>1, <2>3
  <2>4. TryEnter(t) => target[t].id # InvalidId
    BY <1>0 DEF TryEnter, TypeInv, Wrappers, Id, InvalidId
  <2> QED BY <2>2, <2>3, <2>4 DEF Enter, TryEnter, TryEnterFails, CndWake
<1>4. \A u \in Thread : u # t => Untouched(u)
  BY <1>1, <1>3 DEF Untouched
<1>5. Alone(t)
  BY <1>0, <1>4, GrabIsAlone DEF Enter, TryEnter, TryEnterFails, CndWake, Alone
<1>6. Aimed(t)'
  BY <1>0, <1>1, <1>3 DEF Aimed, Ledger
<1>7. Ignored(t)'
  BY <1>0, <1>1, <1>3 DEF Ignored, Ledger
<1>8. Fresh(t)'
  BY <1>0, <1>1, <1>3 DEF Fresh, Ledger, Alive
<1>9. Ledger'
  BY <1>0, <1>2, <1>5, <1>6, <1>7, <1>8, AloneKeepsOthers
<1>l. PICK l : l = target[t].mu
  OBVIOUS
<1>10. ASSUME NEW u \in Thread, NEW k \in Lock, u # t \/ k # l, ~TryEnterFails(t)
       PROVE  Slack(u, k)' = Slack(u, k)
  <2>1. (owner'[k] = u <=> owner[k] = u) /\ (owner[k] = u => depth'[k] = depth[k])
    BY <1>0, <1>l, <1>10, Grabbed DEF Enter, TryEnter, CndWake
  <2>2. Late(u, k)' = Late(u, k)
    <3>1. CASE u # t
      BY <1>3, <2>1, <3>1 DEF Late
    <3>2. CASE u = t
      <4>1. k # target[t].mu
        BY <1>l, <1>10, <3>2
      <4>2. pc'[t] = "run" \/ target'[t] = target[t]
        BY <1>3
      <4> QED BY <1>3, <3>2, <4>1, <4>2 DEF Late
    <3> QED BY <3>1, <3>2
  <2> QED BY <1>1, <1>2, <2>1, <2>2, SlackKept
<1>11. ASSUME ~TryEnterFails(t)
       PROVE  \/ Slack(t, l)' = Slack(t, l)
              \/ Enter(t) /\ target[t].id = InvalidId /\ Slack(t, l)' = Slack(t, l) + 1
  <2>1. l \in Lock /\ Holds(t, l)' = Holds(t, l) + 1 /\ owner'[l] = t
    BY <1>0, <1>l, <1>11, Grabbed DEF Enter, TryEnter, CndWake
  <2>2. RecordedNow(t, l)' = RecordedNow(t, l)
    BY <1>1, <1>2, <2>1 DEF RecordedNow, IdsKept
  <2>3. \/ Late(t, l)' = Late(t, l) + 1
        \/ Enter(t) /\ target[t].id = InvalidId /\ Late(t, l)' = Late(t, l)
    <3>1. CASE Enter(t) /\ target[t].id = InvalidId
      <4>1. Late(t, l) = 0 /\ Late(t, l)' = 0
        BY <1>0, <1>3, <3>1 DEF Enter, Return, Idle, Late, TypeOK
      <4> QED BY <3>1, <4>1
    <3>2. CASE pc'[t] = "got"
      <4>1. pc[t] \in {"wait", "try"} /\ target'[t].mu = l
        BY <1>l, <1>3, <3>2
      <4>2. Late(t, l) = 0
        BY <4>1 DEF Late
      <4>3. Late(t, l)' = 1
        BY <3>2, <4>1 DEF Late
      <4> QED BY <4>2, <4>3
    <3>3. CASE CndWake(t)
      <4>1. Late(t, l) = -1 /\ Late(t, l)' = 0
        BY <1>0, <1>l, <2>1, <3>3 DEF CndWake, Return, Idle, Late, TypeOK
      <4> QED BY <4>1
    <3>4. TryEnter(t) \/ (Enter(t) /\ target[t].id # InvalidId) => pc'[t] = "got"
      BY <1>0 DEF Enter, TryEnter, TypeOK
    <3> QED BY <1>11, <3>1, <3>2, <3>3, <3>4
  <2>4. RecordedNow(t, l) \in Nat /\ Late(t, l) \in {-1, 0, 1} /\ Holds(t, l) \in Nat
    BY <1>0, <2>1, SlackType
  <2> QED BY <2>1, <2>2, <2>3, <2>4 DEF Slack
<1>12. ASSUME TryEnterFails(t), NEW u \in Thread, NEW k \in Lock PROVE Slack(u, k)' = Slack(u, k)
  <2>1. Late(u, k)' = Late(u, k)
    BY <1>0, <1>12 DEF TryEnterFails, Return, Idle, Late, TypeOK
  <2> QED BY <1>1, <1>2, <1>12, <2>1, SlackKept DEF TryEnterFails
<1>13. ASSUME NEW u \in Thread, NEW k \in Lock
       PROVE  \/ Slack(u, k)' = Slack(u, k)
              \/ Enter(t) /\ target[t].id = InvalidId /\ Slack(u, k)' = Slack(u, k) + 1
  <2>1. CASE u = t /\ k = l /\ ~TryEnterFails(t)
    BY <1>11, <2>1
  <2> QED BY <1>10, <1>12, <2>1
<1> QED BY <1>9, <1>13

\* The lock is recorded, unless the history has no room for it.
LEMMA InLockLedger ==
  ASSUME HistoryInv, TypeInv', NEW t \in Thread, InLock(t)
  PROVE  /\ Ledger'
         /\ \A u \in Thread, k \in Lock :
              \/ Slack(u, k)' = Slack(u, k)
              \/ /\ Len(held[t]) = MaxLocks /\ WithId(held[t], target[t].id) = {}
                 /\ Slack(u, k)' = Slack(u, k) + 1
<1>0. TypeInv /\ TypeOK /\ Ledger /\ pc[t] = "got" /\ held \in [Thread -> Seq(EntryType)]
  BY HeldType DEF HistoryInv, TypeInv, InLock
<1>l. PICK l : l = target[t].mu
  OBVIOUS
<1>1. /\ l \in Lock /\ target[t].id \in Id /\ Len(held[t]) <= MaxLocks
      /\ l \in nodes /\ target[t].id = <<l, gen[l]>> /\ GetGraphId(l) = <<l, gen[l]>>
  BY <1>0, <1>l DEF TypeInv, Wrappers, Ledger, Aimed, Id, InvalidId, GetGraphId
<1>2. PICK id : id = <<l, gen[l]>>
  OBVIOUS
<1>h. PICK h : h = held[t]
  OBVIOUS
<1>g. PICK g : g = Record(h, l, id, MaxLocks)
  OBVIOUS
<1>3. h \in Seq(EntryType) /\ Distinct(h) /\ held' = [held EXCEPT ![t] = g] /\ held'[t] = g
  BY <1>0, <1>l, <1>1, <1>2, <1>h, <1>g DEF InLock, Ledger, Entries
<1>4. /\ Distinct(g) /\ SameEntries(g, h, l, id)
      /\ \A x : x # id => Count(g, x) = Count(h, x)
      /\ \/ Count(g, id) = Count(h, id) + 1
         \/ Len(h) = MaxLocks /\ WithId(h, id) = {} /\ g = h
  BY <1>1, <1>2, <1>h, <1>g, <1>3, RecordCounts
<1>5. /\ pc'[t] = "run" /\ ignoreLock' = ignoreLock /\ ignoreUnlock' = ignoreUnlock
      /\ nodes' = nodes /\ gen' = gen /\ owner' = owner /\ depth' = depth
      /\ \A u \in Thread : u # t => pc'[u] = pc[u] /\ target'[u] = target[u] /\ held'[u] = held[u]
  BY <1>0, <1>3 DEF InLock, Return, TypeOK, graph
<1>6. IdsKept
  BY <1>0, <1>5, SameGraphKeepsIds
<1>7. Alone(t)
  BY <1>5 DEF Alone, Untouched
<1>8. \A i \in DOMAIN g : \/ g[i].mu = l /\ g[i].id = id
                         \/ \E j \in DOMAIN h : g[i].mu = h[j].mu /\ g[i].id = h[j].id
  BY <1>4 DEF SameEntries
<1>9. Entries(t)'
  <2>1. gen[l] \in Nat /\ id[1] = l /\ id[2] = gen[l]
    BY <1>0, <1>1, <1>2 DEF TypeOK, Gen
  <2>2. \A j \in DOMAIN h : h[j].id[1] = h[j].mu /\ h[j].id[2] <= gen[h[j].mu]
    BY <1>0, <1>h DEF Ledger, Entries
  <2>3. \A i \in DOMAIN g : g[i].id[1] = g[i].mu /\ g[i].id[2] <= gen[g[i].mu]
    BY <1>8, <2>1, <2>2
  <2> QED BY <1>3, <1>4, <1>5, <2>3 DEF Entries
<1>10. Aimed(t)' /\ Ignored(t)'
  BY <1>0, <1>5 DEF Aimed, Ignored, Ledger
<1>11. Fresh(t)'
  <2>1. ASSUME "misuse" \notin Ops, NEW i \in DOMAIN g PROVE g[i].id[1] \in nodes /\ g[i].id[2] = gen[g[i].id[1]]
    <3>1. \A j \in DOMAIN h : h[j].id[1] \in nodes /\ h[j].id[2] = gen[h[j].id[1]]
      BY <1>0, <1>h, <2>1 DEF Ledger, Fresh, Alive
    <3>2. id[1] \in nodes /\ id[2] = gen[id[1]]
      BY <1>1, <1>2
    <3> QED BY <1>8, <3>1, <3>2
  <2> QED BY <1>3, <1>5, <2>1 DEF Fresh, Alive
<1>12. Ledger'
  BY <1>0, <1>6, <1>7, <1>9, <1>10, <1>11, AloneKeepsOthers
<1>13. ASSUME NEW u \in Thread, NEW k \in Lock, u # t PROVE Slack(u, k)' = Slack(u, k)
  <2>1. Late(u, k)' = Late(u, k)
    BY <1>5, <1>13 DEF Late
  <2> QED BY <1>5, <1>6, <1>13, <2>1, SlackKept
<1>14. ASSUME NEW k \in Lock, k # l PROVE Slack(t, k)' = Slack(t, k)
  <2>1. Late(t, k) = 0 /\ Late(t, k)' = 0
    BY <1>l, <1>5, <1>14 DEF Late
  <2>2. GetGraphId(k) # id /\ GetGraphId(k)' = GetGraphId(k)
    BY <1>1, <1>2, <1>6, <1>14, IdsDiffer DEF IdsKept
  <2>3. RecordedNow(t, k)' = RecordedNow(t, k)
    BY <1>3, <1>4, <1>h, <2>2 DEF RecordedNow
  <2> QED BY <1>5, <2>1, <2>3 DEF Slack, Holds
<1>15. \/ Slack(t, l)' = Slack(t, l)
       \/ /\ Len(held[t]) = MaxLocks /\ WithId(held[t], target[t].id) = {}
          /\ Slack(t, l)' = Slack(t, l) + 1
  <2>1. Late(t, l) = 1
    BY <1>0, <1>l DEF Late
  <2>2. Late(t, l)' = 0
    BY <1>5 DEF Late
  <2>3. GetGraphId(l)' = id /\ GetGraphId(l) = id
    BY <1>1, <1>2, <1>6 DEF IdsKept
  <2>4. RecordedNow(t, l)' = Count(g, id) /\ RecordedNow(t, l) = Count(h, id)
    BY <1>3, <1>h, <2>3 DEF RecordedNow
  <2>5. Holds(t, l)' = Holds(t, l)
    BY <1>5 DEF Holds
  <2>6. RecordedNow(t, l) \in Nat /\ Holds(t, l) \in Nat
    BY <1>0, <1>1, SlackType
  <2>7. CASE Count(g, id) = Count(h, id) + 1
    BY <2>1, <2>2, <2>4, <2>5, <2>6, <2>7 DEF Slack
  <2>8. CASE Len(h) = MaxLocks /\ WithId(h, id) = {} /\ g = h
    BY <1>1, <1>2, <1>h, <2>1, <2>2, <2>4, <2>5, <2>6, <2>8 DEF Slack
  <2> QED BY <1>4, <2>7, <2>8
<1> QED BY <1>12, <1>13, <1>14, <1>15

\* Where a release goes after the monitor's call.
LEMMA AtUnlock ==
  ASSUME TypeInv, NEW t \in Thread, NEW l \in Lock, pc[t] = "run", Goto(t, "unlock", l, InvalidId),
         owner' = owner, depth' = depth
  PROVE  /\ pc'[t] = "unlock" /\ target'[t].mu = l
         /\ \A u \in Thread : u # t => pc'[u] = pc[u] /\ target'[u] = target[u]
         /\ \A u \in Thread, k \in Lock :
              /\ Holds(u, k)' = Holds(u, k)
              /\ u # t \/ k # l => Late(u, k)' = Late(u, k)
         /\ Late(t, l) = 0 /\ Late(t, l)' = IF owner[l] = t THEN 1 ELSE 0
<1>1. /\ pc'[t] = "unlock" /\ target'[t].mu = l
      /\ \A u \in Thread : u # t => pc'[u] = pc[u] /\ target'[u] = target[u]
  BY DEF Goto, TypeInv, TypeOK
<1>2. \A u \in Thread, k \in Lock : Holds(u, k)' = Holds(u, k)
  BY DEF Holds
<1>3. ASSUME NEW u \in Thread, NEW k \in Lock, u # t \/ k # l PROVE Late(u, k)' = Late(u, k)
  <2>1. CASE u # t
    BY <1>1, <2>1 DEF Late
  <2>2. CASE u = t /\ k # l
    <3>1. Late(t, k) = 0
      BY DEF Late
    <3>2. Late(t, k)' = 0
      BY <1>1, <2>2 DEF Late
    <3> QED BY <2>2, <3>1, <3>2
  <2> QED BY <1>3, <2>1, <2>2
<1>4. Late(t, l) = 0
  BY DEF Late
<1>5. Late(t, l)' = IF owner[l] = t THEN 1 ELSE 0
  BY <1>1 DEF Late
<1> QED BY <1>1, <1>2, <1>3, <1>4, <1>5

LEMMA AfterLockIgnoredLedger ==
  ASSUME HistoryInv, TypeInv', IgnoresWell, NEW t \in Thread, NEW l \in Lock, AfterLockIgnored(t, l)
  PROVE  /\ Ledger' /\ "ignore" \in Ops
         /\ \A u \in Thread, k \in Lock :
              \/ Slack(u, k)' = Slack(u, k)
              \/ Slack(u, k) >= 1 /\ Slack(u, k)' = Slack(u, k) - 1
<1>0. TypeInv /\ TypeOK /\ Ledger /\ ignoreUnlock[t] \in Nat /\ pc[t] = "run"
  BY IgnoreTypes DEF HistoryInv, TypeInv, AfterLockIgnored
<1>1. "ignore" \in Ops /\ owner[l] = t /\ held[t] = <<>>
  BY <1>0 DEF AfterLockIgnored, Ledger, Ignored, IgnoresWell, MayLeave, Owned
<1>2. /\ nodes' = nodes /\ gen' = gen /\ held' = held /\ owner' = owner /\ depth' = depth
      /\ ignoreLock' = ignoreLock /\ ignoreUnlock' = [ignoreUnlock EXCEPT ![t] = ignoreUnlock[t] - 1]
  BY DEF AfterLockIgnored, graph
<1>3. IdsKept
  BY <1>0, <1>2, SameGraphKeepsIds
<1>4. /\ pc'[t] = "unlock" /\ target'[t].mu = l
      /\ \A u \in Thread : u # t => pc'[u] = pc[u] /\ target'[u] = target[u]
      /\ \A u \in Thread, k \in Lock :
           /\ Holds(u, k)' = Holds(u, k)
           /\ u # t \/ k # l => Late(u, k)' = Late(u, k)
      /\ Late(t, l) = 0 /\ Late(t, l)' = 1
  BY <1>0, <1>1, <1>2, AtUnlock DEF AfterLockIgnored
<1>5. \A u \in Thread : u # t => ignoreUnlock'[u] = ignoreUnlock[u]
  BY <1>0, <1>2 DEF TypeOK
<1>6. Alone(t)
  BY <1>2, <1>4, <1>5 DEF Alone, Untouched
<1>7. Entries(t)' /\ Aimed(t)'
  BY <1>0, <1>2, <1>3, <1>4, EntriesKept DEF Aimed, Ledger
<1>8. Ignored(t)'
  BY <1>0, <1>1, <1>2, <1>4 DEF Ignored
<1>9. Fresh(t)'
  BY <1>0, <1>1, <1>2, <1>4 DEF Fresh, Ledger, Alive
<1>10. Ledger'
  BY <1>0, <1>3, <1>6, <1>7, <1>8, <1>9, AloneKeepsOthers
<1>11. ASSUME NEW u \in Thread, NEW k \in Lock PROVE RecordedNow(u, k)' = RecordedNow(u, k)
  BY <1>2, <1>3 DEF RecordedNow, IdsKept
<1>12. RecordedNow(t, l) = 0 /\ Holds(t, l) \in Nat /\ Holds(t, l) >= 1
  <2>1. <<>> \in Seq(EntryType) /\ WithId(<<>>, GetGraphId(l)) = {}
    BY DEF WithId
  <2> QED BY <1>0, <1>1, <2>1, CountType, SlackType DEF RecordedNow
<1>13. Slack(t, l) >= 1 /\ Slack(t, l)' = Slack(t, l) - 1
  BY <1>4, <1>11, <1>12 DEF Slack
<1>14. ASSUME NEW u \in Thread, NEW k \in Lock, u # t \/ k # l PROVE Slack(u, k)' = Slack(u, k)
  BY <1>4, <1>11, <1>14 DEF Slack
<1> QED BY <1>1, <1>10, <1>13, <1>14

\* A release takes away what is recorded; what is not recorded was an error of
\* the thread, or was not monitored.
LEMMA AfterLockLedger ==
  ASSUME HistoryInv, TypeInv', NEW t \in Thread, NEW l \in Lock, AfterLock(t, l)
  PROVE  /\ Ledger'
         /\ \A u \in Thread, k \in Lock :
              \/ Slack(u, k)' = Slack(u, k)
              \/ /\ ~ReleaseOK(held[t], GetGraphId(l))
                 /\ Slack(u, k) >= 1 /\ Slack(u, k)' = Slack(u, k) - 1
         /\ ReleaseOK(held[t], GetGraphId(l)) => owner[l] = t
         /\ ReleaseOK(held[t], GetGraphId(l)) \/ Slack(t, l) = Holds(t, l)
<1>0. /\ TypeInv /\ TypeOK /\ Ledger /\ pc[t] = "run" /\ ignoreUnlock[t] = 0
      /\ held \in [Thread -> Seq(EntryType)]
  BY HeldType DEF HistoryInv, TypeInv, AfterLock
<1>h. PICK h : h = held[t]
  OBVIOUS
<1>i. PICK id : id = GetGraphId(l)
  OBVIOUS
<1>g. PICK g : g = Release(h, id)
  OBVIOUS
<1>1. /\ held' = [held EXCEPT ![t] = g] /\ held'[t] = g /\ h \in Seq(EntryType) /\ Distinct(h)
      /\ \A u \in Thread : u # t => held'[u] = held[u]
  BY <1>0, <1>h, <1>i, <1>g DEF AfterLock, Ledger, Entries
<1>2. /\ Distinct(g)
      /\ \A i \in DOMAIN g : \E j \in DOMAIN h : g[i].mu = h[j].mu /\ g[i].id = h[j].id
      /\ \A x : x # id => Count(g, x) = Count(h, x)
      /\ Count(g, id) = IF Count(h, id) = 0 THEN 0 ELSE Count(h, id) - 1
  BY <1>g, <1>1, ReleaseCounts
<1>3. IdsKept /\ nodes' = nodes \cup {l}
  BY <1>0, AllocateKeepsIds DEF AfterLock, GetId, Allocate
<1>4. /\ owner' = owner /\ depth' = depth /\ ignoreLock' = ignoreLock /\ ignoreUnlock' = ignoreUnlock
  BY DEF AfterLock
<1>5. /\ pc'[t] = "unlock" /\ target'[t].mu = l
      /\ \A u \in Thread : u # t => pc'[u] = pc[u] /\ target'[u] = target[u]
      /\ \A u \in Thread, k \in Lock :
           /\ Holds(u, k)' = Holds(u, k)
           /\ u # t \/ k # l => Late(u, k)' = Late(u, k)
      /\ Late(t, l) = 0 /\ Late(t, l)' = IF owner[l] = t THEN 1 ELSE 0
  BY <1>0, <1>4, AtUnlock DEF AfterLock
<1>6. Alone(t)
  BY <1>1, <1>4, <1>5 DEF Alone, Untouched
<1>7. Entries(t)'
  <2>1. \A j \in DOMAIN h : /\ h[j].id[1] = h[j].mu /\ h[j].id[2] <= gen[h[j].mu]
                           /\ h[j].mu \in Lock /\ h[j].id[2] \in Nat
    <3>1. \A j \in DOMAIN h : h[j] \in EntryType
      BY <1>1
    <3> QED BY <1>0, <1>h, <3>1 DEF Ledger, Entries, EntryType, Id, Gen
  <2>2. \A k \in Lock : gen[k] \in Nat /\ gen'[k] \in Nat /\ gen[k] <= gen'[k]
    BY <1>0, <1>3, GenerationsGrow
  <2>3. \A j \in DOMAIN h : h[j].id[1] = h[j].mu /\ h[j].id[2] <= gen'[h[j].mu]
    BY <2>1, <2>2
  <2>4. \A i \in DOMAIN g : g[i].id[1] = g[i].mu /\ g[i].id[2] <= gen'[g[i].mu]
    BY <1>2, <2>3
  <2> QED BY <1>1, <1>2, <2>4 DEF Entries
<1>8. Aimed(t)' /\ Ignored(t)'
  BY <1>0, <1>4, <1>5 DEF Aimed, Ignored, Ledger
<1>9. Fresh(t)'
  <2> SUFFICES ASSUME "misuse" \notin Ops PROVE Fresh(t)'
    BY DEF Fresh
  <2>1. owner[l] = t
    BY DEF AfterLock, MayLeave, Owned
  <2>2. \A j \in DOMAIN h : h[j].id[1] \in nodes' /\ h[j].id[2] = gen'[h[j].id[1]]
    BY <1>0, <1>3, <1>h, AliveKept DEF Ledger, Fresh
  <2>3. \A i \in DOMAIN g : g[i].id[1] \in nodes' /\ g[i].id[2] = gen'[g[i].id[1]]
    BY <1>2, <2>2
  <2> QED BY <1>1, <1>4, <1>5, <2>1, <2>3 DEF Fresh, Alive
<1>10. Ledger'
  BY <1>0, <1>3, <1>6, <1>7, <1>8, <1>9, AloneKeepsOthers
<1>11. ASSUME NEW u \in Thread, NEW k \in Lock, u # t \/ k # l PROVE Slack(u, k)' = Slack(u, k)
  <2>1. GetGraphId(k)' = GetGraphId(k) /\ (k # l => GetGraphId(k) # id)
    BY <1>3, <1>i, IdsDiffer DEF IdsKept
  <2>2. RecordedNow(u, k)' = RecordedNow(u, k)
    <3>1. CASE u # t
      BY <1>1, <2>1, <3>1 DEF RecordedNow
    <3>2. CASE u = t /\ k # l
      BY <1>1, <1>2, <1>h, <2>1, <3>2 DEF RecordedNow
    <3> QED BY <1>11, <3>1, <3>2
  <2> QED BY <1>5, <1>11, <2>2 DEF Slack
<1>12. GetGraphId(l)' = id /\ RecordedNow(t, l)' = Count(g, id) /\ RecordedNow(t, l) = Count(h, id)
  BY <1>1, <1>3, <1>h, <1>i DEF RecordedNow, IdsKept
<1>13. /\ RecordedNow(t, l) \in Nat /\ Holds(t, l) \in Nat /\ (owner[l] = t => Holds(t, l) >= 1)
       /\ (owner[l] # t => Holds(t, l) = 0)
       /\ Slack(t, l) = Holds(t, l) - RecordedNow(t, l) /\ Slack(t, l) >= 0
  BY <1>0, <1>5, SlackType DEF Slack, HistoryInv, NeverAhead, Holds
<1>14. ReleaseOK(held[t], GetGraphId(l)) <=> RecordedNow(t, l) # 0
  BY <1>1, <1>h, <1>i, <1>12, CountType DEF ReleaseOK
<1>15. Slack(t, l)' = Holds(t, l) - Count(g, id) - Late(t, l)'
  BY <1>5, <1>12 DEF Slack
<1>16. RecordedNow(t, l) # 0 => owner[l] = t
  BY <1>13
<1>17. CASE owner[l] # t
  <2>1. Count(g, id) = RecordedNow(t, l) /\ Late(t, l)' = 0
    BY <1>2, <1>5, <1>12, <1>16, <1>17
  <2>2. Slack(t, l)' = Slack(t, l)
    BY <1>13, <1>15, <2>1
  <2> QED BY <1>10, <1>11, <1>13, <1>14, <1>16, <2>2
<1>18. CASE owner[l] = t /\ RecordedNow(t, l) # 0
  <2>1. Count(g, id) = RecordedNow(t, l) - 1 /\ Late(t, l)' = 1
    BY <1>2, <1>5, <1>12, <1>18
  <2>2. Slack(t, l)' = Slack(t, l)
    BY <1>13, <1>15, <2>1
  <2> QED BY <1>10, <1>11, <1>14, <1>16, <1>18, <2>2
<1>19. CASE owner[l] = t /\ RecordedNow(t, l) = 0
  <2>1. Count(g, id) = 0 /\ Late(t, l)' = 1
    BY <1>2, <1>5, <1>12, <1>19
  <2>2. Slack(t, l) = Holds(t, l) /\ Slack(t, l) >= 1 /\ Slack(t, l)' = Slack(t, l) - 1
    BY <1>13, <1>15, <1>19, <2>1
  <2> QED BY <1>10, <1>11, <1>14, <1>19, <2>2
<1> QED BY <1>17, <1>18, <1>19

\* LeaveCriticalSection gives back what the monitor has taken off the history.
LEMMA LeaveLedger ==
  ASSUME HistoryInv, TypeInv', NEW t \in Thread, Leave(t)
  PROVE  Ledger' /\ \A u \in Thread, k \in Lock : Slack(u, k)' = Slack(u, k)
<1>0. TypeInv /\ TypeOK /\ Ledger /\ pc[t] = "unlock"
  BY DEF HistoryInv, TypeInv, Leave
<1>l. PICK l : l = target[t].mu
  OBVIOUS
<1>1. /\ held' = held /\ nodes' = nodes /\ gen' = gen
      /\ ignoreLock' = ignoreLock /\ ignoreUnlock' = ignoreUnlock
      /\ pc'[t] = "run" /\ target'[t].mu = NoLock
      /\ \A u \in Thread : u # t => pc'[u] = pc[u] /\ target'[u] = target[u]
  BY <1>0 DEF Leave, Return, Idle, own, graph, TypeOK
<1>2. /\ l \in Lock /\ owner \in [Lock -> Thread \cup {NoThread}] /\ depth \in [Lock -> 0 .. MaxDepth]
      /\ (owner[l] = NoThread <=> depth[l] = 0)
  BY <1>0, <1>l DEF TypeInv, TypeOK, Wrappers
<1>3. \/ owner[l] # t /\ owner' = owner /\ depth' = depth
      \/ /\ owner[l] = t /\ depth' = [depth EXCEPT ![l] = depth[l] - 1]
         /\ owner' = IF depth[l] = 1 THEN [owner EXCEPT ![l] = NoThread] ELSE owner
  BY <1>l DEF Leave
<1>4. \A u \in Thread, k \in Lock : u # t \/ k # l =>
        (owner'[k] = u <=> owner[k] = u) /\ (owner[k] = u => depth'[k] = depth[k])
  BY <1>2, <1>3
<1>5. IdsKept
  BY <1>0, <1>1, SameGraphKeepsIds
<1>6. Alone(t)
  BY <1>0, <1>1, <1>4 DEF Alone, Untouched, TypeInv, Wrappers
<1>7. Entries(t)' /\ Aimed(t)' /\ Ignored(t)' /\ Fresh(t)'
  BY <1>0, <1>1, <1>5, EntriesKept DEF Aimed, Ignored, Fresh, Ledger, Alive
<1>8. Ledger'
  BY <1>0, <1>5, <1>6, <1>7, AloneKeepsOthers
<1>9. ASSUME NEW u \in Thread, NEW k \in Lock, u # t \/ k # l PROVE Slack(u, k)' = Slack(u, k)
  <2>1. Late(u, k)' = Late(u, k)
    <3>1. CASE u # t
      BY <1>1, <1>4, <3>1 DEF Late
    <3>2. CASE u = t /\ k # l
      <4>1. Late(t, k) = 0
        BY <1>l, <3>2 DEF Late
      <4>2. Late(t, k)' = 0
        BY <1>1 DEF Late
      <4> QED BY <3>2, <4>1, <4>2
    <3> QED BY <1>9, <3>1, <3>2
  <2> QED BY <1>1, <1>4, <1>5, <1>9, <2>1, SlackKept
<1>10. Slack(t, l)' = Slack(t, l)
  <2>1. RecordedNow(t, l)' = RecordedNow(t, l) /\ RecordedNow(t, l) \in Nat
    BY <1>0, <1>1, <1>2, <1>5, SlackType DEF RecordedNow, IdsKept
  <2>2. Late(t, l)' = 0
    BY <1>1, <1>2 DEF Late
  <2>3. CASE owner[l] # t
    <3>1. Late(t, l) = 0
      BY <1>0, <2>3 DEF Late
    <3>2. Holds(t, l)' = Holds(t, l)
      BY <1>3, <2>3 DEF Holds
    <3> QED BY <2>1, <2>2, <3>1, <3>2 DEF Slack
  <2>4. CASE owner[l] = t
    <3>1. Late(t, l) = 1
      BY <1>0, <1>l, <2>4 DEF Late
    <3>2. Holds(t, l)' = Holds(t, l) - 1 /\ Holds(t, l) \in Nat
      BY <1>2, <1>3, <2>4 DEF Holds
    <3> QED BY <2>1, <2>2, <3>1, <3>2 DEF Slack
  <2> QED BY <2>3, <2>4
<1> QED BY <1>8, <1>9, <1>10

\* cppguard_cnd_wait releases the lock without telling the history.
LEMMA CndWaitLedger ==
  ASSUME HistoryInv, TypeInv', NEW t \in Thread, NEW l \in Lock, CndWait(t, l)
  PROVE  Ledger' /\ \A u \in Thread, k \in Lock : Slack(u, k)' = Slack(u, k)
<1>0. TypeInv /\ TypeOK /\ Ledger /\ pc[t] = "run" /\ owner[l] = t /\ depth[l] = 1
  BY DEF HistoryInv, TypeInv, CndWait, Owned
<1>1. /\ held' = held /\ nodes' = nodes /\ gen' = gen
      /\ ignoreLock' = ignoreLock /\ ignoreUnlock' = ignoreUnlock
      /\ pc'[t] = "cnd_wait" /\ target'[t].mu = l
      /\ \A u \in Thread : u # t => pc'[u] = pc[u] /\ target'[u] = target[u]
  BY <1>0 DEF CndWait, Goto, graph, TypeOK
<1>2. /\ owner' = [owner EXCEPT ![l] = NoThread] /\ depth' = [depth EXCEPT ![l] = 0]
      /\ owner \in [Lock -> Thread \cup {NoThread}] /\ depth \in [Lock -> 0 .. MaxDepth]
  BY <1>0 DEF CndWait, TypeOK
<1>4. \A u \in Thread, k \in Lock : u # t \/ k # l =>
        (owner'[k] = u <=> owner[k] = u) /\ (owner[k] = u => depth'[k] = depth[k])
  BY <1>0, <1>2
<1>5. IdsKept
  BY <1>0, <1>1, SameGraphKeepsIds
<1>6. Alone(t)
  BY <1>0, <1>1, <1>4 DEF Alone, Untouched, TypeInv, Wrappers
<1>7. Entries(t)' /\ Aimed(t)' /\ Ignored(t)' /\ Fresh(t)'
  BY <1>0, <1>1, <1>5, EntriesKept DEF Aimed, Ignored, Fresh, Ledger, Alive
<1>8. Ledger'
  BY <1>0, <1>5, <1>6, <1>7, AloneKeepsOthers
<1>9. ASSUME NEW u \in Thread, NEW k \in Lock, u # t \/ k # l PROVE Slack(u, k)' = Slack(u, k)
  <2>1. Late(u, k)' = Late(u, k)
    <3>1. CASE u # t
      BY <1>1, <1>4, <3>1 DEF Late
    <3>2. CASE u = t /\ k # l
      <4>1. Late(t, k) = 0
        BY <1>0 DEF Late
      <4>2. Late(t, k)' = 0
        BY <1>1, <3>2 DEF Late
      <4> QED BY <3>2, <4>1, <4>2
    <3> QED BY <1>9, <3>1, <3>2
  <2> QED BY <1>1, <1>4, <1>5, <1>9, <2>1, SlackKept
<1>10. Slack(t, l)' = Slack(t, l)
  <2>1. RecordedNow(t, l)' = RecordedNow(t, l) /\ RecordedNow(t, l) \in Nat
    BY <1>0, <1>1, <1>5, SlackType DEF RecordedNow, IdsKept
  <2>2. Late(t, l)' = -1
    BY <1>1 DEF Late
  <2>3. Late(t, l) = 0
    BY <1>0 DEF Late
  <2>4. Holds(t, l)' = 0 /\ Holds(t, l) = 1
    BY <1>0, <1>2 DEF Holds
  <2> QED BY <2>1, <2>2, <2>3, <2>4 DEF Slack
<1> QED BY <1>8, <1>9, <1>10

\* An entry whose id still names a node is what the history says of its lock now.
LEMMA AliveEntry ==
  ASSUME TypeInv, NEW t \in Thread, Entries(t), NEW i \in DOMAIN held[t], Alive(held[t][i].id)
  PROVE  /\ held[t][i].mu \in Lock /\ held[t][i].id = GetGraphId(held[t][i].mu)
         /\ RecordedNow(t, held[t][i].mu) = held[t][i].count /\ held[t][i].count \in Nat \ {0}
<1>h. PICK h : h = held[t]
  OBVIOUS
<1>1. h \in Seq(EntryType) /\ Distinct(h) /\ i \in DOMAIN h
  BY <1>h, HeldType DEF TypeInv, Entries
<1>2. h[i] \in EntryType
  BY <1>1
<1>3. /\ h[i].mu \in Lock /\ h[i].id \in Lock \X Gen /\ h[i].count \in Nat \ {0}
      /\ h[i].id[1] = h[i].mu /\ h[i].mu \in nodes /\ h[i].id[2] = gen[h[i].mu]
  BY <1>h, <1>2 DEF EntryType, Id, Entries, Alive
<1>4. h[i].id = GetGraphId(h[i].mu)
  BY <1>3 DEF GetGraphId
<1>5. Count(h, h[i].id) = h[i].count
  BY <1>1, CountOfEntry
<1> QED BY <1>h, <1>3, <1>4, <1>5 DEF RecordedNow

\* Without a lock there is no entry that could name it by its id.
LEMMA NoneOwnedNoneRecorded ==
  ASSUME HistoryInv, NEW t \in Thread, NEW l \in Lock, owner[l] # t, Late(t, l) = 0
  PROVE  RecordedNow(t, l) = 0
<1>1. RecordedNow(t, l) \in Nat /\ Holds(t, l) = 0 /\ Slack(t, l) >= 0
  BY SlackType DEF HistoryInv, NeverAhead, Holds
<1> QED BY <1>1 DEF Slack

\* A deleted lock is nowhere recorded under the id that its successor gets.
LEMMA DeleteLockLedger ==
  ASSUME HistoryInv, TypeInv', NEW t \in Thread, NEW l \in Lock, DeleteLock(t, l)
  PROVE  /\ Ledger'
         /\ \A u \in Thread, k \in Lock : Slack(u, k)' = Slack(u, k) \/ Slack(u, k)' = 0
<1>0. TypeInv /\ TypeOK /\ Ledger
  BY DEF HistoryInv, TypeInv
<1>1. /\ held' = held /\ nodes' = nodes \ {l} /\ gen' = gen /\ pc' = pc /\ target' = target
      /\ ignoreLock' = ignoreLock /\ ignoreUnlock' = ignoreUnlock
      /\ \A u \in Thread : target[u].mu # l
      /\ owner[l] = NoThread \/ "misuse" \in Ops
  BY DEF DeleteLock
<1>2. /\ owner' = [owner EXCEPT ![l] = NoThread] /\ depth' = [depth EXCEPT ![l] = 0]
      /\ owner \in [Lock -> Thread \cup {NoThread}] /\ depth \in [Lock -> 0 .. MaxDepth]
  BY <1>0 DEF DeleteLock, TypeOK
<1>3. ASSUME NEW u \in Thread PROVE Entries(u)' /\ Aimed(u)' /\ Ignored(u)' /\ Fresh(u)'
  <2>1. Entries(u)' /\ Ignored(u)'
    BY <1>0, <1>1 DEF Ledger, Entries, Ignored
  <2>2. Aimed(u)'
    BY <1>0, <1>1 DEF Ledger, Aimed
  <2>3. ASSUME "misuse" \notin Ops, NEW i \in DOMAIN held[u]
        PROVE  held[u][i].id[1] \in nodes \ {l} /\ held[u][i].id[2] = gen[held[u][i].id[1]]
    <3>1. Alive(held[u][i].id) /\ Entries(u)
      BY <1>0, <2>3 DEF Ledger, Fresh
    <3>2. /\ held[u][i].mu \in Lock /\ RecordedNow(u, held[u][i].mu) \in Nat \ {0}
          /\ held[u][i].id[1] = held[u][i].mu
      BY <1>0, <3>1, AliveEntry DEF Entries
    <3>3. owner[l] # u /\ Late(u, l) = 0
      BY <1>1, <2>3 DEF Late
    <3>4. RecordedNow(u, l) = 0
      BY <3>3, NoneOwnedNoneRecorded
    <3>5. held[u][i].mu # l
      BY <3>2, <3>4
    <3> QED BY <3>1, <3>2, <3>5 DEF Alive
  <2>4. pc[u] = "unlock" /\ owner[target[u].mu] = u => owner'[target[u].mu] = u
    BY <1>0, <1>1, <1>2 DEF TypeInv, Wrappers
  <2>5. Fresh(u)'
    BY <1>0, <1>1, <2>3, <2>4 DEF Ledger, Fresh, Alive
  <2> QED BY <2>1, <2>2, <2>5
<1>4. Ledger'
  BY <1>3 DEF Ledger
<1>5. ASSUME NEW u \in Thread, NEW k \in Lock, k # l PROVE Slack(u, k)' = Slack(u, k)
  <2>1. Late(u, k)' = Late(u, k) /\ Holds(u, k)' = Holds(u, k)
    BY <1>1, <1>2, <1>5 DEF Late, Holds
  <2>2. GetGraphId(k)' = GetGraphId(k)
    BY <1>1, <1>5 DEF GetGraphId
  <2> QED BY <1>1, <2>1, <2>2 DEF Slack, RecordedNow
<1>6. ASSUME NEW u \in Thread PROVE Slack(u, l)' = 0
  <2>1. Late(u, l)' = 0
    BY <1>1 DEF Late
  <2>2. Holds(u, l)' = 0
    BY <1>2 DEF Holds
  <2>3. GetGraphId(l)' = <<l, gen[l] + 1>> /\ gen[l] \in Nat
    BY <1>0, <1>1 DEF GetGraphId, TypeOK, Gen
  <2>4. \A i \in DOMAIN held[u] : held[u][i].id # <<l, gen[l] + 1>>
    <3> SUFFICES ASSUME NEW i \in DOMAIN held[u], held[u][i].id = <<l, gen[l] + 1>> PROVE FALSE
      OBVIOUS
    <3>1. held[u][i].id[1] = held[u][i].mu /\ held[u][i].id[2] <= gen[held[u][i].mu]
      BY <1>0 DEF Ledger, Entries
    <3>2. held[u][i].mu = l /\ gen[l] + 1 <= gen[l]
      BY <3>1
    <3> QED BY <2>3, <3>2
  <2>5. held[u] \in Seq(EntryType)
    BY <1>0, HeldType
  <2>6. RecordedNow(u, l)' = 0
    BY <1>1, <2>3, <2>4, <2>5, CountOfNone DEF RecordedNow
  <2> QED BY <2>1, <2>2, <2>6 DEF Slack
<1> QED BY <1>4, <1>5, <1>6

\* The counters of locks to ignore go up while the thread holds nothing.
LEMMA IncreaseLedger ==
  ASSUME HistoryInv, TypeInv', IgnoresWell, NEW t \in Thread, IncreaseIgnoreCounter(t)
  PROVE  Ledger' /\ \A u \in Thread, k \in Lock : Slack(u, k)' = Slack(u, k)
<1>0. TypeInv /\ TypeOK /\ Ledger
  BY DEF HistoryInv, TypeInv
<1>1. /\ held' = held /\ nodes' = nodes /\ gen' = gen /\ pc' = pc /\ target' = target
      /\ owner' = owner /\ depth' = depth
      /\ pc[t] = "run" /\ (\A l \in Lock : owner[l] # t) /\ "ignore" \in Ops
  BY DEF IncreaseIgnoreCounter, graph, program, Owned
<1>2. \A u \in Thread : u # t => ignoreLock'[u] = ignoreLock[u] /\ ignoreUnlock'[u] = ignoreUnlock[u]
  BY <1>0 DEF IncreaseIgnoreCounter, TypeOK
<1>3. held[t] = <<>>
  <2>1. ASSUME NEW i \in DOMAIN held[t] PROVE FALSE
    <3>1. Alive(held[t][i].id) /\ Entries(t)
      BY <1>0, <1>1 DEF Ledger, Fresh, IgnoresWell
    <3>2. PICK l \in Lock : RecordedNow(t, l) \in Nat \ {0}
      BY <1>0, <3>1, AliveEntry
    <3>3. Late(t, l) = 0
      BY <1>1 DEF Late
    <3> QED BY <1>1, <3>2, <3>3, NoneOwnedNoneRecorded
  <2>2. held[t] \in Seq(EntryType)
    BY <1>0, HeldType
  <2>3. Len(held[t]) \in Nat /\ DOMAIN held[t] = 1 .. Len(held[t])
    BY <2>2
  <2>4. Len(held[t]) # 0 => 1 \in 1 .. Len(held[t])
    BY <2>3
  <2> QED BY <2>1, <2>2, <2>3, <2>4, EmptySeq
<1>4. IdsKept
  BY <1>0, <1>1, SameGraphKeepsIds
<1>5. Alone(t)
  BY <1>1, <1>2 DEF Alone, Untouched
<1>6. Entries(t)' /\ Aimed(t)' /\ Fresh(t)'
  BY <1>0, <1>1 DEF Ledger, Entries, Aimed, Fresh, Alive
<1>7. Ignored(t)'
  BY <1>1, <1>3 DEF Ignored
<1>8. Ledger'
  BY <1>0, <1>4, <1>5, <1>6, <1>7, AloneKeepsOthers
<1>9. ASSUME NEW u \in Thread, NEW k \in Lock PROVE Slack(u, k)' = Slack(u, k)
  <2>1. Late(u, k)' = Late(u, k)
    BY <1>1 DEF Late
  <2> QED BY <1>1, <1>4, <2>1, SlackKept
<1> QED BY <1>8, <1>9

\* A thread that ends has no lock to forget.
LEMMA ThreadExitLedger ==
  ASSUME HistoryInv, TypeInv', NEW t \in Thread, ThreadExit(t)
  PROVE  Ledger' /\ \A u \in Thread, k \in Lock : Slack(u, k)' = Slack(u, k)
<1>0. TypeInv /\ TypeOK /\ Ledger /\ held \in [Thread -> Seq(EntryType)]
  BY HeldType DEF HistoryInv, TypeInv
<1>1. /\ nodes' = nodes /\ gen' = gen /\ pc' = pc /\ target' = target
      /\ owner' = owner /\ depth' = depth /\ ignoreLock' = ignoreLock /\ ignoreUnlock' = ignoreUnlock
      /\ pc[t] = "run" /\ (\A l \in Lock : owner[l] # t)
      /\ held' = [held EXCEPT ![t] = <<>>]
  BY DEF ThreadExit, graph, program, Owned
<1>2. held'[t] = <<>> /\ \A u \in Thread : u # t => held'[u] = held[u]
  BY <1>0, <1>1
<1>3. IdsKept
  BY <1>0, <1>1, SameGraphKeepsIds
<1>4. Alone(t)
  BY <1>1, <1>2 DEF Alone, Untouched
<1>5. Entries(t)' /\ Aimed(t)' /\ Ignored(t)' /\ Fresh(t)'
  BY <1>0, <1>1, <1>2 DEF Ledger, Entries, Distinct, Aimed, Ignored, Fresh
<1>6. Ledger'
  BY <1>0, <1>3, <1>4, <1>5, AloneKeepsOthers
<1>7. ASSUME NEW u \in Thread, NEW k \in Lock PROVE Slack(u, k)' = Slack(u, k)
  <2>1. Late(u, k)' = Late(u, k)
    BY <1>1 DEF Late
  <2>2. CASE u # t
    BY <1>1, <1>2, <1>3, <2>1, <2>2, SlackKept
  <2>3. CASE u = t
    <3>1. RecordedNow(t, k) = 0
      <4>1. Late(t, k) = 0
        BY <1>1 DEF Late
      <4> QED BY <1>1, <4>1, NoneOwnedNoneRecorded
    <3>2. RecordedNow(t, k)' = 0
      <4>1. \A x : WithId(<<>>, x) = {}
        BY DEF WithId
      <4> QED BY <1>2, <4>1 DEF RecordedNow, Count
    <3> QED BY <1>1, <2>1, <2>3, <3>1, <3>2 DEF Slack, Holds
  <2> QED BY <2>2, <2>3
<1> QED BY <1>6, <1>7

-----------------------------------------------------------------------------
(* The invariant.                                                          *)

LEMMA InitHistory == Init => HistoryInv
<1> SUFFICES ASSUME Init PROVE HistoryInv
  OBVIOUS
<1>1. TypeInv
  BY InitType
<1>2. ASSUME NEW t \in Thread
      PROVE  /\ held[t] = <<>> /\ pc[t] = "run" /\ target[t].mu = NoLock
             /\ ignoreLock[t] = 0 /\ ignoreUnlock[t] = 0
  BY DEF Init, Idle
<1>3. Ledger
  BY <1>2 DEF Ledger, Entries, Distinct, Aimed, Ignored, Fresh
<1>4. ASSUME NEW t \in Thread, NEW l \in Lock PROVE Slack(t, l) = 0
  <2>1. RecordedNow(t, l) = 0
    BY <1>2 DEF RecordedNow, Count, WithId
  <2>2. Late(t, l) = 0
    BY <1>2 DEF Late
  <2>3. Holds(t, l) = 0
    BY DEF Init, Holds
  <2> QED BY <2>1, <2>2, <2>3 DEF Slack
<1> QED BY <1>1, <1>3, <1>4 DEF HistoryInv, NeverAhead

LEMMA StutterLedger ==
  ASSUME HistoryInv, TypeInv', UNCHANGED vars
  PROVE  Ledger' /\ \A u \in Thread, k \in Lock : Slack(u, k)' = Slack(u, k)
<1>1. /\ held' = held /\ nodes' = nodes /\ gen' = gen /\ pc' = pc /\ target' = target
      /\ owner' = owner /\ depth' = depth /\ ignoreLock' = ignoreLock /\ ignoreUnlock' = ignoreUnlock
  BY DEF vars, graph, own, program
<1>2. Ledger'
  BY <1>1 DEF HistoryInv, Ledger, Entries, Aimed, Ignored, Fresh, Alive
<1>3. ASSUME NEW u \in Thread, NEW k \in Lock PROVE Slack(u, k)' = Slack(u, k)
  BY <1>1 DEF Slack, Holds, RecordedNow, Late, GetGraphId
<1> QED BY <1>2, <1>3

\* No step lets a history get ahead of what its thread holds.
LEMMA HistoryStep ==
  ASSUME HistoryInv, IgnoresWell, [Next]_vars
  PROVE  HistoryInv'
<1>1. TypeInv'
  BY TypeStep DEF HistoryInv
<1>2. Ledger' /\ \A u \in Thread, k \in Lock :
        \/ Slack(u, k)' = Slack(u, k) \/ Slack(u, k)' = 0
        \/ Slack(u, k)' = Slack(u, k) + 1
        \/ Slack(u, k) >= 1 /\ Slack(u, k)' = Slack(u, k) - 1
  <2>1. ASSUME NEW t \in Thread, NEW l \in Lock, LockCall(t, l) \/ BeforeTryLock(t, l) \/ CndWait(t, l)
        PROVE  Ledger' /\ \A u \in Thread, k \in Lock : Slack(u, k)' = Slack(u, k)
    BY <1>1, <2>1, BeforeLockLedger, BeforeTryLockLedger, CndWaitLedger
  <2>2. ASSUME NEW t \in Thread,
               Leave(t) \/ IncreaseIgnoreCounter(t) \/ ThreadExit(t) \/ UNCHANGED vars
        PROVE  Ledger' /\ \A u \in Thread, k \in Lock : Slack(u, k)' = Slack(u, k)
    BY <1>1, <2>2, LeaveLedger, IncreaseLedger, ThreadExitLedger, StutterLedger
  <2>3. ASSUME NEW t \in Thread, Enter(t) \/ TryEnter(t) \/ TryEnterFails(t) \/ CndWake(t) \/ InLock(t)
        PROVE  Ledger' /\ \A u \in Thread, k \in Lock :
                 Slack(u, k)' = Slack(u, k) \/ Slack(u, k)' = Slack(u, k) + 1
    BY <1>1, <2>3, LockLedger, InLockLedger
  <2>4. ASSUME NEW t \in Thread, NEW l \in Lock, UnlockCall(t, l)
        PROVE  Ledger' /\ \A u \in Thread, k \in Lock :
                 \/ Slack(u, k)' = Slack(u, k)
                 \/ Slack(u, k) >= 1 /\ Slack(u, k)' = Slack(u, k) - 1
    BY <1>1, <2>4, AfterLockLedger, AfterLockIgnoredLedger DEF UnlockCall
  <2>5. ASSUME NEW t \in Thread, NEW l \in Lock, DeleteLock(t, l)
        PROVE  Ledger' /\ \A u \in Thread, k \in Lock : Slack(u, k)' = Slack(u, k) \/ Slack(u, k)' = 0
    BY <1>1, <2>5, DeleteLockLedger
  <2>6. CASE Next
    BY <2>1, <2>2, <2>3, <2>4, <2>5, <2>6 DEF Next
  <2>7. CASE UNCHANGED vars
    BY <1>1, <2>7, StutterLedger
  <2> QED BY <2>6, <2>7
<1>3. ASSUME NEW u \in Thread, NEW k \in Lock PROVE Slack(u, k)' >= 0
  <2>1. Slack(u, k) \in Int /\ Slack(u, k) >= 0
    BY SlackType DEF HistoryInv, NeverAhead
  <2> QED BY <1>2, <2>1
<1> QED BY <1>1, <1>2, <1>3 DEF HistoryInv, NeverAhead

LEMMA HistoryInvHolds ==
  ASSUME IgnoresWell
  PROVE  Spec => []HistoryInv
<1>1. HistoryInv /\ [Next]_vars => HistoryInv'
  BY HistoryStep
<1> QED BY <1>1, InitHistory, PTL DEF Spec
=============================================================================

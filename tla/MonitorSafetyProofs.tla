------------------------- MODULE MonitorSafetyProofs -------------------------
(***************************************************************************)
(* The safety properties of DeadlockMonitor, for every number of threads   *)
(* and locks: what its histories, its errors and its reports are worth.    *)
(* Hypotheses about Ops say which programs a theorem is about.             *)
(***************************************************************************)
EXTENDS DeadlockMonitorProofs

USE NoThreadAssumption, NoLockAssumption, Bounds

-----------------------------------------------------------------------------
(* In every step one thread moves.                                         *)

CallOf(t, l) == \/ LockCall(t, l) \/ UnlockCall(t, l)
                \/ BeforeTryLock(t, l) \/ DeleteLock(t, l) \/ CndWait(t, l)
StepOf(t) == \/ Enter(t) \/ InLock(t) \/ TryEnter(t) \/ TryEnterFails(t) \/ Leave(t)
             \/ IncreaseIgnoreCounter(t) \/ CndWake(t) \/ ThreadExit(t)

LEMMA NextMoves == Next <=> \E t \in Thread : (\E l \in Lock : CallOf(t, l)) \/ StepOf(t)
BY DEF Next, CallOf, StepOf

Stands(u) == /\ held'[u] = held[u] /\ pc'[u] = pc[u] /\ target'[u] = target[u]
             /\ timing'[u] = timing[u]

LEMMA OthersStand ==
  ASSUME TypeInv, NEW t \in Thread, NEW u \in Thread, u # t,
         (\E l \in Lock : CallOf(t, l)) \/ StepOf(t)
  PROVE  Stands(u)
<1>1. /\ DOMAIN held = Thread /\ DOMAIN pc = Thread /\ DOMAIN target = Thread
      /\ DOMAIN timing = Thread
  BY DEF TypeInv, TypeOK
<1>2. ASSUME NEW l \in Lock, LockCall(t, l) PROVE Stands(u)
  <2>1. held' = held /\ \E x : Goto(t, "wait", l, x)
    BY <1>2 DEF LockCall, BeforeLockIgnored, BeforeLockFull, BeforeLock
  <2>2. timing' = timing \/ timing' = [timing EXCEPT ![t] = "on"]
    BY <1>2 DEF LockCall, BeforeLockIgnored, BeforeLockFull, BeforeLock, StartTiming
  <2> QED BY <1>1, <2>1, <2>2 DEF Goto, Stands
<1>3. ASSUME NEW l \in Lock, UnlockCall(t, l) PROVE Stands(u)
  <2>1. Goto(t, "unlock", l, InvalidId)
    BY <1>3 DEF UnlockCall, AfterLockIgnored, AfterLock
  <2>2. held' = held \/ \E g : held' = [held EXCEPT ![t] = g]
    BY <1>3 DEF UnlockCall, AfterLockIgnored, AfterLock
  <2>3. timing' = timing \/ timing' = [timing EXCEPT ![t] = "off"]
    BY <1>3 DEF UnlockCall, AfterLockIgnored, AfterLock, StopTiming
  <2> QED BY <1>1, <2>1, <2>2, <2>3 DEF Goto, Stands
<1>4. ASSUME NEW l \in Lock, BeforeTryLock(t, l) \/ CndWait(t, l) \/ DeleteLock(t, l) PROVE Stands(u)
  BY <1>1, <1>4 DEF BeforeTryLock, CndWait, DeleteLock, StartTiming, Goto, Stands
<1>5. CASE Enter(t) \/ TryEnter(t) \/ TryEnterFails(t) \/ CndWake(t) \/ Leave(t)
  <2>1. held' = held /\ timing' = timing
    BY <1>5 DEF Enter, TryEnter, TryEnterFails, CndWake, Leave, own
  <2>2. Return(t) \/ (pc' = [pc EXCEPT ![t] = "got"] /\ target' = target)
    BY <1>5 DEF Enter, TryEnter, TryEnterFails, CndWake, Leave
  <2> QED BY <1>1, <2>1, <2>2 DEF Return, Stands
<1>6. CASE InLock(t)
  <2>1. (\E g : held' = [held EXCEPT ![t] = g]) /\ Return(t) /\ timing' = timing
    BY <1>6 DEF InLock
  <2> QED BY <1>1, <2>1 DEF Return, Stands
<1>7. CASE IncreaseIgnoreCounter(t) \/ ThreadExit(t)
  BY <1>1, <1>7 DEF IncreaseIgnoreCounter, ThreadExit, program, Stands
<1> QED BY <1>2, <1>3, <1>4, <1>5, <1>6, <1>7 DEF CallOf, StepOf

-----------------------------------------------------------------------------
(* Room for an acquired lock.                                              *)

\* A monitored thread goes for a lock only with room in its history, and that
\* room is its own.
RoomInv == \A t \in Thread :
  /\ pc[t] # "try"
  /\ pc[t] \in {"wait", "got"} /\ target[t].id # InvalidId => Len(held[t]) < MaxLocks

LEMMA RoomStep ==
  ASSUME "try" \notin Ops, TypeInv, RoomInv, [Next]_vars
  PROVE  RoomInv'
<1>1. CASE UNCHANGED vars
  BY <1>1 DEF RoomInv, vars, own, program
<1>2. ASSUME NEW t \in Thread, (\E l \in Lock : CallOf(t, l)) \/ StepOf(t)
      PROVE  RoomInv'
  <2>1. \A u \in Thread : u # t => Stands(u)
    BY <1>2, OthersStand
  <2>2. /\ pc'[t] # "try"
        /\ pc'[t] \in {"wait", "got"} /\ target'[t].id # InvalidId => Len(held'[t]) < MaxLocks
    <3>1. /\ DOMAIN pc = Thread /\ DOMAIN target = Thread
          /\ pc[t] # "try" /\ Len(held[t]) \in Nat /\ MaxLocks \in Nat
          /\ pc[t] \in {"wait", "got"} /\ target[t].id # InvalidId => Len(held[t]) < MaxLocks
      BY HeldType DEF TypeInv, TypeOK, RoomInv
    <3>2. ASSUME NEW l \in Lock, LockCall(t, l)
          PROVE  pc'[t] = "wait" /\ (target'[t].id # InvalidId => Len(held'[t]) < MaxLocks)
      <4>1. CASE BeforeLockIgnored(t, l) \/ BeforeLockFull(t, l)
        <5>1. Goto(t, "wait", l, InvalidId)
          BY <4>1 DEF BeforeLockIgnored, BeforeLockFull
        <5> QED BY <3>1, <5>1 DEF Goto
      <4>2. CASE BeforeLock(t, l)
        BY <3>1, <4>2 DEF BeforeLock, Goto, Full
      <4> QED BY <3>2, <4>1, <4>2 DEF LockCall
    <3>3. ASSUME NEW l \in Lock, UnlockCall(t, l) \/ CndWait(t, l)
          PROVE  pc'[t] \in {"unlock", "cnd_wait"}
      BY <3>1, <3>3 DEF UnlockCall, AfterLockIgnored, AfterLock, CndWait, Goto
    <3>4. ASSUME NEW l \in Lock, BeforeTryLock(t, l) PROVE FALSE
      BY <3>4 DEF BeforeTryLock
    <3>5. ASSUME NEW l \in Lock, DeleteLock(t, l) PROVE pc'[t] = "run"
      BY <3>5 DEF DeleteLock
    <3>6. CASE Enter(t)
      BY <3>1, <3>6 DEF Enter, Return, own
    <3>7. CASE TryEnter(t) \/ TryEnterFails(t) \/ InLock(t) \/ Leave(t) \/ CndWake(t)
      BY <3>1, <3>7 DEF TryEnter, TryEnterFails, InLock, Leave, CndWake, Return
    <3>8. CASE IncreaseIgnoreCounter(t) \/ ThreadExit(t)
      BY <3>8 DEF IncreaseIgnoreCounter, ThreadExit, program
    <3> QED BY <1>2, <3>2, <3>3, <3>4, <3>5, <3>6, <3>7, <3>8 DEF CallOf, StepOf
  <2> QED BY <2>1, <2>2 DEF RoomInv, Stands
<1> QED BY <1>1, <1>2, NextMoves

-----------------------------------------------------------------------------
(* The graph.                                                              *)

\* Its edges are between the locks' nodes of now, and a node of which a trace
\* was recorded names the thread.
GraphInv ==
  /\ \A e \in order : Alive(e[1]) /\ Alive(e[2])
  /\ \A l \in Lock : priority[l] > 0 => tracedBy[l] # NoThread
  /\ EdgeEndsTraced

\* What the calls do to the graph.
LEMMA GraphMoves ==
  ASSUME NEW t \in Thread, (\E l \in Lock : CallOf(t, l)) \/ StepOf(t)
  PROVE  \/ UNCHANGED graph
         \/ \E l \in Lock : GetId(t, l) /\ UNCHANGED order
         \/ \E l \in Lock : BeforeLock(t, l)
         \/ \E l \in Lock : DeleteLock(t, l)
<1>1. ASSUME NEW l \in Lock, CallOf(t, l)
      PROVE  UNCHANGED graph \/ (GetId(t, l) /\ UNCHANGED order) \/ BeforeLock(t, l) \/ DeleteLock(t, l)
  <2>1. BeforeLockIgnored(t, l) \/ BeforeLockFull(t, l) => UNCHANGED graph
    BY DEF BeforeLockIgnored, BeforeLockFull
  <2>2. AfterLockIgnored(t, l) \/ CndWait(t, l) => UNCHANGED graph
    BY DEF AfterLockIgnored, CndWait
  <2>3. AfterLock(t, l) \/ BeforeTryLock(t, l) => GetId(t, l) /\ UNCHANGED order
    BY DEF AfterLock, BeforeTryLock
  <2> QED BY <1>1, <2>1, <2>2, <2>3 DEF CallOf, LockCall, UnlockCall
<1>2. ASSUME StepOf(t) PROVE UNCHANGED graph
  <2>1. Enter(t) \/ TryEnter(t) \/ TryEnterFails(t) \/ Leave(t) \/ CndWake(t) => UNCHANGED graph
    BY DEF Enter, TryEnter, TryEnterFails, Leave, CndWake
  <2>2. InLock(t) \/ ThreadExit(t) \/ IncreaseIgnoreCounter(t) => UNCHANGED graph
    BY DEF InLock, ThreadExit, IncreaseIgnoreCounter
  <2> QED BY <1>2, <2>1, <2>2 DEF StepOf
<1> QED BY <1>1, <1>2

\* New edges go from held locks, by the ids they have now, to the new lock.
LEMMA NewEdgesAlive ==
  ASSUME NEW h, NEW id, NEW e \in NewEdges(h, id)
  PROVE  Alive(e[1]) /\ e[2] = id
BY DEF NewEdges

LEMMA GraphStep ==
  ASSUME TypeInv, GraphInv, [Next]_vars
  PROVE  GraphInv'
<1>0. TypeOK /\ tracedBy \in [Lock -> Thread \cup {NoThread}] /\ priority \in [Lock -> 0 .. MaxLocks + 1]
  BY DEF TypeInv, TypeOK
<1>1. CASE UNCHANGED graph
  BY <1>1 DEF GraphInv, EdgeEndsTraced, Alive, graph
<1>2. ASSUME NEW t \in Thread, NEW l \in Lock, GetId(t, l), UNCHANGED order PROVE GraphInv'
  <2>1. IdsKept
    BY <1>0, <1>2, AllocateKeepsIds DEF GetId
  <2>2. ASSUME NEW e \in order PROVE Alive(e[1])' /\ Alive(e[2])'
    BY <1>0, <2>1, AliveKept DEF GraphInv, Alive
  <2>3. \/ tracedBy' = tracedBy /\ priority' = priority
        \/ l \notin nodes /\ priority' = [priority EXCEPT ![l] = 0] /\ \A k \in Lock : k # l => tracedBy'[k] = tracedBy[k]
    BY <1>0, <1>2 DEF GetId
  <2>4. \A k \in Lock : priority'[k] > 0 => tracedBy'[k] # NoThread
    BY <1>0, <2>3 DEF GraphInv
  <2>5. ASSUME NEW e \in order PROVE tracedBy'[e[2][1]] # NoThread
    <3>1. e[2][1] \in nodes /\ e[2][1] \in Lock /\ tracedBy[e[2][1]] # NoThread
      BY <1>0 DEF GraphInv, EdgeEndsTraced, Alive, TypeOK
    <3> QED BY <2>3, <3>1
  <2> QED BY <1>2, <2>2, <2>4, <2>5 DEF GraphInv, EdgeEndsTraced, Alive
<1>3. ASSUME NEW t \in Thread, NEW l \in Lock, BeforeLock(t, l) PROVE GraphInv'
  <2>1. IdsKept /\ l \in nodes' /\ GetGraphId(l) = <<l, gen'[l]>>
    BY <1>0, <1>3, AllocateKeepsIds DEF BeforeLock, GetIdAndTrace
  <2>2. \A e \in order' : e \in order \/ (Alive(e[1]) /\ e[2] = <<l, gen'[l]>>)
    BY <1>3, <2>1, NewEdgesAlive DEF BeforeLock
  <2>3. \A e \in order' : Alive(e[1]) /\ (Alive(e[2]) \/ e[2] = <<l, gen'[l]>>)
    BY <2>2 DEF GraphInv
  <2>4. ASSUME NEW e \in order' PROVE Alive(e[1])' /\ Alive(e[2])'
    BY <1>0, <2>1, <2>3, AliveKept DEF Alive
  <2>5. \/ l \in nodes /\ priority[l] >= Len(held[t]) + 1 /\ tracedBy' = tracedBy /\ priority' = priority
        \/ tracedBy' = [tracedBy EXCEPT ![l] = t] /\ priority' = [priority EXCEPT ![l] = Len(held[t]) + 1]
    <3>1. held[t] \in Seq(EntryType) /\ Len(held[t]) \in Nat
      BY <1>0, HeldType
    <3> QED BY <1>3, <3>1 DEF BeforeLock, GetIdAndTrace
  <2>6. tracedBy'[l] # NoThread
    <3>1. held[t] \in Seq(EntryType) /\ Len(held[t]) \in Nat
      BY <1>0, HeldType
    <3>2. priority[l] \in Nat
      BY <1>0
    <3> QED BY <1>0, <2>5, <3>1, <3>2 DEF GraphInv
  <2>7. \A k \in Lock : k # l => tracedBy'[k] = tracedBy[k] /\ priority'[k] = priority[k]
    BY <1>0, <2>5
  <2>8. \A k \in Lock : priority'[k] > 0 => tracedBy'[k] # NoThread
    BY <2>6, <2>7 DEF GraphInv
  <2>9. ASSUME NEW e \in order' PROVE tracedBy'[e[2][1]] # NoThread
    <3>1. CASE e \in order
      <4>1. e[2][1] \in Lock /\ tracedBy[e[2][1]] # NoThread
        BY <1>0, <3>1 DEF GraphInv, EdgeEndsTraced, Alive, TypeOK
      <4> QED BY <2>6, <2>7, <4>1
    <3>2. CASE e[2] = <<l, gen'[l]>>
      BY <2>6, <3>2
    <3> QED BY <2>2, <3>1, <3>2
  <2> QED BY <2>4, <2>8, <2>9 DEF GraphInv, EdgeEndsTraced
<1>4. ASSUME NEW t \in Thread, NEW l \in Lock, DeleteLock(t, l) PROVE GraphInv'
  BY <1>4 DEF DeleteLock, GraphInv, EdgeEndsTraced, Alive
<1>5. CASE UNCHANGED vars
  BY <1>1, <1>5 DEF vars
<1> QED BY <1>1, <1>2, <1>3, <1>4, <1>5, GraphMoves, NextMoves

LEMMA GraphInvHolds == Spec => []GraphInv
<1>1. Init => GraphInv
  BY DEF Init, GraphInv, EdgeEndsTraced
<1>2. TypeInv /\ GraphInv /\ [Next]_vars => GraphInv'
  BY GraphStep
<1> QED BY <1>1, <1>2, TypeInvHolds, PTL DEF Spec

\* The lock at the target end of every edge names the thread that went for it, also
\* when a node is reused after a lock was deleted: the assert in extra_infos,
\* graphcycles.cc:520.  Nothing is said of the source, which a try may have locked.
THEOREM ReportsNameThreads == Spec => []EdgeEndsTraced
<1>1. GraphInv => EdgeEndsTraced
  BY DEF GraphInv
<1> QED BY <1>1, GraphInvHolds, PTL

-----------------------------------------------------------------------------
(* What a history says of a lock, found by the lock's address.             *)

\* Without misuse every entry is of the lock's node of now, so that the search
\* by address finds what the search by id finds.
LEMMA RecordedIsNow ==
  ASSUME HistoryInv, "misuse" \notin Ops, NEW t \in Thread, NEW l \in Lock
  PROVE  /\ WithMu(held[t], l) = WithId(held[t], GetGraphId(l))
         /\ Recorded(t, l) = RecordedNow(t, l) /\ Behind(t, l) = Late(t, l)
         /\ WithMu(held[t], l) = {} <=> RecordedNow(t, l) = 0
<1>1. TypeInv /\ Entries(t) /\ Fresh(t)
  BY DEF HistoryInv, Ledger
<1>2. ASSUME NEW i \in DOMAIN held[t] PROVE held[t][i].mu = l <=> held[t][i].id = GetGraphId(l)
  <2>1. Alive(held[t][i].id)
    BY <1>1 DEF Fresh
  <2>2. held[t][i].id = GetGraphId(held[t][i].mu)
    BY <1>1, <2>1, AliveEntry
  <2> QED BY <2>2, IdsDiffer
<1>3. WithMu(held[t], l) = WithId(held[t], GetGraphId(l))
  BY <1>2 DEF WithMu, WithId
<1>4. Recorded(t, l) = RecordedNow(t, l)
  BY <1>3 DEF Recorded, RecordedNow, Count
<1>5. Behind(t, l) = Late(t, l)
  BY <1>1 DEF Behind, Late, Fresh
<1>6. WithMu(held[t], l) = {} <=> RecordedNow(t, l) = 0
  BY <1>1, <1>3, HeldType, CountType DEF RecordedNow, TypeInv
<1> QED BY <1>3, <1>4, <1>5, <1>6

\* A history claims no lock more often than its thread holds it, whatever the
\* limit, in programs that ignore locks, re-enter them, wait for conditions or
\* delete locks, as long as a thread releases only what it owns.
THEOREM HistoriesAreSound ==
  ASSUME "misuse" \notin Ops, IgnoresWell
  PROVE  Spec => []HistoryIsSound
<1>1. HistoryInv => HistoryIsSound
  <2> SUFFICES ASSUME HistoryInv, NEW t \in Thread, NEW l \in Lock
               PROVE  Recorded(t, l) + Behind(t, l) <= Holds(t, l)
    BY DEF HistoryIsSound
  <2>1. Slack(t, l) >= 0 /\ TypeInv
    BY DEF HistoryInv, NeverAhead
  <2>2. Recorded(t, l) = RecordedNow(t, l) /\ Behind(t, l) = Late(t, l)
    BY RecordedIsNow
  <2>3. RecordedNow(t, l) \in Nat /\ Late(t, l) \in {-1, 0, 1} /\ Holds(t, l) \in Nat
    BY <2>1, SlackType
  <2> QED BY <2>1, <2>2, <2>3 DEF Slack
<1> QED BY <1>1, HistoryInvHolds, PTL

-----------------------------------------------------------------------------
(* The error flags.                                                        *)

\* What the calls do to the flag that fails the process.
LEMMA FlagMoves ==
  ASSUME NEW t \in Thread, (\E l \in Lock : CallOf(t, l)) \/ StepOf(t)
  PROVE  \/ UNCHANGED other_errors_found
         \/ \E l \in Lock : BeforeLockFull(t, l)
         \/ \E l \in Lock : AfterLock(t, l)
         \/ \E l \in Lock : DeleteLock(t, l)
<1>1. ASSUME NEW l \in Lock, CallOf(t, l)
      PROVE  \/ UNCHANGED other_errors_found
             \/ BeforeLockFull(t, l) \/ AfterLock(t, l) \/ DeleteLock(t, l)
  <2>1. BeforeLockIgnored(t, l) \/ AfterLockIgnored(t, l) => UNCHANGED other_errors_found
    BY DEF BeforeLockIgnored, AfterLockIgnored, errors
  <2>2. BeforeLock(t, l) \/ BeforeTryLock(t, l) \/ CndWait(t, l) => UNCHANGED other_errors_found
    BY DEF BeforeLock, BeforeTryLock, CndWait, errors
  <2> QED BY <1>1, <2>1, <2>2 DEF CallOf, LockCall, UnlockCall
<1>2. ASSUME StepOf(t) PROVE UNCHANGED other_errors_found
  <2>1. Enter(t) \/ TryEnter(t) \/ TryEnterFails(t) \/ Leave(t) \/ CndWake(t) => UNCHANGED errors
    BY DEF Enter, TryEnter, TryEnterFails, Leave, CndWake
  <2>2. InLock(t) \/ ThreadExit(t) \/ IncreaseIgnoreCounter(t) => UNCHANGED errors
    BY DEF InLock, ThreadExit, IncreaseIgnoreCounter
  <2> QED BY <1>2, <2>1, <2>2 DEF StepOf, errors
<1> QED BY <1>1, <1>2

\* The flag is never taken back.
LEMMA FlagStep ==
  ASSUME TypeInv, [Next]_vars
  PROVE  other_errors_found => other_errors_found'
<1>1. CASE UNCHANGED vars
  BY <1>1 DEF vars, errors
<1>2. ASSUME NEW t \in Thread, NEW l \in Lock, BeforeLockFull(t, l)
      PROVE  other_errors_found'
  BY <1>2 DEF BeforeLockFull
<1>3. ASSUME NEW t \in Thread, NEW l \in Lock, AfterLock(t, l), other_errors_found
      PROVE  other_errors_found'
  BY <1>3 DEF AfterLock
<1>4. ASSUME NEW t \in Thread, NEW l \in Lock, DeleteLock(t, l)
      PROVE  other_errors_found' = other_errors_found
  BY <1>4 DEF DeleteLock
<1> QED BY <1>1, <1>2, <1>3, <1>4, FlagMoves, NextMoves

-----------------------------------------------------------------------------
(* Exact histories.                                                        *)

\* A program whose locks all fit into a history, also when a recorded lock is
\* entered once more.
EnoughRoom == /\ IsFiniteSet(Lock)
              /\ \/ Cardinality(Lock) < MaxLocks
                 \/ Cardinality(Lock) = MaxLocks /\ "reenter" \notin Ops

\* ... or whose locks do, with all that are deleted and created anew, so that there
\* is room also for what misuse leaves in a history.
RoomForAll == IsFiniteSet(Lock) /\ Cardinality(Id) < MaxLocks

NeverFills == RoomForAll \/ (EnoughRoom /\ "misuse" \notin Ops)

\* A program that ignores no locks, and whose histories never fill: all it does
\* is recorded.
Roomy == "ignore" \notin Ops /\ NeverFills

\* A program that ignores no locks, and acquires none by a try unless there is
\* room for it: all it does is recorded, or the flag is set.
Tracked == "ignore" \notin Ops /\ ("try" \notin Ops \/ NeverFills)

\* A program that gives the monitor no reason for an [Error].
Orderly == EnoughRoom /\ "misuse" \notin Ops /\ "ignore" \notin Ops

LEMMA OrderlyIsTracked == /\ Tracked => IgnoresWell
                          /\ Roomy => IgnoresWell
                          /\ Orderly => Tracked /\ Roomy
BY DEF Orderly, Tracked, Roomy, NeverFills, IgnoresWell

\* A history is no longer than there are values for something that tells its
\* entries apart.
LEMMA LenBound ==
  ASSUME NEW h \in Seq(EntryType), NEW S, IsFiniteSet(S), NEW f \in [DOMAIN h -> S],
         \A i, j \in DOMAIN h : f[i] = f[j] => i = j
  PROVE  Len(h) <= Cardinality(S)
<1>n. PICK n : n = Len(h)
  OBVIOUS
<1>1. n \in Nat /\ DOMAIN h = 1 .. n /\ Cardinality(S) \in Nat
  BY <1>n, FS_CardinalityType
<1>d. PICK D : D = 1 .. n
  OBVIOUS
<1>2. IsFiniteSet(D) /\ Cardinality(D) = n
  BY <1>d, <1>1, FS_Interval
<1>3. f \in [D -> S] /\ \A x, y \in D : f[x] = f[y] => x = y
  BY <1>d, <1>1
<1>4. ASSUME Cardinality(S) < Cardinality(D) PROVE FALSE
  <2>1. \E x, y \in D : x # y /\ f[x] = f[y]
    BY ONLY <1>2, <1>3, <1>4, IsFiniteSet(S), FS_PigeonHole
  <2> QED BY <1>3, <2>1
<1> QED BY <1>n, <1>1, <1>2, <1>4

\* A history has an entry for an id at most.
LEMMA IdsFit ==
  ASSUME HistoryInv, RoomForAll, NEW t \in Thread
  PROVE  Len(held[t]) < MaxLocks
<1>h. PICK h : h = held[t]
  OBVIOUS
<1>1. h \in Seq(EntryType) /\ Entries(t) /\ Len(h) \in Nat
  BY <1>h, HeldType DEF HistoryInv, TypeInv, Ledger
<1>2. IsFiniteSet(Id) /\ Cardinality(Id) \in Nat /\ Cardinality(Id) < MaxLocks
  <2>1. IsFiniteSet(Lock) /\ IsFiniteSet(0 .. MaxGen)
    BY FS_Interval DEF RoomForAll
  <2>2. IsFiniteSet(Id)
    BY <2>1, FS_Product DEF Id, Gen
  <2> QED BY <2>2, FS_CardinalityType DEF RoomForAll
<1>f. PICK f : f = [i \in DOMAIN h |-> h[i].id]
  OBVIOUS
<1>3. f \in [DOMAIN h -> Id]
  <2>1. \A i \in DOMAIN h : h[i] \in EntryType
    BY <1>1
  <2>2. \A i \in DOMAIN h : h[i].id \in Id
    BY <2>1 DEF EntryType
  <2> QED BY <1>f, <2>2
<1>4. \A i, j \in DOMAIN h : f[i] = f[j] => i = j
  BY <1>h, <1>1, <1>f DEF Entries, Distinct
<1>5. Len(h) <= Cardinality(Id)
  BY <1>1, <1>2, <1>3, <1>4, LenBound
<1> QED BY <1>h, <1>1, <1>2, <1>5

\* Without misuse it has an entry for a lock at most, and none for a lock that it
\* does not count.
LEMMA HeldFits ==
  ASSUME HistoryInv, "misuse" \notin Ops, IsFiniteSet(Lock), NEW t \in Thread, NEW l \in Lock
  PROVE  /\ Len(held[t]) <= Cardinality(Lock)
         /\ RecordedNow(t, l) = 0 => Len(held[t]) <= Cardinality(Lock) - 1
<1>h. PICK h : h = held[t]
  OBVIOUS
<1>1. TypeInv /\ Entries(t) /\ Fresh(t) /\ h \in Seq(EntryType)
  BY <1>h, HeldType DEF HistoryInv, Ledger, TypeInv
<1>2. \A i \in DOMAIN h : /\ h[i].mu \in Lock /\ h[i].id = GetGraphId(h[i].mu)
                         /\ RecordedNow(t, h[i].mu) # 0
  BY <1>h, <1>1, AliveEntry DEF Fresh
<1>f. PICK f : f = [i \in DOMAIN h |-> h[i].mu]
  OBVIOUS
<1>3. \A i, j \in DOMAIN h : f[i] = f[j] => i = j
  BY <1>h, <1>1, <1>2, <1>f DEF Entries, Distinct
<1>4. Len(h) <= Cardinality(Lock)
  <2>1. f \in [DOMAIN h -> Lock]
    BY <1>2, <1>f
  <2> QED BY <1>1, <1>3, <2>1, LenBound
<1>5. ASSUME RecordedNow(t, l) = 0 PROVE Len(h) <= Cardinality(Lock) - 1
  <2>1. IsFiniteSet(Lock \ {l}) /\ Cardinality(Lock \ {l}) = Cardinality(Lock) - 1
    BY FS_RemoveElement
  <2>2. f \in [DOMAIN h -> Lock \ {l}]
    BY <1>2, <1>5, <1>f
  <2>3. Len(h) <= Cardinality(Lock \ {l})
    BY <1>1, <1>3, <2>1, <2>2, LenBound
  <2> QED BY <2>1, <2>3
<1> QED BY <1>h, <1>4, <1>5

LEMMA NeverFull ==
  ASSUME HistoryInv, NeverFills, NEW t \in Thread, NEW l \in Lock, pc[t] = "run", MayEnter(t, l)
  PROVE  ~Full(held[t])
<1>0. held[t] \in Seq(EntryType) /\ Len(held[t]) \in Nat
  BY HeldType DEF HistoryInv, TypeInv
<1>1. CASE RoomForAll
  BY <1>0, <1>1, IdsFit DEF Full
<1>2. CASE EnoughRoom /\ "misuse" \notin Ops
  <2>1. IsFiniteSet(Lock) /\ Cardinality(Lock) \in Nat
    BY <1>2, FS_CardinalityType DEF EnoughRoom
  <2>2. CASE owner[l] = t
    <3>1. Cardinality(Lock) < MaxLocks
      BY <1>2, <2>2 DEF MayEnter, Owned, EnoughRoom
    <3> QED BY <1>0, <1>2, <2>1, <3>1, HeldFits DEF Full
  <2>3. CASE owner[l] # t
    <3>1. RecordedNow(t, l) = 0
      BY <1>2, <2>3, NoneOwnedNoneRecorded DEF Late
    <3>2. Len(held[t]) <= Cardinality(Lock) - 1 /\ Cardinality(Lock) <= MaxLocks
      BY <1>2, <2>1, <3>1, HeldFits DEF EnoughRoom
    <3> QED BY <1>0, <2>1, <3>2 DEF Full
  <2> QED BY <2>2, <2>3
<1> QED BY <1>1, <1>2 DEF NeverFills

LEMMA NeverDropped ==
  ASSUME HistoryInv, NeverFills, NEW t \in Thread, pc[t] = "got",
         WithId(held[t], target[t].id) = {}
  PROVE  Len(held[t]) < MaxLocks
<1>l. PICK l : l = target[t].mu
  OBVIOUS
<1>0. held[t] \in Seq(EntryType) /\ Len(held[t]) \in Nat
  BY HeldType DEF HistoryInv, TypeInv
<1>1. CASE RoomForAll
  BY <1>1, IdsFit
<1>2. CASE EnoughRoom /\ "misuse" \notin Ops
  <2>1. IsFiniteSet(Lock) /\ Cardinality(Lock) \in Nat /\ Cardinality(Lock) <= MaxLocks
    BY <1>2, FS_CardinalityType DEF EnoughRoom
  <2>2. l \in Lock /\ target[t].id = GetGraphId(l)
    BY <1>l DEF HistoryInv, TypeInv, Wrappers, Ledger, Aimed, Id, InvalidId, GetGraphId
  <2>3. RecordedNow(t, l) = 0
    BY <1>0, <2>2, CountType DEF RecordedNow
  <2>4. Len(held[t]) <= Cardinality(Lock) - 1
    BY <1>2, <2>1, <2>2, <2>3, HeldFits
  <2> QED BY <1>0, <2>1, <2>4
<1> QED BY <1>1, <1>2 DEF NeverFills

\* Every lock is recorded as often as it is held, and every lock a thread goes
\* for will be, ...
Exact == \A t \in Thread :
  /\ pc[t] \in {"wait", "try", "got"} => target[t].id # InvalidId
  /\ \A l \in Lock : Slack(t, l) = 0

\* ... unless an error was flagged.
ExactInv == /\ HistoryInv
            /\ "try" \notin Ops => RoomInv
            /\ other_errors_found \/ Exact

\* A thread that goes for a lock has an id for it.
LEMMA WithIdKept ==
  ASSUME HistoryInv, "ignore" \notin Ops, NEW t \in Thread, (\E l \in Lock : CallOf(t, l)) \/ StepOf(t), Exact
  PROVE  \/ \E l \in Lock : BeforeLockFull(t, l)
         \/ \A u \in Thread : pc'[u] \in {"wait", "try", "got"} => target'[u].id # InvalidId
<1>0. /\ TypeInv /\ DOMAIN pc = Thread /\ DOMAIN target = Thread /\ ignoreLock[t] = 0
      /\ pc[t] \in {"wait", "try", "got"} => target[t].id # InvalidId
  BY DEF HistoryInv, Ledger, Ignored, TypeInv, TypeOK, Exact
<1>1. \A u \in Thread : u # t => pc'[u] = pc[u] /\ target'[u] = target[u]
  BY <1>0, OthersStand DEF Stands
<1>2. \/ \E l \in Lock : BeforeLockFull(t, l)
      \/ pc'[t] \in {"wait", "try", "got"} => target'[t].id # InvalidId
  <2>1. ASSUME NEW l \in Lock PROVE ~BeforeLockIgnored(t, l)
    BY <1>0 DEF BeforeLockIgnored
  <2>2. ASSUME NEW l \in Lock, BeforeLock(t, l) \/ BeforeTryLock(t, l) PROVE target'[t].id # InvalidId
    <3>1. GetGraphId(l) # InvalidId
      BY DEF GetGraphId, InvalidId
    <3>2. \E w : Goto(t, w, l, GetGraphId(l))
      BY <2>2 DEF BeforeLock, BeforeTryLock
    <3> QED BY <1>0, <3>1, <3>2 DEF Goto
  <2>3. ASSUME NEW l \in Lock, UnlockCall(t, l) \/ CndWait(t, l)
        PROVE  pc'[t] \in {"unlock", "cnd_wait"}
    BY <1>0, <2>3 DEF UnlockCall, AfterLockIgnored, AfterLock, CndWait, Goto
  <2>4. ASSUME NEW l \in Lock, DeleteLock(t, l) PROVE pc'[t] = "run"
    BY <2>4 DEF DeleteLock
  <2>5. CASE Enter(t) \/ TryEnter(t)
    BY <1>0, <2>5 DEF Enter, TryEnter
  <2>6. CASE TryEnterFails(t) \/ InLock(t) \/ Leave(t) \/ CndWake(t)
    BY <1>0, <2>6 DEF TryEnterFails, InLock, Leave, CndWake, Return
  <2>7. CASE IncreaseIgnoreCounter(t) \/ ThreadExit(t)
    BY <2>7 DEF IncreaseIgnoreCounter, ThreadExit, program
  <2>8. CASE \E l \in Lock : CallOf(t, l)
    BY <2>1, <2>2, <2>3, <2>4, <2>8 DEF CallOf, LockCall
  <2> QED BY <2>5, <2>6, <2>7, <2>8 DEF StepOf
<1> QED BY <1>0, <1>1, <1>2 DEF Exact

\* No step makes a history inexact that has room for the lock acquired.  A release
\* that is refused leaves it as it was.
LEMMA SlackStaysZero ==
  ASSUME HistoryInv, TypeInv', Exact, "ignore" \notin Ops,
         NEW t \in Thread, (\E l \in Lock : CallOf(t, l)) \/ StepOf(t),
         pc[t] = "got" /\ WithId(held[t], target[t].id) = {} => Len(held[t]) < MaxLocks
  PROVE  \A u \in Thread, k \in Lock : Slack(u, k)' = 0
<1>0. /\ IgnoresWell
      /\ \A u \in Thread, k \in Lock : Slack(u, k) = 0
      /\ pc[t] \in {"wait", "try", "got"} => target[t].id # InvalidId
  BY DEF IgnoresWell, Exact
<1>1. ASSUME NEW l \in Lock, LockCall(t, l) \/ BeforeTryLock(t, l) \/ CndWait(t, l) \/ DeleteLock(t, l)
      PROVE  \A u \in Thread, k \in Lock : Slack(u, k)' = 0
  BY <1>0, <1>1, BeforeLockLedger, BeforeTryLockLedger, CndWaitLedger, DeleteLockLedger
<1>2. ASSUME NEW l \in Lock, AfterLock(t, l)
      PROVE  \A u \in Thread, k \in Lock : Slack(u, k)' = 0
  <2>1. \A u \in Thread, k \in Lock : Slack(u, k)' = Slack(u, k) \/ Slack(u, k) >= 1
    BY <1>2, AfterLockLedger
  <2> QED BY <1>0, <2>1
<1>3. ASSUME NEW l \in Lock PROVE ~AfterLockIgnored(t, l)
  BY DEF AfterLockIgnored, HistoryInv, Ledger, Ignored
<1>4. ASSUME Leave(t) \/ IncreaseIgnoreCounter(t) \/ ThreadExit(t)
      PROVE  \A u \in Thread, k \in Lock : Slack(u, k)' = 0
  BY <1>0, <1>4, LeaveLedger, IncreaseLedger, ThreadExitLedger
<1>5. ASSUME Enter(t) \/ TryEnter(t) \/ TryEnterFails(t) \/ CndWake(t)
      PROVE  \A u \in Thread, k \in Lock : Slack(u, k)' = 0
  BY <1>0, <1>5, LockLedger DEF Enter
<1>6. ASSUME InLock(t) PROVE \A u \in Thread, k \in Lock : Slack(u, k)' = 0
  <2>1. ASSUME WithId(held[t], target[t].id) = {} PROVE Len(held[t]) # MaxLocks
    <3>1. pc[t] = "got" /\ held[t] \in Seq(EntryType)
      BY <1>6, HeldType DEF InLock, HistoryInv, TypeInv
    <3>2. Len(held[t]) < MaxLocks
      BY <2>1, <3>1
    <3> QED BY <3>1, <3>2
  <2> QED BY <1>0, <1>6, <2>1, InLockLedger
<1>7. ASSUME NEW l \in Lock, CallOf(t, l)
      PROVE  \A u \in Thread, k \in Lock : Slack(u, k)' = 0
  BY <1>1, <1>2, <1>3, <1>7 DEF CallOf, UnlockCall
<1> QED BY <1>4, <1>5, <1>6, <1>7 DEF StepOf

LEMMA ExactMoves ==
  ASSUME HistoryInv, TypeInv', Exact, "ignore" \notin Ops, [Next]_vars,
         \A t \in Thread : pc[t] = "got" /\ WithId(held[t], target[t].id) = {} => Len(held[t]) < MaxLocks
  PROVE  Exact' \/ \E t \in Thread, l \in Lock : BeforeLockFull(t, l)
<1>1. ASSUME NEW t \in Thread, (\E l \in Lock : CallOf(t, l)) \/ StepOf(t)
      PROVE  Exact' \/ \E l \in Lock : BeforeLockFull(t, l)
  BY <1>1, WithIdKept, SlackStaysZero DEF Exact
<1>2. ASSUME UNCHANGED vars PROVE Exact'
  <2>1. \A u \in Thread, k \in Lock : Slack(u, k)' = Slack(u, k)
    BY <1>2, StutterLedger
  <2>2. pc' = pc /\ target' = target
    BY <1>2 DEF vars, program
  <2> QED BY <2>1, <2>2 DEF Exact
<1> QED BY <1>1, <1>2, NextMoves

LEMMA ExactStep ==
  ASSUME ExactInv, Tracked, [Next]_vars
  PROVE  ExactInv'
<1>0. HistoryInv' /\ TypeInv' /\ HistoryInv /\ "ignore" \notin Ops
  BY HistoryStep, OrderlyIsTracked DEF ExactInv, HistoryInv, Tracked
<1>1. "try" \notin Ops => RoomInv'
  BY RoomStep DEF ExactInv, HistoryInv
<1>2. other_errors_found => other_errors_found'
  BY FlagStep DEF ExactInv, HistoryInv
<1>3. ASSUME Exact PROVE other_errors_found' \/ Exact'
  <2>1. ASSUME NEW t \in Thread, pc[t] = "got", WithId(held[t], target[t].id) = {}
        PROVE  Len(held[t]) < MaxLocks
    <3>1. CASE "try" \notin Ops
      BY <1>3, <2>1, <3>1 DEF ExactInv, RoomInv, Exact
    <3>2. CASE NeverFills
      BY <1>0, <2>1, <3>2, NeverDropped
    <3> QED BY <3>1, <3>2 DEF Tracked
  <2>2. (\E t \in Thread, l \in Lock : BeforeLockFull(t, l)) => other_errors_found'
    BY DEF BeforeLockFull
  <2> QED BY <1>0, <1>3, <2>1, <2>2, ExactMoves
<1> QED BY <1>0, <1>1, <1>2, <1>3 DEF ExactInv

LEMMA InitExact == Init => Exact /\ RoomInv
<1> SUFFICES ASSUME Init PROVE Exact /\ RoomInv
  OBVIOUS
<1>1. ASSUME NEW t \in Thread PROVE held[t] = <<>> /\ pc[t] = "run" /\ target[t].mu = NoLock
  BY DEF Init, Idle
<1>2. ASSUME NEW t \in Thread, NEW l \in Lock PROVE Slack(t, l) = 0
  <2>1. RecordedNow(t, l) = 0
    BY <1>1 DEF RecordedNow, Count, WithId
  <2>2. Late(t, l) = 0
    BY <1>1 DEF Late
  <2>3. Holds(t, l) = 0
    BY DEF Init, Holds
  <2> QED BY <2>1, <2>2, <2>3 DEF Slack
<1> QED BY <1>1, <1>2 DEF Exact, RoomInv

LEMMA ExactInvHolds ==
  ASSUME Tracked
  PROVE  Spec => []ExactInv
<1>1. Init => ExactInv
  BY InitExact, InitHistory DEF ExactInv
<1>2. ExactInv /\ [Next]_vars => ExactInv'
  BY ExactStep
<1> QED BY <1>1, <1>2, PTL DEF Spec

\* In a program with room no error is needed as an excuse, and none spoils it.
LEMMA RoomyIsExact ==
  ASSUME Roomy
  PROVE  Spec => [](HistoryInv /\ Exact)
<1>1. HistoryInv /\ Exact /\ [Next]_vars => HistoryInv' /\ Exact'
  <2> SUFFICES ASSUME HistoryInv, Exact, [Next]_vars PROVE HistoryInv' /\ Exact'
    OBVIOUS
  <2>1. HistoryInv' /\ TypeInv'
    BY HistoryStep, OrderlyIsTracked DEF HistoryInv
  <2>2. \A t \in Thread : pc[t] = "got" /\ WithId(held[t], target[t].id) = {} => Len(held[t]) < MaxLocks
    BY NeverDropped DEF Roomy
  <2>3. \A t \in Thread, l \in Lock : ~BeforeLockFull(t, l)
    BY NeverFull DEF BeforeLockFull, Roomy
  <2> QED BY <2>1, <2>2, <2>3, ExactMoves DEF Roomy
<1> QED BY <1>1, InitExact, InitHistory, PTL DEF Spec

-----------------------------------------------------------------------------
(* What the exact histories are good for.                                  *)

\* A release is judged by the history.
LEMMA JudgedRelease ==
  ASSUME HistoryInv, Exact, TypeInv', NEW t \in Thread, NEW l \in Lock, AfterLock(t, l)
  PROVE  ReleaseOK(held[t], GetGraphId(l)) <=> owner[l] = t
<1>1. /\ ReleaseOK(held[t], GetGraphId(l)) => owner[l] = t
      /\ ReleaseOK(held[t], GetGraphId(l)) \/ Slack(t, l) = Holds(t, l)
  BY AfterLockLedger
<1>2. ASSUME owner[l] = t PROVE ReleaseOK(held[t], GetGraphId(l))
  <2>1. Holds(t, l) \in Nat /\ Holds(t, l) >= 1
    BY <1>2, SlackType DEF HistoryInv
  <2> QED BY <1>1, <2>1 DEF Exact
<1> QED BY <1>1, <1>2

\* Every single verdict on a release is right, after any number of errors: the
\* history has the lock exactly when the thread owns it, whatever other threads
\* deleted or took meanwhile, in programs that ignore no locks and whose locks
\* fit into a history (after_lock's answer of update_lock_history_after_lock).
THEOREM ReleasesAreJudgedRight ==
  ASSUME Roomy
  PROVE  Spec => ReleasesAreJudged
<1>1. HistoryInv /\ Exact /\ [Next]_vars =>
        [\A t \in Thread, l \in Lock : AfterLock(t, l) =>
           (ReleaseOK(held[t], GetGraphId(l)) <=> owner[l] = t)]_vars
  BY TypeStep, JudgedRelease DEF HistoryInv
<1> QED BY <1>1, RoomyIsExact, PTL DEF Spec, ReleasesAreJudged

\* An orderly program is never accused.
LEMMA NotAccused ==
  ASSUME HistoryInv, Exact, Orderly, ~other_errors_found, [Next]_vars
  PROVE  ~other_errors_found'
<1>0. TypeInv' /\ NeverFills /\ "misuse" \notin Ops
  BY TypeStep DEF HistoryInv, Orderly, NeverFills
<1>1. ASSUME NEW t \in Thread, NEW l \in Lock PROVE ~BeforeLockFull(t, l)
  BY <1>0, NeverFull DEF BeforeLockFull
<1>2. ASSUME NEW t \in Thread, NEW l \in Lock, AfterLock(t, l)
      PROVE  ~other_errors_found'
  <2>1. owner[l] = t
    BY <1>0, <1>2 DEF AfterLock, MayLeave, Owned
  <2>2. ReleaseOK(held[t], GetGraphId(l))
    BY <1>0, <1>2, <2>1, JudgedRelease
  <2> QED BY <1>2, <2>2 DEF AfterLock
<1>3. ASSUME NEW t \in Thread, NEW l \in Lock, DeleteLock(t, l)
      PROVE  other_errors_found' = other_errors_found
  BY <1>3 DEF DeleteLock
<1>4. CASE UNCHANGED vars
  BY <1>4 DEF vars, errors
<1>5. CASE UNCHANGED other_errors_found
  BY <1>5
<1> QED BY <1>1, <1>2, <1>3, <1>4, <1>5, FlagMoves, NextMoves

LEMMA OrderlyIsExact ==
  ASSUME Orderly
  PROVE  Spec => [](HistoryInv /\ Exact /\ ~other_errors_found)
<1>1. Init => ~other_errors_found
  BY DEF Init
<1>2. HistoryInv /\ Exact /\ ~other_errors_found /\ [Next]_vars => ~other_errors_found'
  BY NotAccused
<1>3. Spec => [](HistoryInv /\ Exact)
  BY OrderlyIsTracked, RoomyIsExact
<1> QED BY <1>1, <1>2, <1>3, PTL DEF Spec

\* In a program whose locks fit into a history, which releases only what it owns
\* and ignores no locks, a thread's history is what it holds, entry for entry
\* and count for count, with the ids of now, however the threads interleave:
\* update_lock_history_in_lock and _after_lock keep pace with the locks.
THEOREM HistoriesMatchLocks ==
  ASSUME Orderly
  PROVE  Spec => []HistoryMatchesLocks
<1>1. HistoryInv /\ Exact => HistoryMatchesLocks
  <2> SUFFICES ASSUME HistoryInv, Exact, NEW t \in Thread
               PROVE  /\ \A l \in Lock : /\ Cardinality(WithMu(held[t], l)) <= 1
                                         /\ Holds(t, l) = Recorded(t, l) + Behind(t, l)
                      /\ \A i \in DOMAIN held[t] : /\ Alive(held[t][i].id)
                                                   /\ held[t][i].id[1] = held[t][i].mu
    BY DEF HistoryMatchesLocks
  <2>0. TypeInv /\ Entries(t) /\ Fresh(t) /\ "misuse" \notin Ops
    BY DEF HistoryInv, Ledger, Orderly
  <2>1. ASSUME NEW l \in Lock PROVE Cardinality(WithMu(held[t], l)) <= 1
    <3>1. \A i, j \in WithMu(held[t], l) : i = j
      BY <2>0, RecordedIsNow DEF WithId, Entries, Distinct
    <3>2. CASE WithMu(held[t], l) = {}
      <4>1. Cardinality({}) = 0
        BY FS_EmptySet
      <4> QED BY <3>2, <4>1
    <3>3. CASE WithMu(held[t], l) # {}
      <4>1. PICK i : WithMu(held[t], l) = {i}
        BY <3>1, <3>3
      <4>2. Cardinality({i}) = 1
        BY FS_Singleton
      <4> QED BY <4>1, <4>2
    <3> QED BY <3>2, <3>3
  <2>2. ASSUME NEW l \in Lock PROVE Holds(t, l) = Recorded(t, l) + Behind(t, l)
    <3>1. Recorded(t, l) = RecordedNow(t, l) /\ Behind(t, l) = Late(t, l)
      BY <2>0, RecordedIsNow
    <3>2. RecordedNow(t, l) \in Nat /\ Late(t, l) \in {-1, 0, 1} /\ Holds(t, l) \in Nat
      BY <2>0, SlackType
    <3> QED BY <3>1, <3>2 DEF Exact, Slack
  <2> QED BY <2>0, <2>1, <2>2 DEF Fresh, Entries
<1> QED BY <1>1, OrderlyIsExact, PTL
-----------------------------------------------------------------------------
(* The watchdog's time.                                                    *)

LEMMA EmptyHistory ==
  ASSUME NEW h \in Seq(EntryType)
  PROVE  Len(h) \in Nat /\ (h = <<>> <=> Len(h) = 0)
BY EmptySeq

LEMMA RecordNotEmpty ==
  ASSUME NEW h \in Seq(EntryType), NEW mu \in Lock, NEW id \in Id, NEW max \in Nat \ {0},
         Len(h) <= max
  PROVE  Record(h, mu, id, max) # <<>>
<1> DEFINE g == Record(h, mu, id, max)
<1>1. g \in Seq(EntryType)
  BY RecordType
<1>2. CASE WithId(h, id) # {}
  <2>1. First(WithId(h, id)) \in 1 .. Len(h)
    BY <1>2, FoundIndex
  <2>2. DOMAIN g = DOMAIN h
    BY <1>2 DEF Record
  <2>3. Len(g) # 0
    BY <1>1, <2>1, <2>2
  <2> QED BY <1>1, <2>3, EmptyHistory
<1>3. CASE WithId(h, id) = {} /\ Len(h) = max
  BY <1>3, EmptyHistory DEF Record
<1>4. CASE WithId(h, id) = {} /\ Len(h) # max
  <2>1. Entry(mu, id, 1) \in EntryType
    BY DEF Entry, EntryType
  <2>2. g = Append(h, Entry(mu, id, 1))
    BY <1>4 DEF Record
  <2>3. Len(g) = Len(h) + 1
    BY <2>1, <2>2
  <2> QED BY <1>1, <2>3, EmptyHistory
<1> QED BY <1>2, <1>3, <1>4

\* What the calls do to a thread's time, its history and its place.
LEMMA TimeMoves ==
  ASSUME TypeInv, TypeInv', NEW t \in Thread, (\E l \in Lock : CallOf(t, l)) \/ StepOf(t)
  PROVE  \/ /\ pc[t] = "run" /\ ignoreLock[t] > 0 /\ pc'[t] = "wait"
            /\ timing'[t] = timing[t] /\ held'[t] = held[t]
         \/ \E l \in Lock : BeforeLockFull(t, l)
         \/ /\ pc[t] = "run" /\ pc'[t] = "wait" /\ target'[t].id # InvalidId
            /\ held'[t] = held[t]
            /\ timing'[t] = IF held[t] = <<>> THEN "on" ELSE timing[t]
         \/ /\ "try" \in Ops /\ pc[t] = "run" /\ pc'[t] = "try"
            /\ held'[t] = held[t]
            /\ timing'[t] = IF held[t] = <<>> THEN "on" ELSE timing[t]
         \/ /\ pc[t] = "run" /\ pc'[t] = "unlock"
            /\ IF held'[t] = <<>> THEN timing'[t] = "off"
               ELSE timing'[t] = timing[t] /\ held[t] # <<>>
         \/ /\ pc[t] = "run" /\ pc'[t] = "unlock"
            /\ timing'[t] = timing[t] /\ held'[t] = held[t]
         \/ /\ "cnd_wait" \in Ops /\ pc[t] = "run" /\ pc'[t] = "cnd_wait"
            /\ timing'[t] = "never" /\ held'[t] = held[t]
         \/ /\ pc[t] = "wait" /\ timing'[t] = timing[t] /\ held'[t] = held[t]
            /\ pc'[t] = "got" \/ (pc'[t] = "run" /\ target[t].id = InvalidId)
         \/ /\ pc[t] = "got" /\ pc'[t] = "run" /\ timing'[t] = timing[t]
            /\ held'[t] = Record(held[t], target[t].mu, target[t].id, MaxLocks)
         \/ /\ pc[t] = "try" /\ pc'[t] \in {"run", "got"}
            /\ timing'[t] = timing[t] /\ held'[t] = held[t]
         \/ /\ pc[t] \in {"unlock", "cnd_wait"} /\ pc'[t] = "run"
            /\ timing'[t] = timing[t] /\ held'[t] = held[t]
         \/ pc'[t] = "run" /\ held'[t] = <<>> /\ timing'[t] = "off"
         \/ Stands(t)
<1>1. /\ DOMAIN pc = Thread /\ DOMAIN target = Thread /\ DOMAIN timing = Thread /\ DOMAIN held = Thread
      /\ held[t] \in Seq(EntryType) /\ held'[t] \in Seq(EntryType)
  <2>1. held' \in [Thread -> Seq(EntryType)]
    BY DEF TypeInv, TypeOK, EntryType
  <2> QED BY <2>1, HeldType DEF TypeInv, TypeOK
<1>2. ASSUME NEW l \in Lock, BeforeLockIgnored(t, l)
      PROVE  /\ pc[t] = "run" /\ ignoreLock[t] > 0 /\ pc'[t] = "wait"
             /\ timing'[t] = timing[t] /\ held'[t] = held[t]
  BY <1>1, <1>2 DEF BeforeLockIgnored, Goto
<1>3. ASSUME NEW l \in Lock, BeforeLock(t, l)
      PROVE  /\ pc[t] = "run" /\ pc'[t] = "wait" /\ target'[t].id # InvalidId
             /\ held'[t] = held[t]
             /\ timing'[t] = IF held[t] = <<>> THEN "on" ELSE timing[t]
  <2>1. GetGraphId(l) # InvalidId
    BY DEF GetGraphId, InvalidId
  <2>2. held' = held /\ pc[t] = "run" /\ Goto(t, "wait", l, GetGraphId(l)) /\ StartTiming(t)
    BY <1>3 DEF BeforeLock
  <2> QED BY <1>1, <2>1, <2>2 DEF StartTiming, Goto
<1>4. ASSUME NEW l \in Lock, BeforeTryLock(t, l)
      PROVE  /\ "try" \in Ops /\ pc[t] = "run" /\ pc'[t] = "try"
             /\ held'[t] = held[t]
             /\ timing'[t] = IF held[t] = <<>> THEN "on" ELSE timing[t]
  BY <1>1, <1>4 DEF BeforeTryLock, StartTiming, Goto
<1>5. ASSUME NEW l \in Lock, AfterLock(t, l)
      PROVE  /\ pc[t] = "run" /\ pc'[t] = "unlock"
             /\ IF held'[t] = <<>> THEN timing'[t] = "off"
                ELSE timing'[t] = timing[t] /\ held[t] # <<>>
  <2>1. held'[t] = Release(held[t], GetGraphId(l))
    BY <1>1, <1>5 DEF AfterLock
  <2>2. Len(held'[t]) <= Len(held[t])
    BY <1>1, <2>1, ReleaseType
  <2>3. held[t] = <<>> => held'[t] = <<>>
    BY <1>1, <2>2, EmptyHistory
  <2>4. pc[t] = "run" /\ Goto(t, "unlock", l, InvalidId) /\ StopTiming(t)
    BY <1>5 DEF AfterLock
  <2> QED BY <1>1, <2>3, <2>4 DEF StopTiming, Goto
<1>6. ASSUME NEW l \in Lock, AfterLockIgnored(t, l)
      PROVE  pc[t] = "run" /\ pc'[t] = "unlock" /\ timing'[t] = timing[t] /\ held'[t] = held[t]
  BY <1>1, <1>6 DEF AfterLockIgnored, Goto
<1>7. ASSUME NEW l \in Lock, CndWait(t, l)
      PROVE  /\ "cnd_wait" \in Ops /\ pc[t] = "run" /\ pc'[t] = "cnd_wait"
             /\ timing'[t] = "never" /\ held'[t] = held[t]
  BY <1>1, <1>7 DEF CndWait, Goto
<1>8. ASSUME NEW l \in Lock, DeleteLock(t, l) PROVE Stands(t)
  BY <1>8 DEF DeleteLock, Stands
<1>9. ASSUME Enter(t)
      PROVE  /\ pc[t] = "wait" /\ timing'[t] = timing[t] /\ held'[t] = held[t]
             /\ pc'[t] = "got" \/ (pc'[t] = "run" /\ target[t].id = InvalidId)
  BY <1>1, <1>9 DEF Enter, Return, own
<1>10. ASSUME InLock(t)
       PROVE  /\ pc[t] = "got" /\ pc'[t] = "run" /\ timing'[t] = timing[t]
              /\ held'[t] = Record(held[t], target[t].mu, target[t].id, MaxLocks)
  BY <1>1, <1>10 DEF InLock, Return
<1>11. ASSUME TryEnter(t) \/ TryEnterFails(t)
       PROVE  pc[t] = "try" /\ pc'[t] \in {"run", "got"} /\ timing'[t] = timing[t] /\ held'[t] = held[t]
  BY <1>1, <1>11 DEF TryEnter, TryEnterFails, Return, own
<1>12. ASSUME Leave(t) \/ CndWake(t)
       PROVE  /\ pc[t] \in {"unlock", "cnd_wait"} /\ pc'[t] = "run"
              /\ timing'[t] = timing[t] /\ held'[t] = held[t]
  BY <1>1, <1>12 DEF Leave, CndWake, Return, own
<1>13. ASSUME IncreaseIgnoreCounter(t) PROVE Stands(t)
  BY <1>13 DEF IncreaseIgnoreCounter, program, Stands
<1>14. ASSUME ThreadExit(t) PROVE pc'[t] = "run" /\ held'[t] = <<>> /\ timing'[t] = "off"
  BY <1>1, <1>14 DEF ThreadExit, program
<1>15. CASE StepOf(t)
  <2> HIDE DEF Stands
  <2> QED BY <1>9, <1>10, <1>11, <1>12, <1>13, <1>14, <1>15 DEF StepOf
<1>16. ASSUME NEW l \in Lock, CallOf(t, l)
       PROVE  \/ BeforeLockIgnored(t, l) \/ BeforeLockFull(t, l) \/ BeforeLock(t, l)
              \/ BeforeTryLock(t, l) \/ AfterLock(t, l) \/ AfterLockIgnored(t, l)
              \/ CndWait(t, l) \/ DeleteLock(t, l)
  BY <1>16 DEF CallOf, LockCall, UnlockCall
<1>17. CASE \E l \in Lock : CallOf(t, l)
  BY <1>2, <1>3, <1>4, <1>5, <1>6, <1>7, <1>8, <1>16, <1>17
<1> QED BY <1>15, <1>17

\* A thread that goes for a lock, has just got one or has an entry is timed.
HoldersInv == \A t \in Thread :
  /\ pc[t] \in {"wait", "try", "got"} => timing[t] = "on"
  /\ held[t] # <<>> => timing[t] = "on"

LEMMA HoldersStep ==
  ASSUME Roomy, "cnd_wait" \notin Ops, HistoryInv, TypeInv', HoldersInv, [Next]_vars
  PROVE  HoldersInv'
<1>1. CASE UNCHANGED vars
  BY <1>1 DEF HoldersInv, vars, own, program
<1>2. ASSUME NEW t \in Thread, (\E l \in Lock : CallOf(t, l)) \/ StepOf(t)
      PROVE  HoldersInv'
  <2>0. TypeInv /\ ignoreLock[t] = 0
    BY DEF HistoryInv, Ledger, Ignored, Roomy
  <2>1. \A u \in Thread : u # t => Stands(u)
    BY <1>2, <2>0, OthersStand
  <2>2. \A l \in Lock : ~BeforeLockFull(t, l)
    BY NeverFull DEF BeforeLockFull, Roomy
  <2>3. /\ pc[t] \in {"wait", "try", "got"} => timing[t] = "on"
        /\ held[t] # <<>> => timing[t] = "on"
    BY DEF HoldersInv
  <2>4. /\ pc'[t] \in {"wait", "try", "got"} => timing'[t] = "on"
        /\ held'[t] # <<>> => timing'[t] = "on"
    BY <1>2, <2>0, <2>2, <2>3, TimeMoves DEF Stands
  <2> QED BY <2>1, <2>4 DEF HoldersInv, Stands
<1> QED BY <1>1, <1>2, NextMoves

LEMMA HoldersInvTimes ==
  ASSUME HistoryInv, Exact, HoldersInv
  PROVE  HoldersAreTimed
<1> SUFFICES ASSUME NEW t \in Thread, NEW l \in Keeps(t), pc[t] # "got" PROVE held[t] # <<>>
  BY DEF HoldersAreTimed, HoldersInv
<1>1. l \in Lock /\ owner[l] = t /\ (pc[t] = "unlock" /\ target[t].mu = l => depth[l] > 1)
  BY DEF Keeps, Owned
<1>2. TypeInv /\ Slack(t, l) = 0 /\ held[t] \in Seq(EntryType)
  BY <1>1, HeldType DEF HistoryInv, TypeInv, Exact
<1>3. /\ RecordedNow(t, l) \in Nat /\ Late(t, l) \in {-1, 0, 1}
      /\ Holds(t, l) \in Nat /\ Holds(t, l) >= 1 /\ Holds(t, l) = depth[l]
  BY <1>1, <1>2, SlackType DEF Holds
<1>4. Late(t, l) = 1 => Holds(t, l) > 1
  BY <1>1, <1>3 DEF Late
<1>5. RecordedNow(t, l) # 0
  BY <1>2, <1>3, <1>4 DEF Slack
<1>6. WithId(held[t], GetGraphId(l)) # {}
  BY <1>2, <1>5, CountType DEF RecordedNow
<1> QED BY <1>6 DEF WithId

\* In a program whose histories have room for its locks and which ignores none,
\* waits for no condition, but may try, re-enter, delete and misuse locks as it
\* likes, the watchdog's time runs for every thread that waits for a lock or keeps
\* one: the release that clears it is the last, whatever the order.
THEOREM HoldersStayTimed ==
  ASSUME Roomy, "cnd_wait" \notin Ops
  PROVE  Spec => []HoldersAreTimed
<1>1. Init => HoldersInv
  BY DEF Init, HoldersInv
<1>2. HistoryInv /\ TypeInv' /\ HoldersInv /\ [Next]_vars => HoldersInv'
  BY HoldersStep
<1>3. HistoryInv /\ Exact /\ HoldersInv => HoldersAreTimed
  BY HoldersInvTimes
<1> QED BY <1>1, <1>2, <1>3, RoomyIsExact, TypeInvHolds, PTL DEF Spec

\* A thread that is timed has an entry, or a lock that is going to have one.
IdlersInv == \A t \in Thread :
  /\ timing[t] = "on" => \/ held[t] # <<>> \/ pc[t] = "got"
                         \/ pc[t] = "wait" /\ target[t].id # InvalidId
  /\ pc[t] = "cnd_wait" => timing[t] = "never"

LEMMA IdlersStep ==
  ASSUME "try" \notin Ops, TypeInv, TypeInv', RoomInv, IdlersInv, [Next]_vars
  PROVE  IdlersInv'
<1>1. CASE UNCHANGED vars
  BY <1>1 DEF IdlersInv, vars, own, program
<1>2. ASSUME NEW t \in Thread, (\E l \in Lock : CallOf(t, l)) \/ StepOf(t)
      PROVE  IdlersInv'
  <2>1. \A u \in Thread : u # t => Stands(u)
    BY <1>2, OthersStand
  <2>2. \A l \in Lock : BeforeLockFull(t, l) =>
          /\ pc[t] = "run" /\ pc'[t] = "wait" /\ timing'[t] = timing[t] /\ held'[t] = held[t]
    BY DEF BeforeLockFull, Goto, TypeInv, TypeOK
  <2>3. pc[t] = "got" => Record(held[t], target[t].mu, target[t].id, MaxLocks) # <<>>
    <3> SUFFICES ASSUME pc[t] = "got" PROVE Record(held[t], target[t].mu, target[t].id, MaxLocks) # <<>>
      OBVIOUS
    <3>1. /\ held[t] \in Seq(EntryType) /\ Len(held[t]) \in Nat
          /\ target[t].mu \in Lock /\ target[t].id \in Id
      BY HeldType DEF TypeInv, Wrappers
    <3>2. Len(held[t]) < MaxLocks
      BY <3>1 DEF RoomInv, Id, InvalidId
    <3>3. MaxLocks \in Nat \ {0} /\ Len(held[t]) <= MaxLocks
      BY <3>1, <3>2
    <3> QED BY <3>1, <3>3, RecordNotEmpty
  <2>4. /\ pc[t] # "try"
        /\ timing[t] = "on" => \/ held[t] # <<>> \/ pc[t] = "got"
                               \/ pc[t] = "wait" /\ target[t].id # InvalidId
        /\ pc[t] = "cnd_wait" => timing[t] = "never"
    BY DEF RoomInv, IdlersInv
  <2>5. /\ timing'[t] = "on" => \/ held'[t] # <<>> \/ pc'[t] = "got"
                                \/ pc'[t] = "wait" /\ target'[t].id # InvalidId
        /\ pc'[t] = "cnd_wait" => timing'[t] = "never"
    BY <1>2, <2>2, <2>3, <2>4, TimeMoves DEF Stands
  <2> QED BY <2>1, <2>5 DEF IdlersInv, Stands
<1> QED BY <1>1, <1>2, NextMoves

LEMMA IdlersInvKeep ==
  ASSUME "misuse" \notin Ops, HistoryInv, IdlersInv
  PROVE  IdlersAreNotTimed
<1> SUFFICES ASSUME NEW t \in Thread, timing[t] = "on", pc[t] # "wait" PROVE Keeps(t) # {}
  BY DEF IdlersAreNotTimed
<1>0. TypeInv /\ Entries(t) /\ Fresh(t) /\ pc[t] # "cnd_wait" /\ (held[t] # <<>> \/ pc[t] = "got")
  BY DEF HistoryInv, Ledger, IdlersInv
<1>1. ASSUME NEW l \in Lock, RecordedNow(t, l) + Late(t, l) >= 1,
             pc[t] = "unlock" /\ target[t].mu = l => RecordedNow(t, l) + Late(t, l) >= 2
      PROVE  Keeps(t) # {}
  <2>1. /\ RecordedNow(t, l) \in Nat /\ Late(t, l) \in {-1, 0, 1} /\ Holds(t, l) \in Nat
        /\ Slack(t, l) >= 0
    BY <1>0, SlackType DEF HistoryInv, NeverAhead
  <2>2. /\ Holds(t, l) >= 1
        /\ pc[t] = "unlock" /\ target[t].mu = l => Holds(t, l) >= 2
    BY <1>1, <2>1 DEF Slack
  <2>3. owner[l] = t /\ Holds(t, l) = depth[l]
    BY <2>2 DEF Holds
  <2>4. l \in Keeps(t)
    BY <2>1, <2>2, <2>3 DEF Keeps, Owned
  <2> QED BY <2>4
<1>2. CASE pc[t] = "got"
  <2>1. PICK l \in Lock : l = target[t].mu
    BY <1>0, <1>2 DEF TypeInv, Wrappers
  <2>2. Late(t, l) = 1 /\ RecordedNow(t, l) \in Nat
    BY <1>0, <1>2, <2>1, SlackType DEF Late
  <2> QED BY <1>1, <1>2, <2>1, <2>2
<1>3. CASE held[t] # <<>> /\ pc[t] # "got"
  <2>1. held[t] \in Seq(EntryType)
    BY <1>0, HeldType DEF TypeInv
  <2>2. 1 \in DOMAIN held[t]
    BY <1>3, <2>1, EmptyHistory
  <2>3. PICK l \in Lock : RecordedNow(t, l) \in Nat \ {0}
    BY <1>0, <2>2, AliveEntry DEF Fresh
  <2>4. Late(t, l) \in {0, 1} /\ (pc[t] = "unlock" /\ target[t].mu = l => Late(t, l) = 1)
    BY <1>0 DEF Late, Fresh
  <2> QED BY <1>1, <2>3, <2>4
<1> QED BY <1>0, <1>2, <1>3

\* In a program that releases and deletes only what it may and takes no lock by a
\* try, the time runs for no other thread, whatever the limit, also when locks are
\* ignored or are let go of for a condition.
THEOREM IdlersStayUntimed ==
  ASSUME "misuse" \notin Ops, "try" \notin Ops
  PROVE  Spec => []IdlersAreNotTimed
<1>0. IgnoresWell
  BY DEF IgnoresWell
<1>1. Init => IdlersInv /\ RoomInv
  BY InitExact DEF Init, IdlersInv
<1>2. TypeInv /\ TypeInv' /\ RoomInv /\ IdlersInv /\ [Next]_vars => IdlersInv' /\ RoomInv'
  BY IdlersStep, RoomStep
<1>3. HistoryInv /\ IdlersInv => IdlersAreNotTimed
  BY IdlersInvKeep
<1> QED BY <1>0, <1>1, <1>2, <1>3, HistoryInvHolds, TypeInvHolds, PTL DEF Spec

-----------------------------------------------------------------------------
(* What the reports of potential deadlocks are worth: none is missing and  *)
(* none is made up.  The lock-order graph between the ids of now is        *)
(* compared with the history of waits, nested.                             *)

-----------------------------------------------------------------------------
(* Cycles in graphs.                                                       *)

\* More nodes without edges close no cycle.
LEMMA MoreNodes ==
  ASSUME NEW E, NEW N, NEW M, N \subseteq M, NEW a, NEW b, Reaches(E, M, a, b)
  PROVE  Reaches(E, N, a, b)
BY DEF Reaches

LEMMA AcyclicWithMoreNodes ==
  ASSUME NEW E, NEW N, NEW M, N \subseteq M, Acyclic(E, N)
  PROVE  Acyclic(E, M)
BY MoreNodes DEF Acyclic

LEMMA ReachesOn ==
  ASSUME NEW E, NEW N, NEW a, NEW e \in E, e[2] \in N, Reaches(E, N, a, e[1])
  PROVE  Reaches(E, N, a, e[2])
BY DEF Reaches, Closed

LEMMA ReachesAgain ==
  ASSUME NEW E, NEW N, NEW a, NEW b, NEW c, Reaches(E, N, a, b), Reaches(E, N, b, c)
  PROVE  Reaches(E, N, a, c)
BY DEF Reaches

\* Edges into a node from nodes it does not reach close no cycle.
LEMMA EdgesIntoNode ==
  ASSUME NEW E, NEW N, NEW F, NEW id \in N, Acyclic(E, N),
         \A e \in E : e[1] \in N /\ e[2] \in N,
         \A e \in F : e \in E \/ (e[1] \in N /\ e[2] = id /\ ~Reaches(E, N, id, e[1]))
  PROVE  Acyclic(F, N)
<1> DEFINE R == {n \in N : Reaches(E, N, id, n)}
<1>1. id \in R
  BY DEF Reaches
<1>2. \A e \in E : e[1] \in R => e[2] \in R
  BY ReachesOn
<1>3. \A e \in F : e \in E \/ (e[1] \in N /\ e[2] = id /\ e[1] \notin R)
  OBVIOUS
<1>4. R \in SUBSET N
  OBVIOUS
<1> HIDE DEF R
<1>5. Closed(F, R)
  BY <1>2, <1>3 DEF Closed
<1>6. ASSUME NEW e \in F, Reaches(F, N, e[2], e[1]) PROVE FALSE
  <2>1. CASE e \notin E
    BY <1>1, <1>3, <1>4, <1>5, <1>6, <2>1 DEF Reaches
  <2>2. CASE e \in E
    <3>1. PICK S \in SUBSET N : e[2] \in S /\ Closed(E, S) /\ e[1] \notin S
      BY <2>2 DEF Acyclic, Reaches
    <3>2. CASE e[1] \in R
      <4>1. R \cap S \in SUBSET N /\ e[2] \in R \cap S
        BY <1>2, <1>4, <2>2, <3>1, <3>2
      <4>2. Closed(F, R \cap S)
        BY <1>2, <1>3, <3>1 DEF Closed
      <4>3. e[1] \in R \cap S
        BY <1>6, <4>1, <4>2 DEF Reaches
      <4> QED BY <3>1, <4>3
    <3>3. CASE e[1] \notin R
      <4>1. R \cup S \in SUBSET N /\ e[2] \in R \cup S
        BY <1>4, <3>1
      <4>2. Closed(F, R \cup S)
        BY <1>1, <1>2, <1>3, <3>1 DEF Closed
      <4>3. e[1] \in R \cup S
        BY <1>6, <4>1, <4>2 DEF Reaches
      <4> QED BY <3>1, <3>3, <4>3
    <3> QED BY <3>2, <3>3
  <2> QED BY <2>1, <2>2
<1> QED BY <1>6 DEF Acyclic

\* A finite set from each of whose nodes an edge leads into the set has a cycle.
LEMMA NoWayOut ==
  ASSUME NEW E, NEW N, NEW W, W \subseteq N, IsFiniteSet(W), W # {},
         \A a \in W : \E b \in W : <<a, b>> \in E
  PROVE  ~Acyclic(E, N)
<1> SUFFICES ASSUME Acyclic(E, N) PROVE FALSE
  OBVIOUS
<1> DEFINE R(a) == {n \in W : Reaches(E, N, a, n)}
           Sizes == {Cardinality(R(a)) : a \in W}
<1>1. \A a \in W : R(a) \in SUBSET W
  OBVIOUS
<1>2. \A a \in W : IsFiniteSet(R(a)) /\ Cardinality(R(a)) \in Nat
  BY <1>1, FS_Subset, FS_CardinalityType
<1>3. Sizes \subseteq Nat /\ Sizes # {}
  BY <1>2
<1>4. PICK m \in Sizes : \A k \in Sizes : m <= k
  BY <1>3, FirstIsLeast
<1>5. PICK a \in W : m = Cardinality(R(a))
  BY <1>4
<1>6. PICK b \in W : <<a, b>> \in E
  OBVIOUS
<1>7. Reaches(E, N, a, b) /\ ~Reaches(E, N, b, a) /\ Reaches(E, N, a, a)
  BY <1>6 DEF Acyclic, Reaches, Closed
<1>8. R(b) \subseteq R(a)
  BY <1>7, ReachesAgain
<1>9. a \in R(a) /\ a \notin R(b)
  BY <1>7
<1>10. Cardinality(R(a)) <= Cardinality(R(b))
  BY <1>4, <1>5, <1>6
<1> HIDE DEF R
<1>11. Cardinality(R(b)) <= Cardinality(R(a)) /\ (Cardinality(R(a)) = Cardinality(R(b)) => R(a) = R(b))
  BY <1>2, <1>8, FS_Subset
<1>12. Cardinality(R(a)) = Cardinality(R(b))
  BY <1>2, <1>10, <1>11
<1> QED BY <1>9, <1>11, <1>12

-----------------------------------------------------------------------------
(* The history of waits.                                                   *)

\* What the calls do to the graph and to the waits.
LEMMA NestMoves ==
  ASSUME NEW t \in Thread, (\E l \in Lock : CallOf(t, l)) \/ StepOf(t)
  PROVE  \/ UNCHANGED <<graph, nested, potential_deadlocks_found>>
         \/ \E l \in Lock : GetId(t, l) /\ UNCHANGED <<order, nested, potential_deadlocks_found>>
         \/ \E l \in Lock : BeforeLockIgnored(t, l) \/ BeforeLockFull(t, l)
         \/ \E l \in Lock : BeforeLock(t, l)
         \/ \E l \in Lock : DeleteLock(t, l)
<1>1. ASSUME NEW l \in Lock, CallOf(t, l)
      PROVE  \/ UNCHANGED <<graph, nested, potential_deadlocks_found>>
             \/ (GetId(t, l) /\ UNCHANGED <<order, nested, potential_deadlocks_found>>)
             \/ BeforeLockIgnored(t, l) \/ BeforeLockFull(t, l) \/ BeforeLock(t, l) \/ DeleteLock(t, l)
  <2>1. AfterLockIgnored(t, l) \/ CndWait(t, l) => UNCHANGED <<graph, nested, potential_deadlocks_found>>
    BY DEF AfterLockIgnored, CndWait, errors
  <2>2. AfterLock(t, l) \/ BeforeTryLock(t, l)
          => GetId(t, l) /\ UNCHANGED <<order, nested, potential_deadlocks_found>>
    BY DEF AfterLock, BeforeTryLock, errors
  <2> QED BY <1>1, <2>1, <2>2 DEF CallOf, LockCall, UnlockCall
<1>2. ASSUME StepOf(t) PROVE UNCHANGED <<graph, nested, potential_deadlocks_found>>
  <2>1. Enter(t) \/ TryEnter(t) \/ TryEnterFails(t) \/ Leave(t) \/ CndWake(t)
          => UNCHANGED <<graph, nested, potential_deadlocks_found>>
    BY DEF Enter, TryEnter, TryEnterFails, Leave, CndWake, errors
  <2>2. InLock(t) \/ ThreadExit(t) \/ IncreaseIgnoreCounter(t)
          => UNCHANGED <<graph, nested, potential_deadlocks_found>>
    BY DEF InLock, ThreadExit, IncreaseIgnoreCounter, errors, program
  <2> QED BY <1>2, <2>1, <2>2 DEF StepOf
<1> QED BY <1>1, <1>2

\* What the calls do to the locks a thread owns: another thread's call gives it
\* none and takes none it waits for.
LEMMA OwnerMoves ==
  ASSUME TypeInv, NEW t \in Thread, NEW u \in Thread, u # t,
         (\E l \in Lock : CallOf(t, l)) \/ StepOf(t)
  PROVE  /\ \A k \in Lock : owner'[k] = u => owner[k] = u
         /\ \A k \in Lock : k = target[u].mu => (owner'[k] = u <=> owner[k] = u)
<1>0. owner \in [Lock -> Thread \cup {NoThread}] /\ u # NoThread
  BY DEF TypeInv, TypeOK
<1>1. ASSUME NEW l \in Lock, CallOf(t, l)
      PROVE  \/ owner' = owner
             \/ owner' = [owner EXCEPT ![l] = NoThread] /\ (owner[l] = t \/ target[u].mu # l)
  <2>1. LockCall(t, l) => owner' = owner
    BY DEF LockCall, BeforeLockIgnored, BeforeLockFull, BeforeLock
  <2>2. UnlockCall(t, l) \/ BeforeTryLock(t, l) => owner' = owner
    BY DEF UnlockCall, AfterLockIgnored, AfterLock, BeforeTryLock
  <2>3. DeleteLock(t, l) => owner' = [owner EXCEPT ![l] = NoThread] /\ target[u].mu # l
    BY DEF DeleteLock
  <2>4. CndWait(t, l) => owner' = [owner EXCEPT ![l] = NoThread] /\ owner[l] = t
    BY DEF CndWait, Owned
  <2> QED BY <1>1, <2>1, <2>2, <2>3, <2>4 DEF CallOf
<1>2. ASSUME StepOf(t)
      PROVE  \/ owner' = owner
             \/ \E l \in Lock : /\ owner[l] \in {t, NoThread}
                                /\ \E o \in {t, NoThread} : owner' = [owner EXCEPT ![l] = o]
  <2>1. ASSUME Enter(t) \/ TryEnter(t) \/ CndWake(t)
        PROVE  \E l \in Lock : owner[l] \in {t, NoThread} /\ owner' = [owner EXCEPT ![l] = t]
    <3>1. target[t].mu \in Lock /\ Free(t, target[t].mu) /\ Grab(t, target[t].mu)
      BY <2>1 DEF Enter, TryEnter, CndWake, TypeInv, Wrappers
    <3> QED BY <3>1 DEF Free, Grab
  <2>2. ASSUME Leave(t)
        PROVE  \/ owner' = owner
               \/ \E l \in Lock : owner[l] = t /\ owner' = [owner EXCEPT ![l] = NoThread]
    <3>1. target[t].mu \in Lock
      BY <2>2 DEF Leave, TypeInv, Wrappers
    <3> QED BY <2>2, <3>1 DEF Leave
  <2>3. TryEnterFails(t) \/ InLock(t) \/ ThreadExit(t) \/ IncreaseIgnoreCounter(t) => owner' = owner
    BY DEF TryEnterFails, InLock, ThreadExit, IncreaseIgnoreCounter, program
  <2>4. CASE Enter(t) \/ TryEnter(t) \/ CndWake(t)
    BY <2>1, <2>4
  <2>5. CASE Leave(t)
    BY <2>2, <2>5
  <2> QED BY <1>2, <2>3, <2>4, <2>5 DEF StepOf
<1>3. \/ owner' = owner
      \/ \E l \in Lock : /\ owner[l] \in {t, NoThread} \/ target[u].mu # l
                         /\ \E o \in {t, NoThread} : owner' = [owner EXCEPT ![l] = o]
  BY <1>1, <1>2
<1> QED BY <1>0, <1>3

\* A thread that waits for a lock it does not own went for it with all the locks
\* that it owns.
WaitNested == \A t \in Thread :
  pc[t] = "wait" /\ owner[target[t].mu] # t =>
    \A h \in Lock : owner[h] = t => <<h, target[t].mu>> \in nested

LEMMA WaitNestedStep ==
  ASSUME TypeInv, WaitNested, [Next]_vars
  PROVE  WaitNested'
<1>1. CASE UNCHANGED vars
  BY <1>1 DEF WaitNested, vars, program
<1>2. ASSUME NEW t \in Thread, (\E l \in Lock : CallOf(t, l)) \/ StepOf(t)
      PROVE  WaitNested'
  <2>0. DOMAIN pc = Thread /\ DOMAIN target = Thread
    BY DEF TypeInv, TypeOK
  <2>1. ASSUME NEW u \in Thread, u # t, pc'[u] = "wait", owner'[target'[u].mu] # u,
               NEW h \in Lock, owner'[h] = u
        PROVE  <<h, target'[u].mu>> \in nested'
    <3>1. pc[u] = "wait" /\ target'[u] = target[u]
      BY <1>2, <2>1, OthersStand DEF Stands
    <3>k. PICK k : k = target[u].mu
      OBVIOUS
    <3>2. k \in Lock
      BY <3>1, <3>k DEF TypeInv, Wrappers
    <3>3. owner[h] = u /\ owner[k] # u
      BY <1>2, <2>1, <3>1, <3>2, <3>k, OwnerMoves
    <3>4. <<h, k>> \in nested
      BY <3>1, <3>3, <3>k DEF WaitNested
    <3>5. nested \subseteq nested' \/ \E l \in Lock : DeleteLock(t, l)
      <4>1. ASSUME NEW l \in Lock, BeforeLockIgnored(t, l) \/ BeforeLockFull(t, l) \/ BeforeLock(t, l)
            PROVE  nested \subseteq nested'
        <5>1. Nest(t, l)
          BY <4>1 DEF BeforeLockIgnored, BeforeLockFull, BeforeLock
        <5> QED BY <5>1 DEF Nest
      <4> QED BY <1>2, <4>1, NestMoves
    <3>6. ASSUME NEW l \in Lock, DeleteLock(t, l) PROVE <<h, k>> \in nested'
      <4>1. k # l
        BY <3>6, <3>k DEF DeleteLock
      <4>2. owner' = [owner EXCEPT ![l] = NoThread] /\ nested' = {e \in nested : l \notin {e[1], e[2]}}
        BY <3>6 DEF DeleteLock
      <4>3. h # l
        BY <2>1, <4>2 DEF TypeInv, TypeOK
      <4> QED BY <3>4, <4>1, <4>2, <4>3
    <3> QED BY <3>1, <3>4, <3>5, <3>6, <3>k
  <2>2. ASSUME pc'[t] = "wait", owner'[target'[t].mu] # t, NEW h \in Lock, owner'[h] = t
        PROVE  <<h, target'[t].mu>> \in nested'
    <3>1. ASSUME NEW l \in Lock, LockCall(t, l) PROVE <<h, target'[t].mu>> \in nested'
      <4>1. Nest(t, l) /\ owner' = owner /\ \E x : Goto(t, "wait", l, x)
        BY <3>1 DEF LockCall, BeforeLockIgnored, BeforeLockFull, BeforeLock
      <4>2. target'[t].mu = l
        BY <2>0, <4>1 DEF Goto
      <4> QED BY <2>2, <4>1, <4>2 DEF Nest, Owned
    <3>2. ASSUME NEW l \in Lock, CallOf(t, l), ~LockCall(t, l) PROVE FALSE
      <4>1. UnlockCall(t, l) \/ CndWait(t, l) \/ BeforeTryLock(t, l) => pc'[t] # "wait"
        BY <2>0 DEF UnlockCall, AfterLockIgnored, AfterLock, CndWait, BeforeTryLock, Goto
      <4>2. DeleteLock(t, l) => pc'[t] # "wait"
        BY DEF DeleteLock
      <4> QED BY <2>2, <3>2, <4>1, <4>2 DEF CallOf
    <3>3. ASSUME StepOf(t) PROVE FALSE
      <4>1. Enter(t) \/ TryEnter(t) => pc'[t] # "wait"
        BY <2>0 DEF Enter, TryEnter, Return
      <4>2. TryEnterFails(t) \/ InLock(t) \/ Leave(t) \/ CndWake(t) => pc'[t] # "wait"
        BY <2>0 DEF TryEnterFails, InLock, Leave, CndWake, Return
      <4>3. IncreaseIgnoreCounter(t) \/ ThreadExit(t) => pc'[t] # "wait"
        BY DEF IncreaseIgnoreCounter, ThreadExit, program
      <4> QED BY <2>2, <3>3, <4>1, <4>2, <4>3 DEF StepOf
    <3> QED BY <1>2, <3>1, <3>2, <3>3
  <2> QED BY <2>1, <2>2 DEF WaitNested
<1> QED BY <1>1, <1>2, NextMoves

LEMMA WaitNestedHolds == Spec => []WaitNested
<1>1. Init => WaitNested
  BY DEF Init, WaitNested
<1>2. TypeInv /\ WaitNested /\ [Next]_vars => WaitNested'
  BY WaitNestedStep
<1> QED BY <1>1, <1>2, TypeInvHolds, PTL DEF Spec

\* A deadlock is a cycle of waits.
LEMMA DeadlockIsCycle ==
  ASSUME TypeInv, WaitNested, IsFiniteSet(Thread), NEW T \in SUBSET Thread, Deadlocked(T)
  PROVE  ~Acyclic(nested, Lock)
<1> DEFINE W == {target[t].mu : t \in T}
           f == [t \in T |-> target[t].mu]
<1>1. \A t \in T : /\ t \in Thread /\ pc[t] = "wait" /\ target[t].mu \in Lock
                   /\ owner[target[t].mu] \in T /\ owner[target[t].mu] # t
  BY DEF Deadlocked, TypeInv, Wrappers
<1>2. IsFiniteSet(T)
  BY FS_Subset
<1>3. f \in Surjection(T, W)
  BY DEF Surjection
<1>4. IsFiniteSet(W)
  BY <1>2, <1>3, FS_Surjection
<1>5. W \subseteq Lock /\ W # {}
  BY <1>1 DEF Deadlocked
<1>6. ASSUME NEW a \in W PROVE \E b \in W : <<a, b>> \in nested
  <2>1. PICK t \in T : a = target[t].mu
    OBVIOUS
  <2>2. PICK u \in T : u = owner[a]
    BY <1>1, <2>1
  <2>3. a \in Lock /\ owner[a] = u /\ u \in Thread /\ pc[u] = "wait" /\ owner[target[u].mu] # u
    BY <1>1, <2>1, <2>2
  <2>4. <<a, target[u].mu>> \in nested
    BY <2>3 DEF WaitNested
  <2> QED BY <2>4
<1> HIDE DEF W, f
<1> QED BY <1>4, <1>5, <1>6, NoWayOut

-----------------------------------------------------------------------------
(* No report is made up.                                                   *)

\* An edge stands for a wait.
EdgesAreWaits == \A e \in order : <<e[1][1], e[2][1]>> \in nested

\* The locks of which a thread's history holds a living entry are its own.
LEMMA HeldIsOwned ==
  ASSUME HistoryInv, NEW t \in Thread, pc[t] = "run", NEW i \in DOMAIN held[t], Alive(held[t][i].id)
  PROVE  /\ held[t][i].mu \in Lock /\ owner[held[t][i].mu] = t
         /\ held[t][i].id = <<held[t][i].mu, gen[held[t][i].mu]>>
<1>1. Entries(t) /\ TypeInv
  BY DEF HistoryInv, Ledger
<1>2. /\ held[t][i].mu \in Lock /\ held[t][i].id = GetGraphId(held[t][i].mu)
      /\ RecordedNow(t, held[t][i].mu) # 0
  BY <1>1, AliveEntry
<1>3. owner[held[t][i].mu] = t
  BY <1>2, NoneOwnedNoneRecorded DEF Late
<1>4. held[t][i].mu \in nodes
  BY <1>1 DEF Entries, Alive
<1> QED BY <1>2, <1>3, <1>4 DEF GetGraphId

\* What a lock call adds to the waits, and what of the graph's new edges they cover.
LEMMA NewEdgesAreWaits ==
  ASSUME HistoryInv, EdgesAreWaits, "reenter" \notin Ops,
         NEW t \in Thread, NEW l \in Lock, BeforeLock(t, l)
  PROVE  /\ nested \subseteq nested' /\ EdgesAreWaits'
         /\ \A i \in DOMAIN held[t] : Alive(held[t][i].id) => <<held[t][i].mu, l>> \in nested'
<1>1. pc[t] = "run" /\ owner[l] # t
  BY DEF BeforeLock, MayEnter, Owned
<1>2. nested' = nested \cup (Owned(t) \X {l})
  BY <1>1 DEF BeforeLock, Nest, Owned
<1>3. ASSUME NEW i \in DOMAIN held[t], Alive(held[t][i].id)
      PROVE  <<held[t][i].mu, l>> \in nested' /\ held[t][i].id[1] = held[t][i].mu
  BY <1>1, <1>2, <1>3, HeldIsOwned DEF Owned
<1>4. \A e \in order' : \/ e \in order
                        \/ \E i \in DOMAIN held[t] : /\ e = <<held[t][i].id, GetGraphId(l)>>
                                                     /\ Alive(held[t][i].id)
  BY DEF BeforeLock, NewEdges, Passed
<1>5. GetGraphId(l)[1] = l
  BY DEF GetGraphId
<1>6. EdgesAreWaits'
  <2> SUFFICES ASSUME NEW e \in order' PROVE <<e[1][1], e[2][1]>> \in nested'
    BY DEF EdgesAreWaits
  <2>1. CASE e \in order
    BY <1>2, <2>1 DEF EdgesAreWaits
  <2>2. ASSUME NEW i \in DOMAIN held[t], e = <<held[t][i].id, GetGraphId(l)>>, Alive(held[t][i].id)
        PROVE  <<e[1][1], e[2][1]>> \in nested'
    <3>1. e[1][1] = held[t][i].mu /\ e[2][1] = l
      BY <1>3, <1>5, <2>2
    <3> QED BY <1>3, <2>2, <3>1
  <2> QED BY <1>4, <2>1, <2>2
<1> QED BY <1>2, <1>3, <1>6

LEMMA EdgesAreWaitsStep ==
  ASSUME HistoryInv, EdgesAreWaits, "reenter" \notin Ops, [Next]_vars
  PROVE  EdgesAreWaits'
<1>1. CASE UNCHANGED vars
  BY <1>1 DEF EdgesAreWaits, vars, graph, program
<1>2. CASE UNCHANGED <<graph, nested>> \/ UNCHANGED <<order, nested>>
  BY <1>2 DEF EdgesAreWaits, graph
<1>3. ASSUME NEW t \in Thread, NEW l \in Lock, BeforeLockIgnored(t, l) \/ BeforeLockFull(t, l)
      PROVE  EdgesAreWaits'
  <2>1. order' = order /\ Nest(t, l)
    BY <1>3 DEF BeforeLockIgnored, BeforeLockFull, graph
  <2> QED BY <2>1 DEF Nest, EdgesAreWaits
<1>4. ASSUME NEW t \in Thread, NEW l \in Lock, DeleteLock(t, l) PROVE EdgesAreWaits'
  BY <1>4 DEF DeleteLock, EdgesAreWaits
<1> QED BY <1>1, <1>2, <1>3, <1>4, NewEdgesAreWaits, NestMoves, NextMoves

\* A path in the graph is a path of waits.
LEMMA PathIsWaits ==
  ASSUME TypeOK, GraphInv, EdgesAreWaits, NEW E, nested \subseteq E,
         NEW id, NEW b, b[1] \in Lock, b \in Live, id[1] \in Lock,
         Reaches(order, Live \cup {id}, id, b)
  PROVE  Reaches(E, Lock, id[1], b[1])
<1> SUFFICES ASSUME NEW S \in SUBSET Lock, id[1] \in S, Closed(E, S)
             PROVE  b[1] \in S
  BY DEF Reaches
<1> DEFINE T == {x \in Live \cup {id} : x[1] \in S}
<1>1. ASSUME NEW e \in order, e[1] \in T PROVE e[2] \in T
  <2>1. <<e[1][1], e[2][1]>> \in E
    BY DEF EdgesAreWaits
  <2>2. e[2][1] \in S
    BY <1>1, <2>1 DEF Closed
  <2>3. e \in Id \X Id /\ Alive(e[2])
    BY DEF TypeOK, GraphInv
  <2>4. e[2] \in Live
    BY <2>3 DEF Alive, Live, Id
  <2> QED BY <2>2, <2>4
<1>2. b \in T
  <2>1. T \in SUBSET (Live \cup {id}) /\ id \in T /\ Closed(order, T)
    BY <1>1 DEF Closed
  <2> HIDE DEF T
  <2> QED BY <2>1 DEF Reaches
<1> QED BY <1>2

LEMMA ReportIsReal ==
  ASSUME HistoryInv, GraphInv, EdgesAreWaits, "reenter" \notin Ops, [Next]_vars,
         potential_deadlocks_found', ~potential_deadlocks_found
  PROVE  ~Acyclic(nested', Lock)
<1>0. TypeOK
  BY DEF HistoryInv, TypeInv
<1>1. PICK t \in Thread, l \in Lock : BeforeLock(t, l)
  <2>1. ~(UNCHANGED vars)
    BY DEF vars, errors
  <2>2. ASSUME NEW t \in Thread, NEW l \in Lock,
               BeforeLockIgnored(t, l) \/ BeforeLockFull(t, l) \/ DeleteLock(t, l)
        PROVE  FALSE
    BY <2>2 DEF BeforeLockIgnored, BeforeLockFull, DeleteLock, errors
  <2> QED BY <2>1, <2>2, NestMoves, NextMoves
<1>2. PICK id : id = GetGraphId(l)
  OBVIOUS
<1>3. ClosesCycle(held[t], id)
  BY <1>1, <1>2 DEF BeforeLock
<1>4. PICK i \in DOMAIN held[t] : StopsAt(held[t], i, id)
  BY <1>3 DEF ClosesCycle
<1>5. Alive(held[t][i].id) /\ Reaches(order, Live \cup {id}, id, held[t][i].id)
  BY <1>4 DEF StopsAt
<1>6. /\ held[t][i].mu \in Lock /\ held[t][i].id = <<held[t][i].mu, gen[held[t][i].mu]>>
      /\ held[t][i].mu \in nodes
  BY <1>1, <1>5, HeldIsOwned DEF BeforeLock, Alive
<1>7. nested \subseteq nested' /\ <<held[t][i].mu, l>> \in nested'
  BY <1>1, <1>5, NewEdgesAreWaits
<1>8. id[1] = l /\ held[t][i].id \in Live /\ held[t][i].id[1] = held[t][i].mu
  BY <1>2, <1>6 DEF GetGraphId, Live
<1>9. Reaches(nested', Lock, l, held[t][i].mu)
  BY <1>0, <1>5, <1>6, <1>7, <1>8, PathIsWaits
<1>10. PICK e : e = <<held[t][i].mu, l>>
  OBVIOUS
<1> QED BY <1>7, <1>9, <1>10 DEF Acyclic

\* A report comes with a cycle of locks, each waited for by a thread that held
\* the one before, in programs that re-enter no lock: InsertEdge refuses an edge
\* only for a path that threads made.
THEOREM ReportsAreNotMadeUp ==
  ASSUME "reenter" \notin Ops, IgnoresWell
  PROVE  Spec => ReportsAreReal
<1>1. Init => EdgesAreWaits
  BY DEF Init, EdgesAreWaits
<1>2. HistoryInv /\ EdgesAreWaits /\ [Next]_vars => EdgesAreWaits'
  BY EdgesAreWaitsStep
<1>3. HistoryInv /\ GraphInv /\ EdgesAreWaits /\ [Next]_vars =>
        [potential_deadlocks_found' /\ ~potential_deadlocks_found => ~Acyclic(nested', Lock)]_vars
  BY ReportIsReal
<1> QED BY <1>1, <1>2, <1>3, HistoryInvHolds, GraphInvHolds, PTL DEF Spec, ReportsAreReal

-----------------------------------------------------------------------------
(* No report is missing.                                                   *)

\* The graph has no cycle, and it has every wait.
CycleFree == /\ Acyclic(order, Live)
             /\ \A e \in nested : \E d \in order : d[1][1] = e[1] /\ d[2][1] = e[2]

CyclesInv == other_errors_found \/ potential_deadlocks_found \/ CycleFree

\* The ends of an edge are the ids that their locks have now.
LEMMA EdgeEnds ==
  ASSUME TypeOK, GraphInv, NEW d \in order
  PROVE  /\ d[1][1] \in nodes /\ d[1] = <<d[1][1], gen[d[1][1]]>> /\ d[1] \in Live
         /\ d[2][1] \in nodes /\ d[2] = <<d[2][1], gen[d[2][1]]>> /\ d[2] \in Live
<1>1. d \in Id \X Id /\ Alive(d[1]) /\ Alive(d[2])
  BY DEF TypeOK, GraphInv
<1> QED BY <1>1 DEF Alive, Live, Id

\* Then the waits have no cycle either.
LEMMA NoCycleOfWaits ==
  ASSUME TypeOK, GraphInv, CycleFree
  PROVE  Acyclic(nested, Lock)
<1> SUFFICES ASSUME NEW e \in nested, Reaches(nested, Lock, e[2], e[1]) PROVE FALSE
  BY DEF Acyclic
<1>1. PICK d \in order : d[1][1] = e[1] /\ d[2][1] = e[2]
  BY DEF CycleFree
<1>2. PICK S \in SUBSET Live : d[2] \in S /\ Closed(order, S) /\ d[1] \notin S
  BY <1>1 DEF CycleFree, Acyclic, Reaches
<1> DEFINE T == {s[1] : s \in S}
<1>3. T \in SUBSET Lock /\ e[2] \in T
  BY <1>1, <1>2 DEF Live, TypeOK
<1>4. ASSUME NEW c \in nested, c[1] \in T PROVE c[2] \in T
  <2>1. PICK s \in S : s[1] = c[1]
    BY <1>4
  <2>2. PICK b \in order : b[1][1] = c[1] /\ b[2][1] = c[2]
    BY DEF CycleFree
  <2>3. s = <<s[1], gen[s[1]]>>
    BY <1>2 DEF Live
  <2>4. b[1] = s
    BY <2>1, <2>2, <2>3, EdgeEnds
  <2>5. b[2] \in S
    BY <1>2, <2>4 DEF Closed
  <2> QED BY <2>2, <2>5
<1>5. Closed(nested, T)
  BY <1>4 DEF Closed
<1>6. e[1] \in T
  BY <1>3, <1>5 DEF Reaches
<1>7. PICK s \in S : s[1] = e[1]
  BY <1>6
<1>8. s = <<s[1], gen[s[1]]>>
  BY <1>2 DEF Live
<1>9. d[1] = s
  BY <1>1, <1>7, <1>8, EdgeEnds
<1> QED BY <1>2, <1>9

\* A lock that a thread owns has a living entry in its history, when that is exact.
LEMMA OwnedIsHeld ==
  ASSUME HistoryInv, Exact, NEW t \in Thread, pc[t] = "run", NEW l \in Lock, owner[l] = t
  PROVE  \E i \in DOMAIN held[t] : held[t][i].id = <<l, gen[l]>> /\ Alive(held[t][i].id)
<1>1. TypeInv /\ Entries(t) /\ held[t] \in Seq(EntryType)
  BY HeldType DEF HistoryInv, Ledger, TypeInv
<1>2. RecordedNow(t, l) # 0
  <2>1. Late(t, l) = 0
    BY DEF Late
  <2>2. Slack(t, l) = 0 /\ Holds(t, l) >= 1 /\ Holds(t, l) \in Nat /\ RecordedNow(t, l) \in Nat
    BY <1>1, SlackType DEF Exact
  <2> QED BY <2>1, <2>2 DEF Slack
<1>3. PICK i \in DOMAIN held[t] : held[t][i].id = GetGraphId(l)
  BY <1>1, <1>2, CountType DEF RecordedNow, WithId
<1>4. GetGraphId(l)[1] = l /\ gen[l] \in Nat
  BY <1>1 DEF GetGraphId, TypeInv, TypeOK, Gen
<1>5. GetGraphId(l)[2] <= gen[l]
  BY <1>1, <1>3, <1>4 DEF Entries
<1>6. l \in nodes
  BY <1>4, <1>5 DEF GetGraphId
<1> QED BY <1>3, <1>6 DEF GetGraphId, Alive

\* When no cycle is reported, the loop over a history gets to its end.
LEMMA LoopPasses ==
  ASSUME NEW h \in Seq(EntryType), NEW id, ~ClosesCycle(h, id), \A i \in DOMAIN h : h[i].id # id
  PROVE  Passed(h, id) = DOMAIN h
<1> DEFINE Stops == {i \in DOMAIN h : StopsAt(h, i, id)}
<1>0. DOMAIN h = 1 .. Len(h) /\ Len(h) \in Nat
  OBVIOUS
<1>1. CASE Stops # {}
  <2>0. Stops \subseteq Nat
    BY <1>0
  <2>1. PICK i \in Stops : \A j \in Stops : i <= j
    BY <1>1, <2>0, FirstIsLeast
  <2>2. \A j \in 1 .. i - 1 : ~StopsAt(h, j, id)
    BY <1>0, <2>1
  <2> QED BY <2>1, <2>2 DEF ClosesCycle
<1>2. CASE Stops = {}
  <2>1. \A i \in DOMAIN h : \A j \in 1 .. i : j \in DOMAIN h
    BY <1>0
  <2> QED BY <1>2, <2>1 DEF Passed
<1> QED BY <1>1, <1>2

\* A monitored lock call that reports nothing keeps the graph free of cycles and
\* gives it the new waits.
LEMMA SilentLockCall ==
  ASSUME HistoryInv, GraphInv, Exact, CycleFree, NEW t \in Thread, NEW l \in Lock, BeforeLock(t, l),
         ~ClosesCycle(held[t], GetGraphId(l))
  PROVE  CycleFree'
<1>h. PICK h : h = held[t]
  OBVIOUS
<1>i. PICK id : id = GetGraphId(l)
  OBVIOUS
<1>0. /\ TypeOK /\ TypeInv /\ h \in Seq(EntryType) /\ pc[t] = "run" /\ id[1] = l
      /\ order' = order \cup NewEdges(h, id) /\ ~ClosesCycle(h, id)
  BY <1>h, <1>i, HeldType DEF HistoryInv, TypeInv, BeforeLock, GetGraphId
<1>1. IdsKept /\ nodes' = nodes \cup {l} /\ id = <<l, gen'[l]>>
  BY <1>0, <1>i, AllocateKeepsIds DEF BeforeLock, GetIdAndTrace, Allocate
<1>2. Live' = Live \cup {id}
  <2>1. \A k \in nodes : k \in Lock /\ gen'[k] = gen[k]
    BY <1>0, <1>1 DEF IdsKept, TypeOK
  <2> QED BY <1>1, <2>1 DEF Live
<1>3. Acyclic(order', Live')
  <2>1. Acyclic(order, Live \cup {id})
    BY AcyclicWithMoreNodes DEF CycleFree
  <2>2. \A e \in order : e[1] \in Live \cup {id} /\ e[2] \in Live \cup {id}
    BY <1>0, EdgeEnds
  <2>3. ASSUME NEW e \in NewEdges(h, id)
        PROVE  e[1] \in Live \cup {id} /\ e[2] = id /\ ~Reaches(order, Live \cup {id}, id, e[1])
    <3>1. PICK i \in Passed(h, id) : e = <<h[i].id, id>> /\ Alive(h[i].id)
      BY DEF NewEdges
    <3>2. i \in DOMAIN h /\ i \in 1 .. i /\ \A j \in 1 .. i : ~StopsAt(h, j, id)
      BY <1>0, <3>1 DEF Passed
    <3>3. ~Reaches(order, Live \cup {id}, id, h[i].id)
      BY <3>1, <3>2 DEF StopsAt
    <3>4. h[i].id \in Live
      BY <1>0, <1>h, <3>1, <3>2, HeldIsOwned DEF Alive, Live
    <3> QED BY <3>1, <3>3, <3>4
  <2>4. \A e \in order' : e \in order \/ (e[1] \in Live \cup {id} /\ e[2] = id
                                          /\ ~Reaches(order, Live \cup {id}, id, e[1]))
    BY <1>0, <2>3
  <2> QED BY <1>2, <2>1, <2>2, <2>4, EdgesIntoNode
<1>4. ASSUME NEW e \in nested' PROVE \E d \in order' : d[1][1] = e[1] /\ d[2][1] = e[2]
  <2>1. CASE e \in nested
    BY <1>0, <2>1 DEF CycleFree
  <2>2. CASE e \notin nested
    <3>1. owner[l] # t /\ e \in Owned(t) \X {l}
      BY <2>2 DEF BeforeLock, Nest, Owned
    <3>2. e[1] \in Lock /\ owner[e[1]] = t /\ e[2] = l
      BY <3>1 DEF Owned
    <3>3. PICK i \in DOMAIN h : h[i].id = <<e[1], gen[e[1]]>> /\ Alive(h[i].id)
      BY <1>0, <1>h, <3>2, OwnedIsHeld
    <3>4. \A j \in DOMAIN h : h[j].id # id
      <4> SUFFICES ASSUME NEW j \in DOMAIN h, h[j].id = id PROVE FALSE
        OBVIOUS
      <4>1. WithId(held[t], id) # {}
        BY <1>h DEF WithId
      <4>2. RecordedNow(t, l) # 0
        BY <1>0, <1>h, <1>i, <4>1, CountType DEF RecordedNow
      <4> QED BY <1>0, <3>1, <4>2, NoneOwnedNoneRecorded DEF Late
    <3>5. i \in Passed(h, id)
      BY <1>0, <3>4, LoopPasses
    <3>6. <<h[i].id, id>> \in order'
      BY <1>0, <3>3, <3>5 DEF NewEdges
    <3>d. PICK d : d = <<h[i].id, id>>
      OBVIOUS
    <3>7. d \in order' /\ d[1][1] = e[1] /\ d[2][1] = e[2]
      BY <1>0, <3>2, <3>3, <3>6, <3>d
    <3> QED BY <3>7
  <2> QED BY <2>1, <2>2
<1> QED BY <1>3, <1>4 DEF CycleFree

\* A deleted lock takes its edges and its waits with it.
LEMMA DeletedFromCycles ==
  ASSUME TypeInv, GraphInv, CycleFree, NEW t \in Thread, NEW l \in Lock, DeleteLock(t, l)
  PROVE  CycleFree'
<1>0. /\ TypeOK /\ nodes' = nodes \ {l} /\ gen' = gen
      /\ order' = {e \in order : l \notin {e[1][1], e[2][1]}}
      /\ nested' = {e \in nested : l \notin {e[1], e[2]}}
  BY DEF TypeInv, DeleteLock
<1>1. Live' = {x \in Live : x[1] # l}
  BY <1>0 DEF Live
<1>2. ASSUME NEW e \in order', Reaches(order', Live', e[2], e[1]) PROVE FALSE
  <2>1. e \in order /\ e[1][1] # l /\ e[2][1] # l
    BY <1>0
  <2>2. PICK S \in SUBSET Live : e[2] \in S /\ Closed(order, S) /\ e[1] \notin S
    BY <2>1 DEF CycleFree, Acyclic, Reaches
  <2> DEFINE T == {x \in S : x[1] # l}
  <2>3. T \in SUBSET Live' /\ e[2] \in T /\ e[1] \notin T
    BY <1>1, <2>1, <2>2
  <2>4. Closed(order', T)
    BY <1>0, <2>2 DEF Closed
  <2> HIDE DEF T
  <2> QED BY <1>2, <2>3, <2>4 DEF Reaches
<1>3. ASSUME NEW e \in nested' PROVE \E d \in order' : d[1][1] = e[1] /\ d[2][1] = e[2]
  BY <1>0 DEF CycleFree
<1> QED BY <1>2, <1>3 DEF CycleFree, Acyclic

LEMMA CyclesStep ==
  ASSUME ExactInv, GraphInv, CyclesInv, Tracked, [Next]_vars
  PROVE  CyclesInv'
<1>0. /\ HistoryInv /\ TypeInv /\ TypeOK /\ potential_deadlocks_found \in BOOLEAN
      /\ other_errors_found => other_errors_found'
  BY FlagStep DEF ExactInv, HistoryInv, TypeInv, TypeOK
<1>1. CASE UNCHANGED <<graph, nested, potential_deadlocks_found>>
  BY <1>0, <1>1 DEF CyclesInv, CycleFree, Live, graph
<1>2. ASSUME NEW t \in Thread, NEW l \in Lock, GetId(t, l),
             UNCHANGED <<order, nested, potential_deadlocks_found>>
      PROVE  CyclesInv'
  <2>1. IdsKept
    BY <1>0, <1>2, AllocateKeepsIds DEF GetId
  <2>2. Live \subseteq Live'
    BY <1>0, <2>1 DEF IdsKept, Live, TypeOK
  <2>3. Acyclic(order, Live) => Acyclic(order', Live')
    BY <1>2, <2>2, AcyclicWithMoreNodes
  <2> QED BY <1>0, <1>2, <2>3 DEF CyclesInv, CycleFree
<1>3. ASSUME NEW t \in Thread, NEW l \in Lock PROVE ~BeforeLockIgnored(t, l)
  BY <1>0 DEF BeforeLockIgnored, HistoryInv, Ledger, Ignored, Tracked
<1>4. ASSUME NEW t \in Thread, NEW l \in Lock, BeforeLockFull(t, l) PROVE CyclesInv'
  BY <1>4 DEF BeforeLockFull, CyclesInv
<1>5. ASSUME NEW t \in Thread, NEW l \in Lock, BeforeLock(t, l) PROVE CyclesInv'
  <2>1. potential_deadlocks_found' = (potential_deadlocks_found \/ ClosesCycle(held[t], GetGraphId(l)))
    BY <1>5 DEF BeforeLock
  <2>2. CASE /\ ~other_errors_found /\ ~potential_deadlocks_found
             /\ ~ClosesCycle(held[t], GetGraphId(l))
    BY <1>0, <1>5, <2>2, SilentLockCall DEF CyclesInv, ExactInv
  <2> QED BY <1>0, <2>1, <2>2 DEF CyclesInv
<1>6. ASSUME NEW t \in Thread, NEW l \in Lock, DeleteLock(t, l) PROVE CyclesInv'
  <2>1. potential_deadlocks_found' = potential_deadlocks_found
    BY <1>6 DEF DeleteLock
  <2> QED BY <1>0, <1>6, <2>1, DeletedFromCycles DEF CyclesInv
<1>7. CASE UNCHANGED vars
  BY <1>1, <1>7 DEF vars, errors, program
<1> QED BY <1>1, <1>2, <1>3, <1>4, <1>5, <1>6, <1>7, NestMoves, NextMoves

LEMMA CyclesInvHolds ==
  ASSUME Tracked
  PROVE  Spec => [](TypeOK /\ GraphInv /\ CyclesInv)
<1>1. Init => CyclesInv
  BY DEF Init, CyclesInv, CycleFree, Acyclic
<1>2. ExactInv /\ GraphInv /\ CyclesInv /\ [Next]_vars => CyclesInv'
  BY CyclesStep
<1>3. ExactInv => TypeOK
  BY DEF ExactInv, HistoryInv, TypeInv
<1> QED BY <1>1, <1>2, <1>3, ExactInvHolds, GraphInvHolds, PTL DEF Spec

\* Every cycle of waits is reported, unless the program was told of another error
\* first, in programs that ignore no locks (and use try-locks only with room for
\* them): release without ownership and full histories are the only excuses.
THEOREM CyclesOrErrorsAreReported ==
  ASSUME Tracked
  PROVE  Spec => [](CyclesAreReported \/ other_errors_found)
<1>1. TypeOK /\ GraphInv /\ CyclesInv => CyclesAreReported \/ other_errors_found
  BY NoCycleOfWaits DEF CyclesInv, CyclesAreReported
<1> QED BY <1>1, CyclesInvHolds, PTL

\* In a program whose locks fit into a history, which releases only what it owns
\* and ignores no locks, locks taken in a cyclic order are always reported, also
\* when locks are deleted or re-entered: before_lock's edges are all there are.
THEOREM AllCyclesAreReported ==
  ASSUME Orderly
  PROVE  Spec => []CyclesAreReported
<1>1. Tracked
  BY OrderlyIsTracked
<1>2. Spec => [](CyclesAreReported \/ other_errors_found)
  BY <1>1, CyclesOrErrorsAreReported
<1>3. Spec => [](~other_errors_found)
  <2>1. Spec => [](HistoryInv /\ Exact /\ ~other_errors_found)
    BY OrderlyIsExact
  <2> QED BY <2>1, PTL
<1> QED BY <1>2, <1>3, PTL

\* ... and so is every real deadlock, before the program comes to a halt.
THEOREM AllDeadlocksAreReported ==
  ASSUME Orderly, IsFiniteSet(Thread)
  PROVE  Spec => []DeadlocksAreReported
<1>1. TypeInv /\ WaitNested /\ CyclesAreReported => DeadlocksAreReported
  BY DeadlockIsCycle DEF DeadlocksAreReported, CyclesAreReported
<1> QED BY <1>1, TypeInvHolds, WaitNestedHolds, AllCyclesAreReported, PTL
=============================================================================

-------------------------- MODULE DeadlockMonitor --------------------------
(***************************************************************************)
(* deadlock_monitor.cpp, called by the monitored program's threads through *)
(* the wrappers of api_monitors/, together with the locks themselves.      *)
(*                                                                         *)
(* A wrapper is several steps, and other threads run between them: the     *)
(* monitor's call before the lock, the lock, the monitor's call after it.  *)
(* A monitor call runs under m_deadlock_graph_mutex, so it is one step.    *)
(* The lock-order graph is kept as LockOrder promises it, with ids         *)
(* <<lock, generation>>.                                                   *)
(*                                                                         *)
(* Modelled is halt_on_error:0, the default; with halt_on_error:1 the      *)
(* process ends at the first error, after a prefix of these behaviours.    *)
(***************************************************************************)
EXTENDS LockHistory, Reachability, FiniteSets

CONSTANTS Thread, Lock,
          NoThread, NoLock,
          MaxLocks,      \* MAX_LOCKS_PER_THREAD
          Ops,           \* the calls the monitored program makes
          MaxDepth,      \* bound: recursion depth of a lock
          MaxGen,        \* bound: graph nodes a lock gets, one after the other
          MaxIgnore      \* bound: the ignore counters

ASSUME NoThreadAssumption == NoThread \notin Thread
ASSUME NoLockAssumption == NoLock \notin Lock
ASSUME BoundsAssumption == {MaxLocks, MaxGen, MaxIgnore} \subseteq Nat /\ MaxDepth \in Nat \ {0}
ASSUME OpsAssumption ==
  Ops \subseteq {"lock", "reenter", "try", "delete", "misuse", "ignore", "cnd_wait", "exit"}

VARIABLES
  \* the graph, GraphCycles
  nodes,      \* the locks that have a node
  gen,        \* the generation of a lock's last node
  order,      \* acquired-before, pairs of live ids
  priority,   \* Node::priority of the lock's node
  tracedBy,   \* Node::thread_id of the lock's node
  free,       \* how many nodes RemoveNode gave back and GetId can reuse
  \* the monitor
  held,       \* SynchLocksHeld of each thread
  synch,      \* "none", or whether the watchdog knows the thread's SynchLocksHeld
  timing,     \* m_lock_start_time_point: "off" is 0, "never" the maximum
  ignoreLock, ignoreUnlock,          \* g_ignore_counter_lock, _unlock
  potential_deadlocks_found, other_errors_found,
  \* the monitored program
  pc,         \* where each thread is in a wrapper
  target,     \* the lock, and the id it got, of the wrapper under way
  owner, depth,   \* the locks
  nested      \* history: <<h, l>> when a thread that owned h went to wait for l,
              \* until one of them is deleted

graph == <<nodes, gen, order, priority, tracedBy, free>>
own == <<held, synch, timing, ignoreLock, ignoreUnlock>>
errors == <<potential_deadlocks_found, other_errors_found>>
program == <<pc, target, owner, depth, nested>>
vars == <<graph, own, errors, program>>

Gen == 0 .. MaxGen
Id == Lock \X Gen
InvalidId == <<NoLock, 0>>          \* InvalidGraphId()
Idle == [mu |-> NoLock, id |-> InvalidId]

TypeOK ==
  /\ nodes \in SUBSET Lock /\ gen \in [Lock -> Gen] /\ order \in SUBSET (Id \X Id)
  /\ priority \in [Lock -> 0 .. MaxLocks + 1] /\ tracedBy \in [Lock -> Thread \cup {NoThread}]
  /\ free \in Nat
  /\ held \in [Thread -> Seq([mu : Lock, id : Id, count : Nat \ {0}])]
  /\ synch \in [Thread -> {"none", "watched", "unwatched"}]
  /\ timing \in [Thread -> {"off", "on", "never"}]
  /\ ignoreLock \in [Thread -> 0 .. MaxIgnore] /\ ignoreUnlock \in [Thread -> 0 .. MaxIgnore]
  /\ potential_deadlocks_found \in BOOLEAN /\ other_errors_found \in BOOLEAN
  /\ pc \in [Thread -> {"run", "wait", "try", "got", "unlock", "cnd_wait"}]
  /\ target \in [Thread -> [mu : Lock \cup {NoLock}, id : Id \cup {InvalidId}]]
  /\ owner \in [Lock -> Thread \cup {NoThread}] /\ depth \in [Lock -> 0 .. MaxDepth]
  /\ nested \in SUBSET (Lock \X Lock)

Init ==
  /\ nodes = {} /\ gen = [l \in Lock |-> 0] /\ order = {}
  /\ priority = [l \in Lock |-> 0] /\ tracedBy = [l \in Lock |-> NoThread]
  /\ free = 0
  /\ held = [t \in Thread |-> <<>>]
  /\ synch = [t \in Thread |-> "none"]
  /\ timing = [t \in Thread |-> "off"]
  /\ ignoreLock = [t \in Thread |-> 0] /\ ignoreUnlock = [t \in Thread |-> 0]
  /\ potential_deadlocks_found = FALSE /\ other_errors_found = FALSE
  /\ pc = [t \in Thread |-> "run"]
  /\ target = [t \in Thread |-> Idle]
  /\ owner = [l \in Lock |-> NoThread] /\ depth = [l \in Lock |-> 0]
  /\ nested = {}

-----------------------------------------------------------------------------
(* The graph's operations, as a monitor call uses them.                    *)

\* Mutant of GetGraphId: a removed lock's id is given to its successor.
GetGraphIdAgain(l) == <<l, IF gen[l] = 0 THEN 1 ELSE gen[l]>>

\* The id GetId(l) returns, and the ids that name a lock now.
GetGraphId(l) == IF l \in nodes THEN <<l, gen[l]>> ELSE <<l, gen[l] + 1>>
Alive(id) == id[1] \in nodes /\ id[2] = gen[id[1]]
Live == {<<l, gen[l]>> : l \in nodes}

\* The lock gets a node, if it has none: the last one given back, or a new
\* one.  A new node names the thread, a reused one names none.
Allocate(l) ==
  /\ l \in nodes \/ gen[l] < MaxGen
  /\ nodes' = nodes \cup {l}
  /\ gen' = [gen EXCEPT ![l] = GetGraphId(l)[2]]
  /\ free' = IF l \notin nodes /\ free > 0 THEN free - 1 ELSE free

\* GetId(l) called by thread t.
GetId(t, l) ==
  /\ Allocate(l)
  /\ IF l \in nodes THEN UNCHANGED <<priority, tracedBy>>
     ELSE /\ priority' = [priority EXCEPT ![l] = 0]
          /\ tracedBy' = [tracedBy EXCEPT ![l] = IF free = 0 THEN t ELSE NoThread]

\* Mutant of GetIdAndTrace: no trace is recorded.
GetIdUntraced(t, l) == GetId(t, l)

\* GetId(l) and UpdateStackTrace: the trace with the most locks held is kept.
GetIdAndTrace(t, l) ==
  LET old == IF l \in nodes THEN priority[l] ELSE 0
      now == Len(held[t]) + 1
  IN  /\ Allocate(l)
      /\ IF old >= now THEN UNCHANGED <<priority, tracedBy>>
         ELSE /\ priority' = [priority EXCEPT ![l] = now]
              /\ tracedBy' = [tracedBy EXCEPT ![l] = t]

\* Mutant of StopsAt: only a direct edge back is a cycle.
StopsAtEdge(h, i, id) == Alive(h[i].id) /\ (h[i].id = id \/ <<id, h[i].id>> \in order)

\* The loop over the held locks stops at entry i: the lock itself is held
\* already, or InsertEdge would close a cycle.  The edges the loop inserted
\* before all lead to id, which leaves what is reachable from id as it was.
StopsAt(h, i, id) == Alive(h[i].id) /\ Reaches(order, Live \cup {id}, id, h[i].id)

\* The entries the loop gets past, and whether it ends with a report.
Passed(h, id) == {i \in DOMAIN h : \A j \in 1 .. i : ~StopsAt(h, j, id)}
ClosesCycle(h, id) == \E i \in DOMAIN h : /\ StopsAt(h, i, id) /\ h[i].id # id
                                          /\ \A j \in 1 .. i - 1 : ~StopsAt(h, j, id)
\* Mutant of NewEdges: the loop ends after its first edge.
FirstEdge(h, id) == {<<h[i].id, id>> : i \in {j \in Passed(h, id) : j = 1 /\ Alive(h[j].id)}}

NewEdges(h, id) == {<<h[i].id, id>> : i \in {j \in Passed(h, id) : Alive(h[j].id)}}

-----------------------------------------------------------------------------
(* Helpers of the steps.                                                   *)

\* Synch_GetAllLocks: the watchdog gets to know a thread's SynchLocksHeld
\* only when the call that creates it asks for that.
GetAllLocks(t, monitor) ==
  synch' = IF synch[t] # "none" THEN synch
           ELSE [synch EXCEPT ![t] = IF monitor THEN "watched" ELSE "unwatched"]

Full(h) == Len(h) >= MaxLocks

\* The start time, set when a thread that holds nothing goes for a lock.
StartTiming(t) == timing' = IF held[t] = <<>> THEN [timing EXCEPT ![t] = "on"] ELSE timing

\* Mutants of StopTiming: any release stops the time, or none that erases an entry.
StopTimingAtOnce(t) == timing' = [timing EXCEPT ![t] = "off"]
StopTimingLate(t) == timing' = IF held[t] = <<>> THEN [timing EXCEPT ![t] = "off"] ELSE timing

\* It is cleared by a release behind which the thread's history is empty.
StopTiming(t) == timing' = IF held'[t] = <<>> THEN [timing EXCEPT ![t] = "off"] ELSE timing

Goto(t, where, l, id) == /\ pc' = [pc EXCEPT ![t] = where]
                         /\ target' = [target EXCEPT ![t] = [mu |-> l, id |-> id]]
Return(t) == /\ pc' = [pc EXCEPT ![t] = "run"]
             /\ target' = [target EXCEPT ![t] = Idle]

Owned(t) == {l \in Lock : owner[l] = t}

\* A thread goes to wait for a lock it does not own.
Nest(t, l) == nested' = IF l \in Owned(t) THEN nested ELSE nested \cup (Owned(t) \X {l})

\* What the monitored program does: a thread re-enters a lock it owns if Ops
\* says so, and leaves one it does not own if Ops says so.  It uses the ignore
\* counters as docs/Options.md:55 does: the ignored locks are entered first,
\* and the ignored releases are done before it enters another.
MayEnter(t, l) == /\ l \in Owned(t) => "reenter" \in Ops /\ depth[l] < MaxDepth
                  /\ ignoreLock[t] > 0 \/ ignoreUnlock[t] = 0
MayLeave(t, l) == /\ l \in Owned(t) \/ "misuse" \in Ops
                  /\ ignoreLock[t] = 0
Free(t, l) == owner[l] \in {t, NoThread}
Grab(t, l) == /\ owner' = [owner EXCEPT ![l] = t]
              /\ depth' = [depth EXCEPT ![l] = @ + 1]

-----------------------------------------------------------------------------
(* Enter a lock: cppguard_enter_critical_section, cppguard_mtx_lock.       *)

\* Mutant of BeforeLockIgnored: the ignored lock gets an id and is recorded.
BeforeLockRecorded(t, l) ==
  /\ "lock" \in Ops /\ pc[t] = "run" /\ MayEnter(t, l)
  /\ ignoreLock[t] > 0
  /\ ignoreLock' = [ignoreLock EXCEPT ![t] = @ - 1]
  /\ GetId(t, l)
  /\ Goto(t, "wait", l, GetGraphId(l)) /\ Nest(t, l)
  /\ UNCHANGED <<order, held, synch, timing, ignoreUnlock, errors, owner, depth>>

\* dlc_deadlock_check_before_lock when the program asked to ignore the lock.
BeforeLockIgnored(t, l) ==
  /\ "lock" \in Ops /\ pc[t] = "run" /\ MayEnter(t, l)
  /\ ignoreLock[t] > 0
  /\ ignoreLock' = [ignoreLock EXCEPT ![t] = @ - 1]
  /\ Goto(t, "wait", l, InvalidId) /\ Nest(t, l)
  /\ UNCHANGED <<graph, held, synch, timing, ignoreUnlock, errors, owner, depth>>

\* ... when the thread's history is full: the lock is not monitored.
BeforeLockFull(t, l) ==
  /\ "lock" \in Ops /\ pc[t] = "run" /\ MayEnter(t, l)
  /\ ignoreLock[t] = 0 /\ Full(held[t])
  /\ GetAllLocks(t, TRUE)
  /\ other_errors_found' = TRUE
  /\ Goto(t, "wait", l, InvalidId) /\ Nest(t, l)
  /\ UNCHANGED <<graph, held, timing, ignoreLock, ignoreUnlock, potential_deadlocks_found,
                 owner, depth>>

\* ... when it is monitored: an edge from every lock held, up to the first
\* that closes a cycle, which is reported.
BeforeLock(t, l) ==
  /\ "lock" \in Ops /\ pc[t] = "run" /\ MayEnter(t, l)
  /\ ignoreLock[t] = 0 /\ ~Full(held[t])
  /\ GetAllLocks(t, TRUE)
  /\ GetIdAndTrace(t, l)
  /\ StartTiming(t)
  /\ order' = order \cup NewEdges(held[t], GetGraphId(l))
  /\ potential_deadlocks_found' = (potential_deadlocks_found \/ ClosesCycle(held[t], GetGraphId(l)))
  /\ Goto(t, "wait", l, GetGraphId(l)) /\ Nest(t, l)
  /\ UNCHANGED <<held, ignoreLock, ignoreUnlock, other_errors_found, owner, depth>>

\* EnterCriticalSection: waits for the lock.  A lock without an id is not recorded.
Enter(t) ==
  /\ pc[t] = "wait" /\ Free(t, target[t].mu)
  /\ Grab(t, target[t].mu)
  /\ IF target[t].id = InvalidId THEN Return(t)
     ELSE pc' = [pc EXCEPT ![t] = "got"] /\ UNCHANGED target
  /\ UNCHANGED <<graph, own, errors, nested>>

\* dlc_deadlock_check_in_lock.
InLock(t) ==
  /\ pc[t] = "got"
  /\ held' = [held EXCEPT ![t] = Record(@, target[t].mu, target[t].id, MaxLocks)]
  /\ Return(t)
  /\ UNCHANGED <<graph, synch, timing, ignoreLock, ignoreUnlock, errors, owner, depth, nested>>

-----------------------------------------------------------------------------
(* Try to enter: cppguard_tryenter_critical_section, cppguard_mtx_trylock. *)

\* dlc_deadlock_check_before_try_lock: an ignored lock is monitored all the
\* same, no edge is inserted, and there is no limit.
BeforeTryLock(t, l) ==
  /\ "try" \in Ops /\ pc[t] = "run" /\ MayEnter(t, l)
  /\ ignoreLock' = [ignoreLock EXCEPT ![t] = IF @ > 0 THEN @ - 1 ELSE 0]
  /\ GetId(t, l) /\ GetAllLocks(t, TRUE) /\ StartTiming(t)
  /\ Goto(t, "try", l, GetGraphId(l))
  /\ UNCHANGED <<order, held, ignoreUnlock, errors, owner, depth, nested>>

\* Mutant of TryEnter: the monitor is not told of the acquired lock.
TryEnterUnrecorded(t) ==
  /\ pc[t] = "try" /\ Free(t, target[t].mu)
  /\ Grab(t, target[t].mu)
  /\ Return(t)
  /\ UNCHANGED <<graph, own, errors, nested>>

TryEnter(t) ==
  /\ pc[t] = "try" /\ Free(t, target[t].mu)
  /\ Grab(t, target[t].mu)
  /\ pc' = [pc EXCEPT ![t] = "got"]
  /\ UNCHANGED <<graph, own, errors, target, nested>>

\* The lock is taken: the wrapper returns and the monitor is not told.
TryEnterFails(t) ==
  /\ pc[t] = "try" /\ ~Free(t, target[t].mu)
  /\ Return(t)
  /\ UNCHANGED <<graph, own, errors, owner, depth, nested>>

-----------------------------------------------------------------------------
(* Leave: cppguard_leave_critical_section, cppguard_mtx_unlock.            *)

AfterLockIgnored(t, l) ==
  /\ pc[t] = "run" /\ MayLeave(t, l) /\ ignoreUnlock[t] > 0
  /\ ignoreUnlock' = [ignoreUnlock EXCEPT ![t] = @ - 1]
  /\ Goto(t, "unlock", l, InvalidId)
  /\ UNCHANGED <<graph, held, synch, timing, ignoreLock, errors, owner, depth, nested>>

\* dlc_deadlock_check_after_lock.
AfterLock(t, l) ==
  LET ok == ReleaseOK(held[t], GetGraphId(l)) IN
  /\ pc[t] = "run" /\ MayLeave(t, l)
  /\ ignoreUnlock[t] = 0
  /\ GetId(t, l) /\ GetAllLocks(t, FALSE)
  /\ held' = [held EXCEPT ![t] = Release(@, GetGraphId(l))]
  /\ other_errors_found' = (other_errors_found \/ ~ok)
  /\ StopTiming(t)
  /\ Goto(t, "unlock", l, InvalidId)
  /\ UNCHANGED <<order, ignoreLock, ignoreUnlock, potential_deadlocks_found, owner, depth, nested>>

\* LeaveCriticalSection; of a lock the thread does not own, nothing happens.
Leave(t) ==
  LET l == target[t].mu IN
  /\ pc[t] = "unlock"
  /\ IF owner[l] # t THEN UNCHANGED <<owner, depth>>
     ELSE /\ depth' = [depth EXCEPT ![l] = @ - 1]
          /\ owner' = IF depth[l] = 1 THEN [owner EXCEPT ![l] = NoThread] ELSE owner
  /\ Return(t)
  /\ UNCHANGED <<graph, own, errors, nested>>

-----------------------------------------------------------------------------
(* The other calls.                                                        *)

\* cppguard_delete_critical_section: dlc_deadlock_delete_lock and the deletion.
\* The next use of the address is a new lock.  No thread is inside a wrapper
\* with the lock.  Whether the thread's own history has the lock decides about a
\* log text only: no flag is set.
DeleteLock(t, l) ==
  /\ "delete" \in Ops /\ pc[t] = "run"
  /\ owner[l] = NoThread \/ "misuse" \in Ops
  /\ \A u \in Thread : target[u].mu # l
  /\ nodes' = nodes \ {l}
  /\ free' = IF l \in nodes THEN free + 1 ELSE free
  /\ order' = {e \in order : l \notin {e[1][1], e[2][1]}}
  /\ GetAllLocks(t, FALSE)
  /\ owner' = [owner EXCEPT ![l] = NoThread]
  /\ depth' = [depth EXCEPT ![l] = 0]
  /\ nested' = {e \in nested : l \notin {e[1], e[2]}}
  /\ UNCHANGED <<gen, priority, tracedBy, held, timing, ignoreLock, ignoreUnlock,
                 potential_deadlocks_found, other_errors_found, pc, target>>

\* cppguard_increase_ignore_counter(k, k).
IncreaseIgnoreCounter(t) ==
  /\ "ignore" \in Ops /\ pc[t] = "run" /\ Owned(t) = {}
  /\ ignoreLock[t] = 0 /\ ignoreUnlock[t] = 0
  /\ \E k \in 1 .. MaxIgnore : /\ ignoreLock' = [ignoreLock EXCEPT ![t] = @ + k]
                               /\ ignoreUnlock' = [ignoreUnlock EXCEPT ![t] = @ + k]
  /\ UNCHANGED <<graph, held, synch, timing, errors, program>>

\* cppguard_cnd_wait: switch the watchdog off for the thread, then wait for
\* the condition, which releases the mutex ...
CndWait(t, l) ==
  /\ "cnd_wait" \in Ops /\ pc[t] = "run"
  /\ l \in Owned(t) /\ depth[l] = 1
  /\ GetAllLocks(t, FALSE)
  /\ timing' = [timing EXCEPT ![t] = "never"]
  /\ owner' = [owner EXCEPT ![l] = NoThread]
  /\ depth' = [depth EXCEPT ![l] = 0]
  /\ Goto(t, "cnd_wait", l, InvalidId)
  /\ UNCHANGED <<graph, held, ignoreLock, ignoreUnlock, errors, nested>>

\* ... and takes it again, without a call of the monitor.
CndWake(t) ==
  /\ pc[t] = "cnd_wait" /\ Free(t, target[t].mu)
  /\ Grab(t, target[t].mu)
  /\ Return(t)
  /\ UNCHANGED <<graph, own, errors, nested>>

\* The thread ends and a new one takes its place: its SynchLocksHeld goes,
\* and on_thread_delete_t takes it out of the watchdog's list.
ThreadExit(t) ==
  /\ "exit" \in Ops /\ pc[t] = "run" /\ Owned(t) = {}
  /\ ignoreLock[t] = 0 /\ ignoreUnlock[t] = 0
  /\ synch[t] # "none"
  /\ held' = [held EXCEPT ![t] = <<>>]
  /\ synch' = [synch EXCEPT ![t] = "none"]
  /\ timing' = [timing EXCEPT ![t] = "off"]
  /\ UNCHANGED <<graph, ignoreLock, ignoreUnlock, errors, program>>

-----------------------------------------------------------------------------
LockCall(t, l) == BeforeLockIgnored(t, l) \/ BeforeLockFull(t, l) \/ BeforeLock(t, l)
UnlockCall(t, l) == AfterLockIgnored(t, l) \/ AfterLock(t, l)

Next == \E t \in Thread :
          \/ \E l \in Lock : \/ LockCall(t, l) \/ UnlockCall(t, l)
                             \/ BeforeTryLock(t, l) \/ DeleteLock(t, l) \/ CndWait(t, l)
          \/ Enter(t) \/ InLock(t) \/ TryEnter(t) \/ TryEnterFails(t) \/ Leave(t)
          \/ IncreaseIgnoreCounter(t) \/ CndWake(t) \/ ThreadExit(t)

Spec == Init /\ [][Next]_vars

-----------------------------------------------------------------------------
(* Properties.  The programs they are about are named by Ops in the runs.  *)

\* What the system says a thread holds, and what its history says.
Holds(t, l) == IF owner[l] = t THEN depth[l] ELSE 0
Recorded(t, l) == IF WithMu(held[t], l) = {} THEN 0 ELSE held[t][First(WithMu(held[t], l))].count

\* How far the history is behind, in the middle of a wrapper: an acquired
\* lock is recorded after, a released one is erased before, and a wait for a
\* condition is not recorded at all.
Behind(t, l) == IF target[t].mu # l THEN 0
                ELSE IF pc[t] \in {"got", "unlock"} THEN 1
                ELSE IF pc[t] = "cnd_wait" THEN -1 ELSE 0

\* A thread's history is what it holds, entry for entry and count for count,
\* with ids that name the locks, whatever the other threads do meanwhile
\* (SynchLocksHeld, "number of valid entries in locks[]").
HistoryMatchesLocks ==
  \A t \in Thread :
    /\ \A l \in Lock : /\ Cardinality(WithMu(held[t], l)) <= 1
                       /\ Holds(t, l) = Recorded(t, l) + Behind(t, l)
    /\ \A i \in DOMAIN held[t] : Alive(held[t][i].id) /\ held[t][i].id[1] = held[t][i].mu

\* Also when the history is full, locks are ignored or condition variables
\* are used, it never claims a lock more often than the thread holds it.
HistoryIsSound ==
  \A t \in Thread, l \in Lock : Recorded(t, l) + Behind(t, l) <= Holds(t, l)

\* The potential deadlocks of the program: locks taken in a cyclic order.
\* Each is reported when the cycle closes (README.md:77) ...
CyclesAreReported == Acyclic(nested, Lock) \/ potential_deadlocks_found

\* ... and nothing else is: a report comes with a cycle of locks that
\* threads waited for while they held the one before.
ReportsAreReal ==
  [][potential_deadlocks_found' /\ ~potential_deadlocks_found => ~Acyclic(nested', Lock)]_vars

\* A real deadlock was reported before the program came to a halt: threads
\* that wait, each for a lock that another of them owns.
Deadlocked(T) == /\ T # {}
                 /\ \A t \in T : pc[t] = "wait" /\ owner[target[t].mu] \in T \ {t}
DeadlocksAreReported ==
  (\E T \in SUBSET Thread : Deadlocked(T)) => potential_deadlocks_found

\* The verdict on a release is right, each time: the history has the lock by the
\* id it has now exactly when the thread owns it.  Also after another thread
\* deleted the lock, or deleted it and took it anew (README.md:79), and whatever
\* errors there were before.  The history must have room for all locks: one that
\* finds it full is not recorded and its release is told to be wrong.
ReleasesAreJudged ==
  [][\A t \in Thread, l \in Lock : AfterLock(t, l) =>
       (ReleaseOK(held[t], GetGraphId(l)) <=> owner[l] = t)]_vars

\* The report of a cycle names, for every edge, the thread that waited for
\* the lock at its end (the assert in extra_infos, graphcycles.cc:520).
EdgeEndsTraced == \A e \in order : tracedBy[e[2][1]] # NoThread

\* The locks a thread has, but for one that it is just letting go of.
Keeps(t) == {l \in Owned(t) : pc[t] = "unlock" /\ target[t].mu = l => depth[l] > 1}

\* The watchdog's time runs for every thread that waits for a lock or holds one
\* (README.md:80), whichever of its locks it releases first, as long as its
\* history has room for them: no thread that blocks others goes unwatched.
HoldersAreTimed ==
  \A t \in Thread : pc[t] = "wait" \/ Keeps(t) # {} => timing[t] = "on"

\* It runs for no other thread, also when locks are ignored, are not recorded
\* in a full history or are let go of for a condition.  Two things leave it
\* running and are no part of this: a failed try-lock (StartTimeIsClear), and the
\* entry of a held lock that another thread deleted, which is never erased.
IdlersAreNotTimed ==
  \A t \in Thread : timing[t] = "on" => pc[t] = "wait" \/ Keeps(t) # {}

\* A thread that goes for its first lock has no start time left from before
\* (the asserts at deadlock_monitor.cpp:123 and 226).
StartTimeIsClear ==
  [][\A t \in Thread, l \in Lock : (BeforeLock(t, l) \/ BeforeTryLock(t, l)) /\ held[t] = <<>>
       => timing[t] = "off"]_vars
=============================================================================

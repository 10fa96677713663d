# CppGuard: a TLA+ verification project

CppGuard is linked into a C/C++ program and replaces its lock calls
(critical sections, `std::mutex`) by wrappers. It keeps a graph of the order in
which locks are taken and reports a *potential deadlock* when an acquisition
closes a cycle, reports releases of locks the thread does not hold, and has a
watchdog for locks that are held or waited for too long. This directory holds
models of that code, the TLC runs that check them and TLAPS proofs.

## 1. Inventory

| Part | State | Operations | Interacts with |
|---|---|---|---|
| Lock-order graph, `graphcycles/graphcycles.cc` | nodes (pointer, version, rank, edge sets, visited mark, recorded trace), hash table of pointers, free list, lists of the searches | GetId, RemoveNode, InsertEdge (ForwardDFS, BackwardDFS, Reorder), RemoveEdge, FindPath, UpdateStackTrace | called by the monitor under `m_deadlock_graph_mutex` |
| Deadlock monitor, `deadlock_monitor.cpp` | two error flags, ignore counters (per thread) | before_lock, in_lock, before_try_lock, after_lock, delete_lock, cnd_wait, increase_ignore_counter, process_watchdog_error | wrappers call it before and after the real lock call; it calls the graph, the history, the watchdog |
| Held-lock history, `thread_history/`, `synch_locks_held.hpp` | per thread: entries (lock, id, count), start time of the first lock | record in in_lock, release in after_lock (swap removal) | written by its own thread, read by the watchdog |
| Wrappers, `api_monitors/`, `dll_exports/` | counters of critical sections | enter, try-enter, leave, delete, condition waits, options, ignore counters | the monitored program's threads run them concurrently |
| Watchdog and timer, `thread_watchdog/`, `helper/one_shot_timer.cpp` | list of threads, logged marks, pending timer | add_thread, remove_thread, callback | timer thread reads the histories and reports through the monitor |
| Options, `helper/options_parser.cpp` | `runtime_options_t`, one atomic per option | parse and apply, part by part | read by all, also while a string is parsed |
| Loader and summary, `dl_main.cpp`, `output/` | statistics | load, unload, summary, exit code, halt on an error | reads the flags, deletes the monitor |
| Arena allocator, `helper/low_level_alloc.cc` | blocks, skiplist of the free ones by address | alloc (first fit, split, mmap), free (coalesce) | used by the graph |
| Own mutexes `helper/cs_mutex.*`, `spinlock.hpp` | - | graph, thread list, timer and log mutex | taken by program threads and the timer thread |
| Log output `output/log.cpp`, call stacks, string helpers, fmt | - | - | - |

What is hard:

- *Concurrency.* A wrapper is three steps (monitor, lock, monitor) and other
  threads run in between; the timer thread reads what a thread writes without
  its mutex.
- *Expiring ids.* A lock can be deleted and its address reused; ids in a
  thread's history then no longer name it.
- *Long sequences.* Ranks survive removal and reuse of nodes; swap removal
  reorders the history; an answer depends on everything that came before.
- *Undoing.* A refused edge has to be taken back with all search marks.
- *Limits.* Locks per thread, last version of a node, recursion counts, full
  hash tables, blocks of the smallest size.
- *The end of the process.* The monitor is deleted while a callback may run and
  threads of the program may still initialize critical sections.
- *Settings that change.* Options are applied one by one while others read them.

What makes each part correct:

- graph: an edge is refused exactly when it closes a cycle, nothing else of a
  refused insertion remains, ids are never given twice, every insertion ends;
- history: it is what the thread holds, with live ids;
- monitor: a report if and only if the program takes locks in a cyclic order,
  and so a report before any real deadlock; a release is judged wrong if and only
  if the thread does not own the lock; the watchdog's time runs exactly for the
  threads that wait for a lock or hold one;
- watchdog: it never stops while there are threads; its list is the threads
  that live; a report is due and is made once; it blocks nobody for ever;
- hash set, hash map, allocator: a set, a function, disjoint blocks;
- process: options are in force as the caller was told, no callback outlives the
  monitor, an error that the summary tells fails the process.

`PROJECT.json` lists the hazards with their lines.

## 2. Modules

| Module | What it is |
|---|---|
| `Reachability` | digraphs as sets of pairs; reachability by closed sets, no recursion, so that it can be proved about |
| `LockOrder` | what the graph promises: ids and an acyclic relation; no ranks, no searches |
| `GraphCycles` | the algorithm (Pearce and Kelly): one step per call, one per iteration of the two searches and one for the reorder; `Refines` states that it implements `LockOrder` |
| `GraphPath` | `FindPath` after a refusal, one step per turn of its loop, between the calls of `GraphCycles` |
| `GraphCyclesProofs` | the inductive invariant of the graph and what follows: `LockOrder` is implemented, `FindPath` shows the cycle |
| `LockHistory` | a thread's held locks as a sequence, record and release |
| `DeadlockMonitor` | the monitor, the wrappers, the locks and the monitored program's threads together |
| `DeadlockMonitorProofs` | types of the monitor's state; the order of inserting edges does not matter; the account of every lock in every history: what is recorded, held and under way |
| `MonitorSafetyProofs` | histories, start times, traces and verdicts of releases, and that potential and real deadlocks are reported, and nothing else, proved |
| `NodeSet` | the hash set of edges: open addressing, deleted slots, growth |
| `PointerMap` | the hash map from locks to nodes: chains through the nodes, reuse of nodes |
| `Containers` | the two side by side |
| `ContainersProofs` | the table is a set, its searches end, the map finds the nodes, proved |
| `ArenaAllocator` | blocks, skiplist, first fit, coalescing |
| `ArenaProofs` | its blocks, its free list and its first fit, proved |
| `NumberFacts` | lemmas on natural numbers: induction, least elements, division with a rest, increasing functions |
| `ThreadWatchdog` | thread list, timer, callback, and the threads that register, lock and end meanwhile |
| `ThreadWatchdogProofs` | its list and its reports, proved |
| `RuntimeOptions` | the options and what one part of an option string does |
| `Process` | a Linux process around `ThreadWatchdog`: load, option calls, errors, deletion of the monitor, summary, exit |
| `ProcessProofs` | options, watchdog and end of the process, proved |
| `MCGraphCycles`, `MCDeadlockMonitor`, `MCThreadWatchdog`, `MCProcess` | symmetry sets and option strings for TLC |

How they are composed. `DeadlockMonitor` uses the graph as `LockOrder` describes
it, with ids `<<lock, generation>>`, and `ImplementsLockOrder` is the
theorem that the algorithm keeps that promise for every number of locks and nodes.
`GraphPath` extends `GraphCycles`: its calls run between the calls of the graph,
which it only reads. `GraphCycles` takes edge sets and the
lock table as a set and a function, which is what `NodeSet` and `PointerMap`
show them to be. `Process` extends `ThreadWatchdog` and `RuntimeOptions`: the
watchdog's actions are its actions, under the phase of the process.
`DeadlockMonitor` and `ThreadWatchdog` share the start time of a thread: the
first has what a thread does with its locks, the second has only that it starts
and ends its time, in the same order of mutexes.

### GraphCycles and the code

`masked_ptr`, `version`, `rank`, `in`, `out`, `visited` are the fields of
`Node`; `ptrmap` is the function `PointerMap` stands for; `deltaf`, `deltab`,
`stack` are `Rep`'s lists. `pc` and `call` are the position and the arguments of
the `InsertEdge` under way. As every call runs under one mutex, a call begins
only at `pc = "idle"`. A search step pops any node of the stack, where the code
pops the last one, and the free list gives back any node: the properties then do
not depend on these orders, nor on the iteration order of the hash sets. One
iteration is one step: the successors of a node are looked at together, which no
other step can observe. `Reorder` is the sorting, merging and assigning of
`Reorder`, `Sort` and `MoveToList`: the k-th node of the list (backward part by
rank, then forward part by rank) gets the k-th of the ranks. `verdict` keeps
what the last `InsertEdge` answered.

### DeadlockMonitor and the code

Every thread has a `pc`: `run` (outside), `wait` (in front of the blocking lock,
before_lock done), `try`, `got` (lock acquired, in_lock not yet called),
`unlock` (after_lock done, lock not yet released), `cnd_wait`. A monitor call is
one step, as it runs under `m_deadlock_graph_mutex` and touches otherwise only
the thread's own state. `BeforeLock` is the whole of before_lock, with the loop
over the held locks in closed form: `StopsAt` says at which entry the loop ends
(recursive lock or refused edge), `NewEdges` which edges it has inserted by
then. That each iteration may be judged on the graph from before the loop is
the theorem `NewEdgesDoNotReach`. `owner` and `depth` are the real locks (system
code, modelled from how the wrappers use it). `nested` is a history variable of
the program, independent of the monitor: which lock was waited for while which
was owned; the report properties compare the monitor with it.

`Ops` says which calls the monitored program makes, so that a property can be
stated of legal programs, of programs that misuse locks, and of programs that
use recursion, try-locks, condition variables or the ignore counters.

This module has `halt_on_error:0`; `Process` has both values. The start time is
abstracted to unset, set, and the maximum that cnd_wait stores. `HoldersAreTimed`
and `IdlersAreNotTimed` compare it with the real locks, not with the history it is
kept by: `Keeps` are the locks a thread owns, but for one that it is about to let go
of for good.

### ThreadWatchdog and the code

A `SynchLocksHeld` is a member of `Synch`, shared by its thread (`synch`), the
list and a callback that reports it; a new one is any that nobody has. Of its
content only the start time matters: `start` tells whether it is 0, a time or the
maximum that `cnd_wait` stores, `age` how long ago a time is. `Tick` lets time
pass. A thread is outside a call (`run`), before `add_thread` (`add`), before it
sets its start time (`begin`), waiting for or holding locks (`in`), or before
`remove_thread` (`exit`): other threads and the callback run in between.
`before_try_lock` makes its first call with the graph mutex taken, `before_lock`
without, so `FirstCall` has both.

The callback is one step per entry (`ScanPass`, `ScanFind`, `ScanEnd`), under the
list mutex. `lag` is the age of the `now` it took: a thread that takes its lock
after that has a start time behind `now`, the case of `Unlocked`. Then follow
the report, which needs the graph mutex, and the restart, which takes the list
mutex again. The timer's mutex is held for a few assignments and is part of the
step. On Linux there is one start time and one callback at a time; a second start
overwrites the first. On Windows each start is a timer of its own and callbacks
may overlap. The asserts of the timer (one_shot_timer.cpp:84) and of
`remove_thread` (thread_watchdog.cpp:77) are taken as a release build has them.
`told` is a history variable: the objects whose present time was reported.

### RuntimeOptions, Process and the code

An option string is the sequence of its parts, `ApplyPart` one turn of
`parse_options`' loop: other threads see options of a string that is half
applied. A refused part ends the loop with an exception; `cppguard_set_options`
catches an `invalid_argument` and answers 0, while the `out_of_range` of
`std::stoi` reaches the caller; at the load nothing catches, and the process ends.

`phase` is where the process is. `~loader_t` reads the flags (`ReadFlags`),
deletes the monitor, which waits for the timer's loop (`join`, and `last` once
the callback has returned: the loop looks at `m_shutdown` between two turns), and
goes on to the summary and the exit. Threads make monitor calls until the monitor
is gone and may initialize critical sections until the end. A call on the freed
monitor is undefined behaviour of the program and not modelled. On Linux both
ways to fail a process run into `debug_break` first.

### GraphPath, NodeSet, PointerMap, ArenaAllocator and the code

`GraphPath` has `FindPath`'s stack (`todo`, with the marker -1), its set (`seen`),
the length and the array. The thread whose edge was refused calls it for the path
back and still holds the mutex, so `PathNext` lets no call of the graph come in
between (`OtherCall`); a step is one turn of the loop (`LeaveNode`, `EnterNode`,
`Return`), and the successors of a node are pushed in any order. `ReportShowsCycle`
speaks of the states after the return.

`NodeSet` has the table slot by slot with the code's hash; a search is the least
number of probes that ends it (`Stops`), and `Grown` inserts the filled slots of the
old table in their order (these insertions reach the load only if the table was too
full before). `Inline` is 4 instead of 8 so that growth comes early.
`PointerMap` leaves the hash open: every assignment of locks to buckets is an
initial state. `Chain(b)` is the chain of a bucket as a function of the place in it,
and `Unlink` takes the slot in front of the node, in the bucket or in a node.

`ArenaAllocator` has real addresses and sizes in bytes. `arena.next[b][i]` are the
skiplist's pointers, level by level, and `Walk` follows them: a pointer that the
code would leave wrong is wrong in the model. The generator of random levels may
return any of 1..MaxRandom; mmap may return any free place.

## 3. Runs

| Run | Instance | Shows |
|---|---|---|
| `graph` | 3 locks, 3 nodes, versions 1..2, array of 2 | all invariants of the graph, `OnlyRegionMoves`, step-by-step refinement of `LockOrder`; `FindPath` names the cycle of a refused edge; every insertion and every `FindPath` ends |
| `monitor_deadlocks` | 3 threads, 3 locks | a report exactly when locks are taken in a cyclic order; no real deadlock without one |
| `monitor_history` | 2 threads, 2 locks, recursion, try-locks, deletes, thread ends | the history is what the thread holds; no cycle is missed; the time runs while a lock is waited for or held |
| `monitor_misuse` | 2 threads, 2 locks, 7 entries of history, wrong releases, deletes of held locks | every release is judged right, also after errors; the target of every edge has a trace |
| `monitor_limits` | 2 threads, 2 locks, one entry of history, recursion, ignore counters, condition waits | the history never claims too much; the time runs for no thread without a lock |
| `watchdog` | 2 threads, 2 objects, Linux and Windows timer, try-locks, condition waits, thread ends | the watchdog keeps running, its list is right, reports are due and made once, calls return, a time without end is reported |
| `process` | 2 threads, four option strings, one critical section | options, switching the watchdog, deletion of the monitor, how far summary and exit agree |
| `containers` | 5 values in a table of 4 slots; 3 locks, 3 nodes, 2 buckets | the hash tables are a set and a function; searches end |
| `alloc` | 4 sizes, 2 chunks, levels from 1 or 2 | blocks, free list, first fit |
| `trylock_start_time` | violation | a failed try-lock leaves a start time (asserts at deadlock_monitor.cpp:123, 226) |
| `reenter_false_report` | violation | re-entering a held lock after an out-of-order release is reported as a potential deadlock (README.md:77) |
| `missed_report` | violation | a thread that ends a reported time and starts another between two callbacks is not reported again (README.md:80) |

Bounds. `MaxNodes` and `MaxVersion`: three nodes give regions of every shape the
two searches distinguish (a node between the ends, found from either side or
from neither) and with two versions every node is removed, reused and worn out;
the proofs remove the bound. `MaxPath` is 2, less than the longest cycle, so that
the array is also too short. `MaxGen`: two generations make one lock be deleted
and created anew while ids of the first remain in histories. `MaxDepth`: 2 is a
recursive lock. `MaxLocks`: 7 in `monitor_misuse` is more than there are ids, so that
stale entries never fill a history; 1 in `monitor_limits` is full at once. `MaxIgnore`: 2 as in docs/Options.md. Two threads and two locks
have all interleavings of two wrappers; the deadlock run has three of each, so
that cycles of two and of three locks occur, with and without shortcuts.
`Limit` and `MaxLag` of one tick: a time can be too short, just long enough, and
can start after `now`; ages above both make no difference. `MaxTimers` is 2 pending
timers on Windows. The run has one callback, so overlapping callbacks are left to
the proofs, which are for any number of them. Two objects for two threads: one
that is let go of is used again. Five values fill a table of 4 slots past its
load and force growth, and three of them share a slot of the hash. Two chunks of 192
bytes are adjacent or mapped out of order; the sizes give blocks of the smallest
size, splits with and without a rest, and blocks of two levels.

The monitor runs do not check for TLC's deadlock: the monitored program may
deadlock, which is what the monitor is about, and the bound on generations can
be used up. `process` does not, as a process ends, and `alloc` does not, as its
memory may be full.

Fairness. `graph` has weak fairness of a search step and of a step of `FindPath`:
the thread that called holds the mutex and runs on. `watchdog` has weak fairness of time,
and strong fairness of each monitor call that has begun and of the timer with its
callback: a thread that waits for one of the two mutexes gets it some day, since
others hold them for moments only. Nothing is assumed about the program: threads
need not call, lock, let go or end. `TimesAreReported` assumes that threads do not
end for ever one after another (`NoTurnover`): each end may move the waiting
entry in front of the place the scan has reached.

### Disagreements with the documents and asserts

Three have a run, as above. The others were met while modelling and can be read
off the code:

- A try-lock has no limit check (deadlock_monitor.cpp:209), so an acquired lock
  can find the history full and reach `assert(false)` (thread_history_helper.cpp:96).
- A lock that finds the history full is not recorded; its rightful release is then
  logged as a wrong one (thread_history_helper.cpp:64), and once the recorded locks
  are released the time stops although it is still held (deadlock_monitor.cpp:205).
- When another thread deletes a lock that a thread holds, the entry stays in the
  holder's history for good, and so does its start time (deadlock_monitor.cpp:200,
  thread_history_helper.cpp:61): the watchdog reports a thread that holds nothing.
- Deleting a held lock is logged as an error and sets no flag
  (deadlock_monitor.cpp:259): it does not fail a process with
  `fail_process_in_case_of_error:1` (docs/Options.md:25).
- A thread whose first monitored call is a delete, a release or a condition wait is
  never registered with the watchdog (deadlock_monitor.cpp:84, README.md:80).
- When the last thread leaves and another registers before the pending timer
  expires, the second start violates the assert at one_shot_timer.cpp:84.
- A thread that registered while `thread_watchdog` was 0 and ends while it is 1
  reaches `assert(false)` (thread_watchdog.cpp:77).
- `exit_code` accepts 0 (options_parser.cpp:142); docs/Options.md:28 says 1..126.
- "exit 66" (docs/Options.md:25): on Linux `debug_break` (dl_main.cpp:127) ends the
  process with a signal, and `kill(SIGKILL)` would do the same.
- A summary may tell of no error and the process fail all the same, when a critical
  section is initialized in between (dl_main.cpp:115, 119).
- `halt_on_error` ends the process for every error, not only for "potential
  deadlock" (docs/Options.md:24).

## 4. Proofs

*Graph.* `IndInv` (GraphCyclesProofs) is `TypeOK`, the node store, mirrored edge
sets, distinct ranks, ascending edges (all but the one being inserted) and
`SearchOK`. The last is why the others are not inductive alone: reordering is
right only because the forward list holds everything reachable from the edge's
target inside the region, the backward list everything that leads to its source
from inside the region, and the two are disjoint. There is one lemma per action. From it
follow `TypeCorrect`, `GraphInvariant` and its parts (`StoreStaysSound`,
`EdgesStayMirrored`, `EdgesStayRanked`, `SearchesStaySound`),
`RanksStayAPermutation`, `GraphStaysAcyclic` (a closed set of larger ranks
separates the ends of an edge) and `OnlyRegionMovesHolds`.

*Reorder.* `ReorderHasOneAnswer`: `Rerank` has exactly one element when the searches
are done. The region has as many ranks as nodes, `Place` numbers the nodes in the
order of `Reorder`'s list, and between two sets of equally many numbers there is one
increasing function (`OneIncreasing`, by induction over the number).

*Refinement.* `ImplementsLockOrder`: the mapping takes ids `<<node, version>>`
and the edges without the one under way. The two directions of "refused exactly
when it closes a cycle" use `SearchForward`: whatever was found is reachable, and
when the stack is empty the visited nodes and all nodes above the region form a
closed set without the source.

*FindPath.* `ReportsShowCycles` proves `ReportShowsCycle` for `PathSpec`. After a
refusal the target can be reached (`PathBack`, of `SearchForward` again). `PathInv`
is that, and while the loop runs `Walking`: there is a path from the source with a
place on the stack for each of its nodes, its marks are exactly the markers of the
stack, and what lies above a mark are successors of its node (`Trail`); the array has
the path's beginning (`Holds`); every node of `seen` is still on the stack or all its
successors were pushed, and the target, once pushed, is still there (`Explored`). A
marker on top is therefore the mark of the last node. Were the stack empty, `seen`
would be a closed set without the target. No node occurs twice on the path as every
edge goes up in rank between calls, which is why `IndInv` is needed once more.
`PathSpecIsSpec` carries the theorems about `Spec` over to `PathSpec`, the
specification of the run.

*Monitor.* `MonitorTypeCorrect` (DeadlockMonitorProofs) proves the types of all
variables for every set of threads, locks, bounds and kinds of calls. The types
are not inductive: a lock's depth stays in bounds only because of what the
wrappers checked before they started to wait. `TypeInv` adds that (`Wrappers`):
where a thread is tells what its target is, a history never exceeds its
`MAX_LOCKS_PER_THREAD` entries, a lock is owned exactly while it is entered, and
a thread that waits for a lock it owns may enter it once more. One lemma per call
shows that it is preserved; `RecordType` and `ReleaseType` say what the two
history operations return. `NewEdgesDoNotReach`: edges inserted into a node do
not change what is reachable from it, which is why `StopsAt` may judge the whole
loop of `before_lock` on the graph it started with.

*Histories.* `HistoryInv` (DeadlockMonitorProofs) is the types, `Ledger` and
`NeverAhead`. `Ledger` says of each thread: its entries have different ids, each
an id given to the lock it names (`Entries`); the lock it goes for has a node,
and the id is that node's (`Aimed`); nothing is recorded while releases are to be
ignored (`Ignored`); without misuse recorded locks live and a lock is released by
its owner (`Fresh`). `Slack` is
what a thread holds of a lock less what its history has of it, corrected for a
call that is between monitor and lock; `NeverAhead` says that it is not negative.
Neither is inductive alone. Each step is described once by what it moves
(`StepOf`, `CallOf`), and the later invariants only look at these moves:

| Invariant | Says | Rests on | Gives |
|---|---|---|---|
| `GraphInv` | edges end at live nodes, with a trace at their target | `TypeInv` | `ReportsNameThreads` |
| `RoomInv` | who waits for or has got a lock with an id has room for it | `TypeInv`, no try-locks | used by the next ones |
| `ExactInv` | slack is 0 and who goes for a lock has its id, or another error was flagged | `HistoryInv`, `RoomInv` without try-locks | `CyclesOrErrorsAreReported` |
| `Exact` | the same without the excuse, in programs with room | `HistoryInv`, `NeverFull`, `NeverDropped` | `ReleasesAreJudgedRight`, `HistoriesMatchLocks` |
| `HoldersInv` | who goes for a lock, has got one or has entries is timed | `HistoryInv`, `Exact` | `HoldersStayTimed` |
| `IdlersInv` | who is timed has entries, or a lock that is going to have one | `RoomInv`, `HistoryInv` | `IdlersStayUntimed` |
| `EdgesAreWaits` | every edge of the graph (`order`) is a pair of `nested` | `HistoryInv` | `ReportsAreNotMadeUp` |
| `CyclesInv` | the graph is acyclic and has every pair of `nested`, or something was reported or flagged | `ExactInv`, `GraphInv` | `CyclesOrErrorsAreReported`, `AllCyclesAreReported` |

`HistoriesAreSound` follows from `HistoryInv`. That a history never fills is counted:
its entries have different ids (`IdsFit`), and without misuse different locks, among
which the one that is entered is not (`HeldFits`, `NeverFull`).
The two theorems on the start time compare it with the locks themselves: `HoldersInv`
and `IdlersInv` speak of entries, and the account of each lock (`Slack`) makes the
step from entries to locks, also in the middle of a wrapper and of a recursive lock.
`ReportsAreNotMadeUp`: an edge is refused for a path, and `EdgesAreWaits` makes
the path one of waits. `AllCyclesAreReported`: as long as there is no report,
`before_lock` inserts an edge for every lock held, so the pairs of `nested` are
edges of a graph that `LockOrder` keeps acyclic. `AllDeadlocksAreReported` rests
on `NoWayOut`: a finite set of threads, each waiting for a lock of another of
them, has a cycle of waits: one of those from which the fewest can be reached
is reached again from the next. Counting them takes the place of an induction.

Hypotheses of these theorems. They are about the program (`Ops`) and about room,
and each is one that the code needs, not the proof; the model leaves the property
without it, or the code says so:

- `Orderly` (the theorems that hold without an excuse): the thread releases and
  deletes only what it may (a held lock that is deleted leaves its entry behind, and
  a wrong release sets the flag), uses no ignore counters (an ignored lock has no
  entry), and its locks fit into a history (`EnoughRoom`: fewer locks than entries, or as many and
  none entered again; the limit check of `before_lock` makes an error of the others).
- `Roomy` allows misuse, if histories have room for all ids (`RoomForAll`): a stale
  entry of a lock deleted by another thread takes a place for good. Histories then
  never fill (`NeverFills`), and verdicts on releases and start times of holders are
  right. Where a history is full they are not (section 3).
- `Tracked` is weaker: programs may exceed the limit, if they use no try-locks, which
  have no limit check. What is then missed is flagged as another error.
- `IgnoresWell`: ignore counters are not mixed with try-locks or wrong releases,
  which use them up for other locks (hazards of deadlock_monitor.cpp:178, 210).
- No condition wait for holders' start times (it switches the watchdog off, and the
  woken thread goes on without a time), neither misuse nor try-lock for those of
  idle threads (a stale entry, or a failed try, leaves the time running; the latter
  is `trylock_start_time`), no re-entry for reports (`reenter_false_report`).

Every run's constants satisfy the hypotheses of the theorems about its properties,
the runs that expect a violation excepted.

*Watchdog.* `ListInv` (ThreadWatchdogProofs) is `TypeOK`, `ListMatchesThreads`
and `Calls`: where a thread is tells whether it has an object and whether the
option is on. `WithoutFacts` says what the swap removal leaves: the list's
entries but one, each once. From it follow `WatchdogTypeCorrect` and
`ListStaysTrue`. `WatchdogNeverStops` rests on it: every step that
empties the timer leaves a callback, every callback that ends finds an empty list
or starts the timer. `ReportInv` is `Owned` (an object belongs to one thread and
one entry, so that a mark is the mark of one time) and `Told` (a reported time
still lasts and its entry is marked, and its age is at least the limit behind any
`now`, so that no scan takes the mark away). It gives `ReportsDoNotRepeat`;
`ReportsAreNeverEarly` follows from what `Long` and `Unlocked` say of ages.
`ReportInv` rests on `Steady` only (types, a call has an object, which no entry has
before `add_thread`), which does not need the option to stay as it is.

*Process.* `NoLateCallback`: the loop's end is the only way to the summary and
needs idle callbacks, which expire in earlier phases only. `ExitsFollowSummaries` is
inductive with `ExitInv`: no option call is under way once the flags are read, so
options do not change, and between summary and exit the number of open critical
sections can grow and not shrink, since a deletion needs the monitor. An error the
summary told is therefore still there; one it did not tell can only be a section
that came since, which is all by which the exit can differ.
`CallersAreToldRight` rests on `ParseInv`: while a string is parsed, all parts so
far were accepted and the options are what `InForce` makes of them; `InForceNext`
says that one more part is one more turn of the loop. In the process the
watchdog's option may be switched while threads register and end, and
`ListMatchesThreads` does not hold: entries of ended threads stay, and threads run
that are not listed. `ObjectInv` (`Steady` and `ReportInv`) is what is left of
`ListInv`. It gives `ProcessTypeCorrect`, `WatchedThreadsStay` (the first entry
of an ending thread's id may be an older thread's, but is never a living one's),
`WatchdogSurvivesSwitching`, `ProcessReportsAreDue` and `ProcessReportsOnce`: three
properties of the watchdog alone that are thus shown to hold in the process too.

*Hash map.* `MapInv` (ContainersProofs) is the types, `ChainsDistinct` and
`ChainsHold` (a chain repeats nothing and has exactly the nodes in use whose lock
hashes to its bucket), one node for a lock, and free nodes that are out of use. A
chain is a function of the place in it; `ChainIs` shows that there is one such
function, `AddKeepsChains` and `UnlinkKeepsChains` what becomes of all chains when a
link is changed. A chain never fills its last place, so it ends (`ChainEnds`).
`LocksFindTheirNodes` follows for every hash and every number of buckets.

*Hash set.* `SetInv` is that the table has each element once and finds it: no empty
slot lies between the hash of an element and its slot (`Reachable`), `occupied`
counts what is not empty and is below the load (`SetInOrder`). A deleted slot counts
too, and that the count stays within the number of values (`ProbesEnd`), however
often one erases and inserts, needs `Uncrowded`: in any stretch of slots behind an
empty one, the slots in use, together with the elements from there that lie farther
on, are no more than the values that hash into it. Growth is a
recursive function over the slots of the old table (`GrownIs`, `MovesKeepOrder`).
`SetsHoldTheirElements` and `SearchesEnd` follow.

*Allocator.* `Listed` (ArenaProofs) is the skiplist as a function of the set of its
blocks and their levels: each pointer is the next block of that level (`After`), so
insertion and deletion are lemmas about sets (`OneNew`, `OneLess`), and the walks,
recursive functions over the blocks of a level, are shown to return the last block
before an address. `Sound` adds the blocks: side by side, in units of the header,
each free one with at least the levels that first fit relies on and no more than
it has room for. `ArenaInv` is `Sound`, no two free blocks that touch, and the blocks
not free are those given to callers. While `AddToFreelist` runs, two free blocks may
touch, on either side of the new one; the two calls of `Coalesce` are lemmas between
such states. `BlocksStaySound`, `FreeListStaysSound` and `FirstFitIsFirst` follow,
the last because a block that is large enough has the level that is searched.

Induction. The library's induction theorems take an operator, which the provers
cannot instantiate. `NumberFacts` states induction with a set (`Induction`), proved
from the well-foundedness of the numbers, and the facts about chains, growth, levels and
walks are shown with the set of numbers for which they hold.

Assumptions: the named ones on the constants: `NoLock`, `NoThread`, `NoSynch`,
`Free` are none of what they stand beside, bounds are natural numbers, platforms
and kinds of calls are the ones the modules know, `Process` is for Linux; elements
of a set are finitely many numbers (`FiniteAssumption`; they are 32-bit numbers) and
its first table has 4 to 1024 slots, a power of two (`InlineAssumption`; 8 in the
code); a chunk of the arena is a multiple of the header and holds a block
(`BoundsAssumption`).

The monitor's theorems about deadlocks assume finitely many locks or threads
where they count them.

Only model-checked: liveness (`EveryCallReturns`, `CallsReturn`,
`TimesAreReported`), which is out of the prover's reach. The three runs that expect
a violation have no theorem. All other properties of the runs are proved.

## 5. Not modelled

- The text of reports and the summary, log output, call stacks and symbols, the
  recorded traces apart from whether there is one (`EdgeEndsTraced`).
- `IsReachable`, which nothing calls; the growth of `Vec`; `DeleteArena`, which
  nothing calls.
- Windows' unload order and `TerminateProcess`; a debugger.
- Monitor calls after the monitor was deleted, and `thread_local` destruction at
  the end of the process.
- `m_log_file`, a string written and read by different threads without a mutex:
  undefined behaviour without a set of outcomes.
- Whether the flag of an error or its log text comes first: one step in `Process`.
- fmt, pystring, doctest, debugbreak and the test programs: third-party code and
  tests, most of the repository's lines.

## 6. Plan

What is left to do:

1. The graph inside the monitor: a composition in which `DeadlockMonitor` steps
   are sequences of `GraphCycles` steps, to replace the argument that one mutex
   makes them one step.
2. The graph over `NodeSet` and `PointerMap` instead of a set and a function: a
   refinement of `GraphCycles`, for which the theorems on both are the lemmas.
3. Ignore counters with try-locks; overlapping callbacks of Windows in a run.

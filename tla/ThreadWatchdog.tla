--------------------------- MODULE ThreadWatchdog ---------------------------
(***************************************************************************)
(* thread_watchdog.cpp and one_shot_timer.cpp: the list of the monitored   *)
(* threads, the timer, and the callback that looks for a thread that waits *)
(* for or holds locks too long, with the threads that register, lock and   *)
(* end meanwhile.                                                          *)
(*                                                                         *)
(* A thread's SynchLocksHeld is an object shared by the thread and the     *)
(* list.  Of its content only the start time is kept, as its distance from *)
(* now.  What a thread does with its locks is in DeadlockMonitor; here it  *)
(* starts and ends its time.                                               *)
(***************************************************************************)
EXTENDS Naturals, Sequences

CONSTANTS Thread, Synch, Callback,
          NoSynch, Free,
          Platforms,   \* the timers to look at, "linux" or "windows"
          Ops,         \* what the program does: "try", "cnd_wait", "exit"
          Limit,       \* thread_watchdog_max_duration_sec, in ticks
          MaxLag,      \* bound: ticks that pass during a scan of the list
          MaxTimers    \* bound: timers pending in Windows' timer queue

ASSUME NoSynchAssumption == NoSynch \notin Synch
ASSUME FreeAssumption == Free \notin Thread \cup Callback
ASSUME PlatformsAssumption == Platforms \subseteq {"linux", "windows"}
ASSUME ProgramAssumption == Ops \subseteq {"try", "cnd_wait", "exit"}
ASSUME TimesAssumption == {Limit, MaxTimers} \subseteq Nat \ {0} /\ MaxLag \in Nat

VARIABLES
  \* the threads
  pc,         \* "run" outside, "add", "begin" inside a monitor call, "in" at a lock, "exit"
  synch,      \* g_sync_locks_held
  start,      \* m_lock_start_time_point: "off" is 0, "never" the maximum
  age,        \* how long ago it is, capped where it makes no difference
  \* the watchdog
  enabled,    \* m_thread_watchdog_enabled
  threads,    \* m_threads
  timers,     \* how many timers are pending
  cb,         \* where each callback is
  found,      \* found_long_locked of each callback
  at, lag,    \* the scan under way: its entry, and the age of its "now"
  other_errors_found,
  \* mutexes held from step to step
  list_mutex, graph_mutex,
  platform,
  \* history
  told        \* the objects whose present time was reported

service == <<timers, cb>>
scan == <<found, at, lag>>
timing == <<start, age, told>>
mutexes == <<list_mutex, graph_mutex>>
option == <<enabled, platform>>
vars == <<pc, synch, timing, threads, service, scan, other_errors_found, mutexes, option>>

MaxAge == Limit + MaxLag
Entry == [synch : Synch, id : Thread, logged : BOOLEAN]

TypeOK ==
  /\ pc \in [Thread -> {"run", "add", "begin", "in", "exit"}]
  /\ synch \in [Thread -> Synch \cup {NoSynch}]
  /\ start \in [Synch -> {"off", "on", "never"}] /\ age \in [Synch -> 0 .. MaxAge]
  /\ enabled \in BOOLEAN /\ threads \in Seq(Entry)
  /\ timers \in 0 .. MaxTimers
  /\ cb \in [Callback -> {"idle", "scan", "scanning", "report", "restart"}]
  /\ found \in [Callback -> Synch \cup {NoSynch}]
  /\ at \in Nat \ {0} /\ lag \in 0 .. MaxLag
  /\ other_errors_found \in BOOLEAN
  /\ list_mutex \in Callback \cup {Free} /\ graph_mutex \in Thread \cup {Free}
  /\ platform \in Platforms
  /\ told \in SUBSET Synch

Init ==
  /\ pc = [t \in Thread |-> "run"]
  /\ synch = [t \in Thread |-> NoSynch]
  /\ start = [s \in Synch |-> "off"] /\ age = [s \in Synch |-> 0]
  /\ enabled \in BOOLEAN /\ threads = <<>>
  /\ timers = 0
  /\ cb = [c \in Callback |-> "idle"]
  /\ found = [c \in Callback |-> NoSynch]
  /\ at = 1 /\ lag = 0
  /\ other_errors_found = FALSE
  /\ list_mutex = Free /\ graph_mutex = Free
  /\ platform \in Platforms
  /\ told = {}

-----------------------------------------------------------------------------
(* The timer, one_shot_timer.cpp.                                          *)

\* Linux has one start time, which a second start overwrites; Windows makes
\* a timer of every start.
Slots == IF platform = "linux" THEN 1 ELSE MaxTimers

\* Mutant of StartTimer: every start counts, on Linux too.
StartTimerAdds == timers' = timers + 1

StartTimer == timers' = IF timers < Slots THEN timers + 1 ELSE timers

\* A timer expires: on Linux the loop thread runs the callback, on Windows a
\* thread of the pool does.
TimerExpires(c) ==
  /\ timers > 0 /\ cb[c] = "idle"
  /\ platform = "linux" => \A d \in Callback : cb[d] = "idle"
  /\ timers' = timers - 1
  /\ cb' = [cb EXCEPT ![c] = "scan"]
  /\ UNCHANGED <<pc, synch, timing, threads, scan, other_errors_found, mutexes, option>>

\* Time passes for every start time, and for the "now" of a scan.
Scanning == \E c \in Callback : cb[c] = "scanning"
Tick ==
  /\ ~Scanning \/ lag < MaxLag
  /\ age' = [s \in Synch |-> IF start[s] = "on" /\ age[s] < MaxAge THEN age[s] + 1 ELSE age[s]]
  /\ lag' = IF Scanning THEN lag + 1 ELSE lag
  /\ UNCHANGED <<pc, synch, start, told, threads, service, found, at, other_errors_found,
                 mutexes, option>>

-----------------------------------------------------------------------------
(* The threads.                                                            *)

InUse == {synch[t] : t \in Thread} \cup {found[c] : c \in Callback}
         \cup {threads[i].synch : i \in DOMAIN threads}
SetStart(s, what) == /\ start' = [start EXCEPT ![s] = what]
                     /\ age' = [age EXCEPT ![s] = 0]
                     /\ told' = told \ {s}

\* Synch_GetAllLocks(true) of a thread's first call.  before_try_lock makes
\* the call with the graph mutex taken, before_lock without.  add_thread has
\* nothing to do if the option is off.
FirstCall(t) ==
  /\ pc[t] = "run" /\ synch[t] = NoSynch
  /\ Synch \ InUse # {}
  /\ synch' = [synch EXCEPT ![t] = CHOOSE s \in Synch \ InUse : TRUE]
  /\ \/ UNCHANGED graph_mutex
     \/ /\ "try" \in Ops /\ graph_mutex = Free
        /\ graph_mutex' = t
  /\ pc' = [pc EXCEPT ![t] = IF enabled THEN "add" ELSE "begin"]
  /\ UNCHANGED <<timing, threads, service, scan, other_errors_found, list_mutex, option>>

\* add_thread: a list that was empty has no timer, so one is started.
AddThread(t) ==
  /\ pc[t] = "add" /\ list_mutex = Free
  /\ threads' = Append(threads, [synch |-> synch[t], id |-> t, logged |-> FALSE])
  /\ IF threads = <<>> THEN StartTimer ELSE UNCHANGED timers
  /\ pc' = [pc EXCEPT ![t] = "begin"]
  /\ UNCHANGED <<synch, timing, cb, scan, other_errors_found, mutexes, option>>

\* The start time is set: the rest of before_lock or before_try_lock by a
\* thread that holds nothing.
Begin(t) ==
  /\ pc[t] \in {"begin", "run"} /\ synch[t] # NoSynch
  /\ graph_mutex \in {Free, t}
  /\ SetStart(synch[t], "on")
  /\ graph_mutex' = Free
  /\ pc' = [pc EXCEPT ![t] = "in"]
  /\ UNCHANGED <<synch, threads, service, scan, other_errors_found, list_mutex, option>>

\* after_lock of the last lock held.
End(t) ==
  /\ pc[t] = "in" /\ graph_mutex = Free
  /\ SetStart(synch[t], "off")
  /\ pc' = [pc EXCEPT ![t] = "run"]
  /\ UNCHANGED <<synch, threads, service, scan, other_errors_found, mutexes, option>>

\* A try-lock that fails leaves the start time as it is.
TryFails(t) ==
  /\ "try" \in Ops /\ pc[t] = "in"
  /\ pc' = [pc EXCEPT ![t] = "run"]
  /\ UNCHANGED <<synch, timing, threads, service, scan, other_errors_found, mutexes, option>>

\* cppguard_cnd_wait: the time is not looked at until the last lock is left.
CndWait(t) ==
  /\ "cnd_wait" \in Ops /\ pc[t] = "in" /\ start[synch[t]] = "on"
  /\ SetStart(synch[t], "never")
  /\ UNCHANGED <<pc, synch, threads, service, scan, other_errors_found, mutexes, option>>

\* on_thread_delete_t: the thread lets go of its object, which lives on if the
\* list has it, then ...
Watched(t) == \E i \in DOMAIN threads : synch[t] = threads[i].synch
ThreadExit(t) ==
  /\ "exit" \in Ops /\ pc[t] = "run" /\ synch[t] # NoSynch
  /\ synch' = [synch EXCEPT ![t] = NoSynch]
  /\ IF Watched(t) THEN UNCHANGED timing ELSE SetStart(synch[t], "off")
  /\ pc' = [pc EXCEPT ![t] = IF enabled THEN "exit" ELSE "run"]
  /\ UNCHANGED <<threads, service, scan, other_errors_found, mutexes, option>>

\* ... remove_thread: the last entry takes the place of the thread's first one.
Entries(t) == {i \in DOMAIN threads : threads[i].id = t}
FirstEntry(t) == CHOOSE i \in Entries(t) : \A j \in Entries(t) : i <= j

\* Mutants of Without: the entry that is moved loses its mark; pop_back comes
\* first and the last entry is lost; the last entry is not moved.
WithoutMark(i) ==
  [j \in 1 .. Len(threads) - 1 |->
     IF j = i THEN [threads[Len(threads)] EXCEPT !.logged = FALSE] ELSE threads[j]]
PopBack(i) == SubSeq(threads, 1, Len(threads) - 1)
WithoutLast(i) ==
  [j \in 1 .. Len(threads) - 1 |-> threads[IF j = i THEN Len(threads) - 1 ELSE j]]

Without(i) == [j \in 1 .. Len(threads) - 1 |-> threads[IF j = i THEN Len(threads) ELSE j]]

RemoveThread(t) ==
  /\ pc[t] = "exit" /\ list_mutex = Free
  /\ IF Entries(t) = {} THEN UNCHANGED <<threads, timing>>
     ELSE /\ threads' = Without(FirstEntry(t))
          /\ SetStart(threads[FirstEntry(t)].synch, "off")
  /\ pc' = [pc EXCEPT ![t] = "run"]
  /\ UNCHANGED <<synch, service, scan, other_errors_found, mutexes, option>>

-----------------------------------------------------------------------------
(* The callback, one_shot_timer_callback.                                  *)

\* The list mutex is taken, then the time is.
ScanStart(c) ==
  /\ cb[c] = "scan" /\ list_mutex = Free
  /\ list_mutex' = c /\ at' = 1 /\ lag' = 0
  /\ cb' = [cb EXCEPT ![c] = "scanning"]
  /\ UNCHANGED <<pc, synch, timing, threads, timers, found, other_errors_found, graph_mutex,
                 option>>

\* Mutant of Unlocked: a time that starts after "now" is not sorted out, and
\* now - lock_start_time_point is a huge number.
UnlockedOnly(s) == start[s] # "on"

\* The start time is 0, or not before "now".
Unlocked(s) == start[s] # "on" \/ age[s] <= lag

\* now - lock_start_time_point, a uint64_t, is at least the maximum.
Long(s) == age[s] < lag \/ age[s] - lag >= Limit

Mark(i, value) == threads' = [threads EXCEPT ![i].logged = value]

\* Mutant of ScanPass: the scan ends at an entry that was reported.
ScanPassStops(c) ==
  /\ cb[c] = "scanning" /\ at <= Len(threads)
  /\ LET e == threads[at] IN
       \/ /\ Unlocked(e.synch)
          /\ Mark(at, FALSE) /\ at' = at + 1
       \/ /\ ~Unlocked(e.synch)
          /\ e.logged \/ ~Long(e.synch)
          /\ at' = IF e.logged THEN Len(threads) + 1 ELSE at + 1
          /\ UNCHANGED threads
  /\ UNCHANGED <<pc, synch, timing, service, found, lag, other_errors_found, mutexes, option>>

\* The next entry, which is not to be reported.
ScanPass(c) ==
  /\ cb[c] = "scanning" /\ at <= Len(threads)
  /\ LET e == threads[at] IN
       \/ /\ Unlocked(e.synch)
          /\ Mark(at, FALSE)
       \/ /\ ~Unlocked(e.synch)
          /\ e.logged \/ ~Long(e.synch)
          /\ UNCHANGED threads
  /\ at' = at + 1
  /\ UNCHANGED <<pc, synch, timing, service, found, lag, other_errors_found, mutexes, option>>

\* Mutant of ScanFind: the list mutex is kept for the report.
ScanFindLocked(c) ==
  /\ cb[c] = "scanning" /\ at <= Len(threads)
  /\ LET e == threads[at] IN
       /\ ~Unlocked(e.synch) /\ ~e.logged /\ Long(e.synch)
       /\ found' = [found EXCEPT ![c] = e.synch]
       /\ told' = told \cup {e.synch}
  /\ Mark(at, TRUE)
  /\ cb' = [cb EXCEPT ![c] = "report"]
  /\ UNCHANGED <<pc, synch, start, age, timers, at, lag, other_errors_found, mutexes, option>>

\* ... which is: it is marked, and the scan ends there.
ScanFind(c) ==
  /\ cb[c] = "scanning" /\ at <= Len(threads)
  /\ LET e == threads[at] IN
       /\ ~Unlocked(e.synch) /\ ~e.logged /\ Long(e.synch)
       /\ found' = [found EXCEPT ![c] = e.synch]
       /\ told' = told \cup {e.synch}
  /\ Mark(at, TRUE)
  /\ list_mutex' = Free /\ at' = 1 /\ lag' = 0
  /\ cb' = [cb EXCEPT ![c] = "report"]
  /\ UNCHANGED <<pc, synch, start, age, timers, other_errors_found, graph_mutex, option>>

ScanEnd(c) ==
  /\ cb[c] = "scanning" /\ at > Len(threads)
  /\ list_mutex' = Free /\ at' = 1 /\ lag' = 0
  /\ cb' = [cb EXCEPT ![c] = "restart"]
  /\ UNCHANGED <<pc, synch, timing, threads, timers, found, other_errors_found, graph_mutex,
                 option>>

\* process_watchdog_error; the history is read under the graph mutex.
Report(c) ==
  /\ cb[c] = "report" /\ graph_mutex = Free
  /\ other_errors_found' = TRUE
  /\ cb' = [cb EXCEPT ![c] = "restart"]
  /\ UNCHANGED <<pc, synch, timing, threads, timers, scan, mutexes, option>>

\* Mutant of Restart: no timer when the callback has reported something.
RestartUnlessReported(c) ==
  /\ cb[c] = "restart" /\ list_mutex = Free
  /\ IF threads = <<>> \/ other_errors_found THEN UNCHANGED timers ELSE StartTimer
  /\ cb' = [cb EXCEPT ![c] = "idle"] /\ found' = [found EXCEPT ![c] = NoSynch]
  /\ UNCHANGED <<pc, synch, timing, threads, at, lag, other_errors_found, mutexes, option>>

\* The timer is started again as long as there are threads; the callback
\* lets go of the object it reported.
Restart(c) ==
  /\ cb[c] = "restart" /\ list_mutex = Free
  /\ IF threads = <<>> THEN UNCHANGED timers ELSE StartTimer
  /\ cb' = [cb EXCEPT ![c] = "idle"] /\ found' = [found EXCEPT ![c] = NoSynch]
  /\ UNCHANGED <<pc, synch, timing, threads, at, lag, other_errors_found, mutexes, option>>

-----------------------------------------------------------------------------
ThreadStep(t) == \/ FirstCall(t) \/ AddThread(t) \/ Begin(t) \/ End(t) \/ TryFails(t)
                 \/ CndWait(t) \/ ThreadExit(t) \/ RemoveThread(t)
CallbackStep(c) == \/ TimerExpires(c) \/ ScanStart(c) \/ ScanPass(c) \/ ScanFind(c) \/ ScanEnd(c)
                   \/ Report(c) \/ Restart(c)

Next == Tick \/ (\E t \in Thread : ThreadStep(t)) \/ (\E c \in Callback : CallbackStep(c))

Spec == Init /\ [][Next]_vars

\* A monitor call that has begun, and the timer with its callback, go on:
\* strong fairness, as they need mutexes that others take for moments only.
CallStep(t) == AddThread(t) \/ RemoveThread(t) \/ (pc[t] = "begin" /\ Begin(t))
Fairness == /\ WF_vars(Tick)
            /\ \A t \in Thread : SF_vars(CallStep(t))
            /\ \A c \in Callback : SF_vars(CallbackStep(c))

FairSpec == Spec /\ Fairness

-----------------------------------------------------------------------------
(* Properties.                                                             *)

\* As long as there are threads to watch, a timer is pending or a callback is
\* under way, whatever threads come and go while the callback has let go of
\* the list (thread_watchdog.cpp:56, 134).
WatchdogKeepsRunning == threads # <<>> => timers > 0 \/ \E c \in Callback : cb[c] # "idle"

\* The list is the threads that registered and have not ended, each once and
\* with its own SynchLocksHeld; it is empty if the option is off.
Registered(t) == \/ pc[t] \in {"begin", "in", "exit"}
                 \/ pc[t] = "run" /\ synch[t] # NoSynch
ListMatchesThreads ==
  /\ \A t \in Thread : enabled /\ Registered(t) <=> Entries(t) # {}
  /\ \A i \in DOMAIN threads : LET e == threads[i] IN
       Entries(e.id) = {i} /\ (pc[e.id] # "exit" => synch[e.id] = e.synch)

\* What the callback reports has lasted the maximum, also when the thread took
\* the lock after the callback read the time.
Finds(c, s) == found[c] = NoSynch /\ found'[c] = s
ReportsAreDue ==
  [][\A c \in Callback, s \in Synch : Finds(c, s) => start[s] = "on" /\ age[s] >= Limit]_vars

\* ... and is reported once, although entries move in the list and, on
\* Windows, several callbacks may run (m_already_logged).
OneReportPerTime ==
  [][\A c \in Callback, s \in Synch : Finds(c, s) => s \notin told]_vars

\* A monitor call and a callback return: the graph mutex and the list mutex,
\* which threads and callback take nested, do not block for ever.
CallsReturn ==
  /\ \A t \in Thread : pc[t] \in {"add", "begin", "exit"} ~> pc[t] \in {"run", "in"}
  /\ \A c \in Callback : cb[c] = "scan" ~> cb[c] = "idle"

\* A thread in the list that waits for or holds locks for ever is reported if
\* its entry has no mark left, unless threads end without end (README.md:80).
NoTurnover == <>[][\A t \in Thread : pc'[t] = "exit" => pc[t] = "exit"]_vars
Unmarked(t) == \E i \in DOMAIN threads : threads[i].synch = synch[t] /\ ~threads[i].logged
Timed(t) == pc[t] = "in" /\ start[synch[t]] = "on"
TimesAreReported ==
  NoTurnover => \A t \in Thread : (Timed(t) /\ Unmarked(t)) ~> (~Timed(t) \/ synch[t] \in told)

\* ... whether or not it has a mark: "The time a lock is waiting for a lock or
\* holding a lock is monitored and a log or error is created if a maximum time
\* is exceeded" (README.md:80).
EveryTimeIsReported ==
  NoTurnover => \A t \in Thread : (Timed(t) /\ Watched(t)) ~> (~Timed(t) \/ synch[t] \in told)
=============================================================================

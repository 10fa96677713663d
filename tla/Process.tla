------------------------------ MODULE Process ------------------------------
(***************************************************************************)
(* A Linux process with CppGuard, from the load of the library to its end: *)
(* dl_main.cpp with the option calls (dll_exports/deadlock_monitor_api.cpp) *)
(* and the halt on an error (log_helper.cpp), around the thread watchdog.  *)
(*                                                                         *)
(* A thread calls the monitor up to the moment it is freed; a later call   *)
(* is undefined behaviour and not modelled.  Of the monitor's own errors   *)
(* only the report and the flag are here (DeadlockMonitor has the rest).   *)
(***************************************************************************)
EXTENDS ThreadWatchdog, RuntimeOptions

CONSTANTS OptionString,   \* the strings of CPPGUARD and of cppguard_set_options
          Errors,         \* errors of the monitor calls: "deadlock", "other"
          MaxSections     \* bound: critical sections at one time

ASSUME StringsAssumption == OptionString \subseteq Seq(Part)
ASSUME ErrorsAssumption == Errors \subseteq {"deadlock", "other"}
ASSUME LinuxAssumption == Platforms = {"linux"}
ASSUME SectionsAssumption == MaxSections \in Nat

VARIABLES
  phase,      \* "load", "run", "join" and "last" with m_shutdown set, "summary",
              \* "decide", "ended"
  options,    \* g_runtime_options
  call,       \* the string being parsed, how many parts are, the options before
  potential_deadlocks_found,
  flags,      \* the two flags as the destructor read them
  open,       \* initialized less deleted critical sections
  summary, exit

parsing == <<options, call>>
ending == <<flags, summary, exit>>
processVars == <<phase, parsing, potential_deadlocks_found, ending, open>>
allVars == <<vars, processVars>>

NoCall == [on |-> FALSE, parts |-> <<>>, done |-> 0, before |-> Defaults]

OptionsOK == /\ DOMAIN options = DOMAIN Defaults
             /\ \A key \in Flags : options[key] \in BOOLEAN
             /\ options.thread_watchdog_max_duration_sec \in 2 .. MaxDuration
             /\ options.exit_code \in 0 .. 126

ProcessTypeOK ==
  /\ TypeOK /\ OptionsOK
  /\ phase \in {"load", "run", "join", "last", "summary", "decide", "ended"}
  /\ call.on \in BOOLEAN /\ call.parts \in OptionString \cup {<<>>}
  /\ call.done \in 0 .. Len(call.parts)
  /\ potential_deadlocks_found \in BOOLEAN
  /\ flags \in BOOLEAN \X BOOLEAN /\ open \in 0 .. MaxSections
  /\ summary \in {"none", "ok", "error"} /\ exit \in {"none", "main", "killed"}

ProcessInit ==
  /\ Init /\ enabled = Defaults.thread_watchdog
  /\ phase = "load"
  /\ options = Defaults /\ call = NoCall
  /\ potential_deadlocks_found = FALSE
  /\ flags = <<FALSE, FALSE>> /\ open = 0
  /\ summary = "none" /\ exit = "none"

-----------------------------------------------------------------------------
(* Options: parse_options over CPPGUARD at the load, later over the string *)
(* of a cppguard_set_options.  Part by part, while other threads read.     *)

NoVariable ==
  /\ phase = "load" /\ ~call.on
  /\ phase' = "run"
  /\ UNCHANGED <<vars, parsing, potential_deadlocks_found, ending, open>>

Parse(parts) ==
  /\ phase \in {"load", "run"} /\ ~call.on
  /\ call' = [on |-> TRUE, parts |-> parts, done |-> 0, before |-> options]
  /\ UNCHANGED <<vars, phase, options, potential_deadlocks_found, ending, open>>

Current == call.parts[call.done + 1]
AllDone == call.done = Len(call.parts)

ApplyPart ==
  /\ phase # "ended" /\ call.on /\ ~AllDone /\ Accepted(Current)
  /\ options' = Apply(options, Current)
  /\ enabled' = options'.thread_watchdog
  /\ call' = [call EXCEPT !.done = @ + 1]
  /\ UNCHANGED <<pc, synch, timing, threads, service, scan, other_errors_found, mutexes,
                 platform, phase, potential_deadlocks_found, ending, open>>

\* An empty string and a part that is not accepted throw.  The call catches
\* an invalid_argument only; at the load nothing does.
Answer == IF call.parts = <<>> THEN "0"
          ELSE IF AllDone THEN "1"
          ELSE IF Refusal(Current) = "invalid_argument" THEN "0" ELSE "thrown"

\* Mutant of ParseEnds: what was applied of a refused string is taken back.
ParseEndsClean ==
  /\ phase # "ended" /\ call.on /\ (~AllDone => ~Accepted(Current))
  /\ call' = NoCall
  /\ options' = IF Answer = "1" THEN options ELSE call.before
  /\ enabled' = options'.thread_watchdog
  /\ IF phase = "load" /\ Answer # "1" THEN phase' = "ended" /\ exit' = "killed"
     ELSE phase' = "run" /\ UNCHANGED exit
  /\ UNCHANGED <<pc, synch, timing, threads, service, scan, other_errors_found, mutexes,
                 platform, potential_deadlocks_found, flags, summary, open>>

ParseEnds ==
  /\ phase # "ended" /\ call.on /\ (~AllDone => ~Accepted(Current))
  /\ call' = NoCall
  /\ IF phase = "load" /\ Answer # "1" THEN phase' = "ended" /\ exit' = "killed"
     ELSE phase' = "run" /\ UNCHANGED exit
  /\ UNCHANGED <<vars, options, potential_deadlocks_found, flags, summary, open>>

-----------------------------------------------------------------------------
(* Errors.                                                                 *)

\* process_error: the error is logged; with halt_on_error that was the last
\* thing the process did.
ProcessError ==
  IF options.halt_on_error THEN phase' = "ended" /\ exit' = "killed"
  ELSE UNCHANGED <<phase, exit>>

\* A monitor call finds a potential deadlock or another error: its flag is set
\* behind process_error (one step here).
Monitored == phase \in {"run", "join", "last"}
MonitorError(kind) ==
  /\ Monitored /\ ProcessError
  /\ potential_deadlocks_found' = (potential_deadlocks_found \/ kind = "deadlock")
  /\ other_errors_found' = (other_errors_found \/ kind = "other")
  /\ UNCHANGED <<pc, synch, timing, threads, service, scan, mutexes, option, parsing, flags,
                 summary, open>>

\* The thread watchdog's report is such an error too, flagged first.
WatchdogReport(c) ==
  /\ Monitored /\ Report(c) /\ ProcessError
  /\ UNCHANGED <<parsing, potential_deadlocks_found, flags, summary, open>>

\* The steps of the threads, and of the callback up to its end.
Watchdog == \/ Tick
            \/ \E t \in Thread : ThreadStep(t)
            \/ \E c \in Callback : ScanStart(c) \/ ScanPass(c) \/ ScanFind(c) \/ ScanEnd(c)
WatchdogRuns == Monitored /\ Watchdog /\ UNCHANGED processVars

-----------------------------------------------------------------------------
(* The end of the process: ~loader_t.                                      *)

\* Critical sections are counted without a look at the monitor.
InitCS == /\ phase \notin {"load", "ended"} /\ open < MaxSections
          /\ open' = open + 1
          /\ UNCHANGED <<vars, phase, parsing, potential_deadlocks_found, ending>>
DeleteCS == /\ Monitored /\ open > 0
            /\ open' = open - 1
            /\ UNCHANGED <<vars, phase, parsing, potential_deadlocks_found, ending>>

\* The flags are read; then the monitor is deleted, which sets m_shutdown
\* first and waits for the timer's loop.
ReadFlags ==
  /\ phase = "run" /\ ~call.on
  /\ flags' = <<potential_deadlocks_found, other_errors_found>>
  /\ phase' = "join"
  /\ UNCHANGED <<vars, parsing, potential_deadlocks_found, summary, exit, open>>

\* The loop looks at m_shutdown between two turns: it may run the callback
\* once more, and not again after one.
Expires(c) == /\ phase \in {"run", "join"} /\ TimerExpires(c)
              /\ UNCHANGED processVars
Returns(c) == /\ Monitored /\ Restart(c)
              /\ phase' = IF phase = "join" THEN "last" ELSE phase
              /\ UNCHANGED <<parsing, potential_deadlocks_found, ending, open>>

\* Mutant of LoopEnds: the callback is not waited for.
LoopCutOff ==
  /\ phase \in {"join", "last"}
  /\ phase' = "summary"
  /\ UNCHANGED <<vars, parsing, potential_deadlocks_found, ending, open>>

\* The loop has ended and the monitor is gone.
LoopEnds ==
  /\ phase \in {"join", "last"} /\ \A c \in Callback : cb[c] = "idle"
  /\ phase' = "summary"
  /\ UNCHANGED <<vars, parsing, potential_deadlocks_found, ending, open>>

HasError == flags[1] \/ flags[2] \/ open # 0
Summary ==
  /\ phase = "summary"
  /\ summary' = IF options.log = "disable" THEN "none"
                ELSE IF HasError THEN "error" ELSE "ok"
  /\ phase' = "decide"
  /\ UNCHANGED <<vars, parsing, potential_deadlocks_found, flags, exit, open>>

\* Mutant of Decide: only a potential deadlock fails the process.
DecideDeadlocks ==
  /\ phase = "decide"
  /\ exit' = IF flags[1] /\ options.fail_process_in_case_of_error THEN "killed" ELSE "main"
  /\ phase' = "ended"
  /\ UNCHANGED <<vars, parsing, potential_deadlocks_found, flags, summary, open>>

\* The breakpoint kills a process without a debugger, before its SIGKILL.
Decide ==
  /\ phase = "decide"
  /\ exit' = IF HasError /\ options.fail_process_in_case_of_error THEN "killed" ELSE "main"
  /\ phase' = "ended"
  /\ UNCHANGED <<vars, parsing, potential_deadlocks_found, flags, summary, open>>

-----------------------------------------------------------------------------
OptionStep == \/ NoVariable \/ ApplyPart \/ ParseEnds
              \/ \E parts \in OptionString : Parse(parts)
Unload == LoopEnds \/ Summary \/ Decide
TimerStep(c) == Expires(c) \/ Returns(c) \/ WatchdogReport(c)

ProcessNext == \/ OptionStep \/ WatchdogRuns
               \/ \E kind \in Errors : MonitorError(kind)
               \/ \E c \in Callback : TimerStep(c)
               \/ InitCS \/ DeleteCS \/ ReadFlags \/ Unload

ProcessSpec == ProcessInit /\ [][ProcessNext]_allVars

-----------------------------------------------------------------------------
(* Properties.                                                             *)

\* What an option call leaves are the options of the parts in front of the
\* first one that is refused, each with its last value, and it answers 1 if
\* no part was refused (options_parser.cpp:49, deadlock_monitor_api.cpp:48).
Refused == {i \in DOMAIN call.parts : ~Accepted(call.parts[i])}
Prefix == IF Refused = {} THEN Len(call.parts)
          ELSE (CHOOSE i \in Refused : \A j \in Refused : i <= j) - 1
OptionsAreAsTold ==
  [][call.on /\ ~call'.on =>
       /\ options' = InForce(call.before, call.parts, Prefix)
       /\ Answer = "1" <=> call.parts # <<>> /\ Refused = {}]_allVars

\* Also when the thread watchdog is switched on and off and thread ids are
\* used again, no step takes a living thread out of the list
\* (thread_watchdog.cpp:73).
WatchedStaysWatched ==
  [][\A t \in Thread : Watched(t) /\ synch'[t] = synch[t] => Watched(t)']_allVars

\* Once the monitor is deleted, no callback is under way or comes.
NoCallbackAfterDelete ==
  phase \in {"summary", "decide"} => \A c \in Callback : cb[c] = "idle"

\* How far the exit agrees with the summary, which reads the counters first
\* (dl_main.cpp:115, 119).  A summary that tells an error fails the process, if
\* that is asked for.  One that tells none ("ok") does not rule out that it fails
\* all the same: but only for critical sections initialized behind it.
ExitFollowsSummary ==
  LET fails == options.fail_process_in_case_of_error IN
  phase = "ended" /\ summary # "none" =>
    /\ summary = "error" /\ fails => exit = "killed"
    /\ exit = "killed" => /\ fails
                          /\ summary = "ok" => open # 0 /\ ~flags[1] /\ ~flags[2]
=============================================================================

---------------------------- MODULE ProcessProofs ----------------------------
(***************************************************************************)
(* Theorems about the end of a process with CppGuard, for every set of     *)
(* threads, every program and every sequence of option strings.            *)
(***************************************************************************)
EXTENDS Process, ThreadWatchdogProofs

-----------------------------------------------------------------------------
(* No callback after the monitor is deleted.                               *)

LEMMA AfterDeleteStep ==
  NoCallbackAfterDelete /\ [ProcessNext]_allVars => NoCallbackAfterDelete'
<1> SUFFICES ASSUME NoCallbackAfterDelete, [ProcessNext]_allVars PROVE NoCallbackAfterDelete'
  OBVIOUS
<1>1. CASE UNCHANGED <<phase, cb>>
  BY <1>1 DEF NoCallbackAfterDelete
<1>2. CASE phase' \notin {"summary", "decide"}
  BY <1>2 DEF NoCallbackAfterDelete
<1>3. CASE LoopEnds \/ Summary
  BY <1>3 DEF LoopEnds, Summary, vars, service, NoCallbackAfterDelete
<1>4. CASE OptionStep
  BY <1>1, <1>2, <1>4 DEF OptionStep, NoVariable, Parse, ApplyPart, ParseEnds, vars, service
<1>5. CASE WatchdogRuns
  BY <1>2, <1>5 DEF WatchdogRuns, Monitored, processVars
<1>6. ASSUME NEW kind \in Errors, MonitorError(kind) PROVE NoCallbackAfterDelete'
  BY <1>2, <1>6 DEF MonitorError, ProcessError, Monitored
<1>7. ASSUME NEW c \in Callback, TimerStep(c) PROVE NoCallbackAfterDelete'
  BY <1>2, <1>7 DEF TimerStep, Expires, Returns, WatchdogReport, ProcessError, Monitored, processVars
<1>8. CASE InitCS \/ DeleteCS
  BY <1>1, <1>8 DEF InitCS, DeleteCS, vars, service
<1>9. CASE ReadFlags \/ Decide
  BY <1>2, <1>9 DEF ReadFlags, Decide
<1>10. CASE UNCHANGED allVars
  BY <1>1, <1>10 DEF allVars, vars, service, processVars
<1> QED
  BY <1>3, <1>4, <1>5, <1>6, <1>7, <1>8, <1>9, <1>10 DEF ProcessNext, Unload

\* Once the monitor is deleted, no callback of its timer is under way or comes
\* (the join in one_shot_timer.cpp:69).
THEOREM NoLateCallback == ProcessSpec => []NoCallbackAfterDelete
<1>1. ProcessInit => NoCallbackAfterDelete
  BY DEF ProcessInit, NoCallbackAfterDelete
<1> QED
  BY <1>1, AfterDeleteStep, PTL DEF ProcessSpec

-----------------------------------------------------------------------------
(* The exit of the process and what its summary said.                      *)

\* No option changes once the flags are read; a summary that told an error
\* still has one when the exit is decided, as a critical section that is
\* initialized meanwhile takes none away; one that told none has no flag set.
ExitInv ==
  /\ open \in Nat
  /\ phase \in {"join", "last", "summary", "decide"} => ~call.on
  /\ phase \in {"load", "run", "join", "last", "summary"} => summary = "none"
  /\ phase = "decide" /\ summary = "error" => HasError
  /\ phase = "decide" /\ summary = "ok" => ~flags[1] /\ ~flags[2]
  /\ ExitFollowsSummary
  /\ phase \in {"load", "run", "join", "last", "summary", "decide", "ended"}

LEMMA ExitSame ==
  ASSUME ExitInv, UNCHANGED <<phase, options, call, flags, summary, exit>>,
         \/ open' = open
         \/ open' = open + 1 /\ phase # "ended"
         \/ open' = open - 1 /\ open > 0 /\ phase \in {"run", "join", "last"}
  PROVE  ExitInv'
<1>1. open' \in Nat /\ (phase = "decide" /\ open # 0 => open' # 0)
  BY DEF ExitInv
<1> QED
  BY <1>1 DEF ExitInv, ExitFollowsSummary, HasError

\* A process that was killed before its summary has none.
LEMMA Killed ==
  ASSUME ExitInv, phase \in {"run", "join", "last"}, UNCHANGED summary,
         phase' = "ended", exit' = "killed", UNCHANGED open
  PROVE  ExitInv'
BY DEF ExitInv, ExitFollowsSummary

LEMMA ExitStep == ExitInv /\ [ProcessNext]_allVars => ExitInv'
<1> SUFFICES ASSUME ExitInv, [ProcessNext]_allVars PROVE ExitInv'
  OBVIOUS
<1>1. CASE OptionStep
  <2>1. CASE NoVariable \/ (\E parts \in OptionString : Parse(parts))
    BY <2>1 DEF NoVariable, Parse, NoCall, ExitInv, ExitFollowsSummary, parsing, ending
  <2>2. CASE ApplyPart
    BY <2>2 DEF ApplyPart, ExitInv, ExitFollowsSummary, ending
  <2>3. CASE ParseEnds
    BY <2>3 DEF ParseEnds, NoCall, ExitInv, ExitFollowsSummary
  <2> QED
    BY <1>1, <2>1, <2>2, <2>3 DEF OptionStep
<1>2. CASE WatchdogRuns
  BY <1>2, ExitSame DEF WatchdogRuns, processVars, parsing, ending
<1>3. ASSUME NEW kind \in Errors, MonitorError(kind) PROVE ExitInv'
  BY <1>3, ExitSame, Killed DEF MonitorError, Monitored, ProcessError, parsing
<1>4. ASSUME NEW c \in Callback, TimerStep(c) PROVE ExitInv'
  <2>1. CASE Expires(c)
    BY <2>1, ExitSame DEF Expires, processVars, parsing, ending
  <2>2. CASE Returns(c)
    BY <2>2 DEF Returns, Monitored, ExitInv, ExitFollowsSummary, parsing, ending
  <2>3. CASE WatchdogReport(c)
    BY <2>3, ExitSame, Killed DEF WatchdogReport, Monitored, ProcessError, parsing
  <2> QED
    BY <1>4, <2>1, <2>2, <2>3 DEF TimerStep
<1>5. CASE InitCS \/ DeleteCS
  BY <1>5, ExitSame DEF InitCS, DeleteCS, Monitored, parsing, ending, ExitInv
<1>6. CASE ReadFlags
  BY <1>6 DEF ReadFlags, ExitInv, ExitFollowsSummary, parsing
<1>7. CASE LoopEnds
  BY <1>7 DEF LoopEnds, ExitInv, ExitFollowsSummary, parsing, ending
<1>8. CASE Summary
  BY <1>8 DEF Summary, ExitInv, ExitFollowsSummary, HasError, parsing
<1>9. CASE Decide
  BY <1>9 DEF Decide, ExitInv, ExitFollowsSummary, HasError, parsing
<1>10. CASE UNCHANGED allVars
  BY <1>10, ExitSame DEF allVars, processVars, parsing, ending
<1> QED
  BY <1>1, <1>2, <1>3, <1>4, <1>5, <1>6, <1>7, <1>8, <1>9, <1>10 DEF ProcessNext, Unload

\* The counters are read a second time for the exit, while the program goes on
\* (dl_main.cpp:115, 119): an error that the summary told still fails the process,
\* and after a summary without one only a critical section initialized since can.
THEOREM ExitsFollowSummaries == ProcessSpec => []ExitFollowsSummary
<1>1. ProcessInit => ExitInv
  BY DEF ProcessInit, NoCall, ExitInv, ExitFollowsSummary
<1>2. ExitInv => ExitFollowsSummary
  BY DEF ExitInv
<1> QED
  BY <1>1, <1>2, ExitStep, PTL DEF ProcessSpec

-----------------------------------------------------------------------------
(* What an option call leaves in force.                                    *)

OptionKeys == DOMAIN Defaults
IsOptions(o) == o = [key \in OptionKeys |-> o[key]]

LEMMA KeyFacts ==
  /\ OptionKeys = Keys \cup {"log_file"} /\ "log_file" \notin Keys
  /\ Keys = Flags \cup Numbers \cup {"log"}
  /\ "log" \notin Flags /\ "log" \notin Numbers /\ Flags \cap Numbers = {}
BY DEF OptionKeys, Defaults, Keys, Flags, Numbers

LEMMA DefaultsAreOptions == IsOptions(Defaults)
BY DEF IsOptions, OptionKeys, Defaults

\* What one accepted part does: the option it names gets its value, and a log
\* that is a file gets the name of the file besides.
ValueOf(p) == IF p.key = "log" THEN KindOfLog(p.text)
              ELSE IF p.key \in Flags THEN p.text = "1" ELSE p.number
NamesFile(p) == p.key = "log" /\ KindOfLog(p.text) = "file"

LEMMA ApplyFacts ==
  ASSUME NEW o, IsOptions(o), NEW p, Accepted(p)
  PROVE  Apply(o, p) = [key \in OptionKeys |->
                          IF key = "log_file" THEN IF NamesFile(p) THEN p.text ELSE o[key]
                          ELSE IF key = p.key THEN ValueOf(p) ELSE o[key]]
<1>1. /\ p.key \in Keys /\ "log" \in OptionKeys /\ "log_file" \in OptionKeys
      /\ p.key \in OptionKeys /\ p.key # "log_file"
  BY KeyFacts DEF Accepted, WellFormed
<1>2. CASE p.key = "log" /\ p.text \in {"disable", "stdout", "stderr"}
  <2>1. Apply(o, p) = [o EXCEPT !["log"] = p.text]
    BY <1>2, KeyFacts DEF Apply
  <2>2. ValueOf(p) = p.text /\ ~NamesFile(p)
    BY <1>2 DEF ValueOf, NamesFile, KindOfLog
  <2> QED
    BY <1>1, <1>2, <2>1, <2>2 DEF IsOptions
<1>3. CASE p.key = "log" /\ p.text \notin {"disable", "stdout", "stderr"}
  <2>1. Apply(o, p) = [o EXCEPT !["log"] = "file", !["log_file"] = p.text]
    BY <1>3, KeyFacts DEF Apply
  <2>2. ValueOf(p) = "file" /\ NamesFile(p)
    BY <1>3 DEF ValueOf, NamesFile, KindOfLog
  <2> QED
    BY <1>1, <1>3, <2>1, <2>2 DEF IsOptions
<1>4. CASE p.key \in Flags
  <2>1. Apply(o, p) = [o EXCEPT ![p.key] = (p.text = "1")]
    BY <1>4, KeyFacts DEF Apply
  <2>2. ValueOf(p) = (p.text = "1") /\ ~NamesFile(p)
    BY <1>4, KeyFacts DEF ValueOf, NamesFile
  <2> QED
    BY <1>1, <1>4, <2>1, <2>2 DEF IsOptions
<1>5. CASE p.key \in Numbers
  <2>1. Apply(o, p) = [o EXCEPT ![p.key] = p.number]
    BY <1>5, KeyFacts DEF Apply
  <2>2. ValueOf(p) = p.number /\ ~NamesFile(p)
    BY <1>5, KeyFacts DEF ValueOf, NamesFile
  <2> QED
    BY <1>1, <1>5, <2>1, <2>2 DEF IsOptions
<1> QED
  BY <1>1, <1>2, <1>3, <1>4, <1>5, KeyFacts

\* The last of some parts is the one that was just added.
LEMMA LatestAdded ==
  ASSUME NEW n \in Nat, NEW S \in SUBSET (1 .. n) PROVE Latest(S \cup {n + 1}) = n + 1
<1> DEFINE T == S \cup {n + 1}
<1>1. n + 1 \in T /\ (\A j \in T : j <= n + 1) /\ T \subseteq Nat
  OBVIOUS
<1>2. \A i \in T : (\A j \in T : j <= i) => i = n + 1
  BY <1>1
<1> HIDE DEF T
<1>3. (CHOOSE i \in T : \A j \in T : j <= i) = n + 1
  BY <1>1, <1>2
<1> QED
  BY <1>3 DEF Latest, T

LEMMA OneMorePart ==
  ASSUME NEW parts, NEW n \in Nat, NEW key
  PROVE  /\ Named(parts, n, key) \subseteq 1 .. n /\ Files(parts, n) \subseteq 1 .. n
         /\ Named(parts, n + 1, key) = IF parts[n + 1].key = key
                                       THEN Named(parts, n, key) \cup {n + 1} ELSE Named(parts, n, key)
         /\ Files(parts, n + 1) = IF NamesFile(parts[n + 1])
                                  THEN Files(parts, n) \cup {n + 1} ELSE Files(parts, n)
<1>1. 1 .. n + 1 = (1 .. n) \cup {n + 1}
  OBVIOUS
<1> QED
  BY <1>1 DEF Named, Files, NamesFile

LEMMA NothingInForce ==
  ASSUME NEW before, IsOptions(before), NEW parts PROVE InForce(before, parts, 0) = before
<1>1. DOMAIN before = OptionKeys
  BY DEF IsOptions
<1>2. \A key : Named(parts, 0, key) = {} /\ Files(parts, 0) = {}
  BY DEF Named, Files
<1> QED
  BY <1>1, <1>2 DEF InForce, IsOptions

LEMMA InForceIsOptions ==
  ASSUME NEW before, IsOptions(before), NEW parts, NEW n PROVE IsOptions(InForce(before, parts, n))
<1> DEFINE value(o) ==
      IF o = "log_file"
      THEN IF Files(parts, n) = {} THEN before[o] ELSE parts[Latest(Files(parts, n))].text
      ELSE IF Named(parts, n, o) = {} THEN before[o]
      ELSE LET p == parts[Latest(Named(parts, n, o))] IN
             CASE o = "log" -> KindOfLog(p.text)
               [] o \in Flags -> p.text = "1"
               [] o \in Numbers -> p.number
<1>1. DOMAIN before = OptionKeys
  BY DEF IsOptions
<1>2. InForce(before, parts, n) = [o \in DOMAIN before |-> value(o)]
  BY DEF InForce
<1> HIDE DEF value
<1> QED
  BY <1>1, <1>2 DEF IsOptions

\* One more accepted part in front is one more turn of the loop.
LEMMA InForceNext ==
  ASSUME NEW before, IsOptions(before), NEW parts, NEW n \in Nat, Accepted(parts[n + 1])
  PROVE  InForce(before, parts, n + 1) = Apply(InForce(before, parts, n), parts[n + 1])
<1> DEFINE p == parts[n + 1]
           o == InForce(before, parts, n)
           q == InForce(before, parts, n + 1)
<1>1. DOMAIN before = OptionKeys
  BY DEF IsOptions
<1>2. p.key \in Keys /\ p.key # "log_file"
  BY KeyFacts DEF Accepted, WellFormed
<1>3. q["log_file"] = IF NamesFile(p) THEN p.text ELSE o["log_file"]
  <2>1. "log_file" \in DOMAIN before
    BY <1>1, KeyFacts
  <2>2. CASE NamesFile(p)
    <3>1. Files(parts, n + 1) = Files(parts, n) \cup {n + 1} /\ Files(parts, n) \subseteq 1 .. n
      BY <2>2, OneMorePart
    <3>2. Latest(Files(parts, n + 1)) = n + 1 /\ Files(parts, n + 1) # {}
      BY <3>1, LatestAdded
    <3> QED
      BY <2>1, <2>2, <3>2 DEF InForce
  <2>3. CASE ~NamesFile(p)
    <3>1. Files(parts, n + 1) = Files(parts, n)
      BY <2>3, OneMorePart
    <3> QED
      BY <2>1, <2>3, <3>1 DEF InForce
  <2> QED
    BY <2>2, <2>3
<1>4. ASSUME NEW key \in Keys PROVE q[key] = IF key = p.key THEN ValueOf(p) ELSE o[key]
  <2>1. key \in DOMAIN before /\ key # "log_file"
    BY <1>1, KeyFacts
  <2>2. CASE key = p.key
    <3>1. /\ Named(parts, n + 1, key) = Named(parts, n, key) \cup {n + 1}
          /\ Named(parts, n, key) \subseteq 1 .. n
      BY <2>2, OneMorePart
    <3>2. Latest(Named(parts, n + 1, key)) = n + 1 /\ Named(parts, n + 1, key) # {}
      BY <3>1, LatestAdded
    <3>3. q[key] = CASE key = "log" -> KindOfLog(p.text)
                     [] key \in Flags -> p.text = "1"
                     [] key \in Numbers -> p.number
      BY <2>1, <3>2 DEF InForce
    <3>4. CASE key = "log"
      BY <2>2, <3>3, <3>4, KeyFacts DEF ValueOf
    <3>5. CASE key \in Flags
      BY <2>2, <3>3, <3>5, KeyFacts DEF ValueOf
    <3>6. CASE key \in Numbers
      BY <2>2, <3>3, <3>6, KeyFacts DEF ValueOf
    <3> QED
      BY <2>2, <3>4, <3>5, <3>6, KeyFacts
  <2>3. CASE key # p.key
    <3>1. Named(parts, n + 1, key) = Named(parts, n, key)
      BY <2>3, OneMorePart
    <3>2. CASE key = "log"
      BY <2>1, <2>3, <3>1, <3>2, KeyFacts DEF InForce
    <3>3. CASE key \in Flags
      BY <2>1, <2>3, <3>1, <3>3, KeyFacts DEF InForce
    <3>4. CASE key \in Numbers
      BY <2>1, <2>3, <3>1, <3>4, KeyFacts DEF InForce
    <3> QED
      BY <3>2, <3>3, <3>4, KeyFacts
  <2> QED
    BY <2>2, <2>3
<1>5. q = [key \in OptionKeys |-> q[key]] /\ IsOptions(o)
  BY InForceIsOptions DEF IsOptions
<1>6. Apply(o, p) = [key \in OptionKeys |->
                       IF key = "log_file" THEN IF NamesFile(p) THEN p.text ELSE o[key]
                       ELSE IF key = p.key THEN ValueOf(p) ELSE o[key]]
  BY <1>5, ApplyFacts
<1> HIDE DEF p, o, q
<1>7. q = Apply(o, p)
  BY <1>3, <1>4, <1>5, <1>6, KeyFacts
<1> QED
  BY <1>7 DEF p, o, q

\* While a string is parsed, all parts so far were accepted, and the options
\* are what these parts make of the options before.
ParseInv ==
  /\ IsOptions(options)
  /\ call = [on |-> call.on, parts |-> call.parts, done |-> call.done, before |-> call.before]
  /\ call.on => /\ call.parts \in OptionString /\ call.done \in 0 .. Len(call.parts)
                /\ \A i \in 1 .. call.done : Accepted(call.parts[i])
                /\ IsOptions(call.before)
                /\ options = InForce(call.before, call.parts, call.done)

LEMMA ParseInit == ProcessInit => ParseInv
BY DefaultsAreOptions DEF ProcessInit, NoCall, ParseInv

LEMMA StringLength ==
  ASSUME NEW parts \in OptionString
  PROVE  Len(parts) \in Nat /\ DOMAIN parts = 1 .. Len(parts)
BY StringsAssumption

LEMMA ParseStep == ParseInv /\ [ProcessNext]_allVars => ParseInv'
<1> SUFFICES ASSUME ParseInv, [ProcessNext]_allVars PROVE ParseInv'
  OBVIOUS
<1>0. CASE UNCHANGED <<options, call>>
  BY <1>0 DEF ParseInv
<1>1. CASE \E parts \in OptionString : Parse(parts)
  <2>1. PICK parts \in OptionString : Parse(parts)
    BY <1>1
  <2>2. /\ call' = [on |-> TRUE, parts |-> parts, done |-> 0, before |-> options]
        /\ options' = options /\ IsOptions(options)
    BY <2>1 DEF Parse, ParseInv
  <2>3. 0 \in 0 .. Len(parts) /\ 1 .. 0 = {}
    BY StringLength
  <2>4. options = InForce(options, parts, 0)
    BY <2>2, NothingInForce
  <2> QED
    BY <2>2, <2>3, <2>4 DEF ParseInv
<1>2. CASE ApplyPart
  <2> DEFINE n == call.done
             parts == call.parts
  <2>1. /\ call.on /\ n # Len(parts) /\ Accepted(parts[n + 1])
        /\ options' = Apply(options, parts[n + 1])
        /\ call' = [call EXCEPT !.done = @ + 1]
    BY <1>2 DEF ApplyPart, AllDone, Current
  <2>2. /\ parts \in OptionString /\ n \in 0 .. Len(parts)
        /\ \A i \in 1 .. n : Accepted(parts[i])
        /\ IsOptions(call.before) /\ options = InForce(call.before, parts, n)
        /\ call = [on |-> call.on, parts |-> parts, done |-> n, before |-> call.before]
    BY <2>1 DEF ParseInv
  <2>3. call' = [on |-> TRUE, parts |-> parts, done |-> n + 1, before |-> call.before]
    BY <2>1, <2>2
  <2>4. n + 1 \in 0 .. Len(parts) /\ (1 .. n + 1) = (1 .. n) \cup {n + 1}
    BY <2>1, <2>2, StringLength
  <2>5. options' = InForce(call.before, parts, n + 1)
    BY <2>1, <2>2, InForceNext
  <2>6. IsOptions(options')
    BY <2>2, <2>5, InForceIsOptions
  <2> HIDE DEF n, parts
  <2> QED
    BY <2>1, <2>2, <2>3, <2>4, <2>5, <2>6 DEF ParseInv
<1>3. CASE ParseEnds
  BY <1>3 DEF ParseEnds, NoCall, ParseInv
<1> QED
  BY <1>0, <1>1, <1>2, <1>3
  DEF ProcessNext, OptionStep, NoVariable, WatchdogRuns, MonitorError, TimerStep, Expires, Returns,
      WatchdogReport, InitCS, DeleteCS, ReadFlags, Unload, LoopEnds, Summary, Decide, allVars,
      processVars, parsing, option

LEMMA OnlyParseEndsCalls ==
  ASSUME [ProcessNext]_allVars, call.on, ~call'.on PROVE ParseEnds \/ ApplyPart
BY DEF ProcessNext, OptionStep, NoVariable, Parse, WatchdogRuns, MonitorError, TimerStep, Expires,
       Returns, WatchdogReport, InitCS, DeleteCS, ReadFlags, Unload, LoopEnds, Summary, Decide,
       allVars, processVars, parsing

\* The parts in front of the first one that is refused are those that were
\* applied.
LEMMA PrefixIsDone ==
  ASSUME ParseInv, call.on, ~AllDone => ~Accepted(Current)
  PROVE  Prefix = call.done /\ (Refused = {} <=> AllDone)
<1> DEFINE n == call.done
<1>1. /\ DOMAIN call.parts = 1 .. Len(call.parts) /\ Len(call.parts) \in Nat
      /\ n \in 0 .. Len(call.parts) /\ \A i \in 1 .. n : Accepted(call.parts[i])
  BY StringLength DEF ParseInv
<1>2. CASE AllDone
  BY <1>1, <1>2 DEF AllDone, Prefix, Refused
<1>3. CASE ~AllDone
  <2>1. n + 1 \in DOMAIN call.parts /\ ~Accepted(call.parts[n + 1])
    BY <1>1, <1>3 DEF AllDone, Current
  <2>2. n + 1 \in Refused /\ \A j \in Refused : j \in Nat /\ n + 1 <= j
    BY <1>1, <2>1 DEF Refused
  <2>3. \A i \in Refused : (\A j \in Refused : i <= j) => i = n + 1
    BY <1>1, <2>2
  <2>4. (CHOOSE i \in Refused : \A j \in Refused : i <= j) = n + 1
    BY <2>2, <2>3
  <2> QED
    BY <1>1, <1>3, <2>2, <2>4 DEF Prefix
<1> QED
  BY <1>2, <1>3

\* What an option call leaves in force are the parts in front of the first one
\* that is refused, each option with its last value, although other threads go
\* on between the parts; and the caller is told 1 exactly if all were applied
\* (options_parser.cpp:49, deadlock_monitor_api.cpp:48).
THEOREM CallersAreToldRight == ProcessSpec => OptionsAreAsTold
<1>1. ASSUME ParseInv, [ProcessNext]_allVars, call.on, ~call'.on
      PROVE  /\ options' = InForce(call.before, call.parts, Prefix)
             /\ Answer = "1" <=> call.parts # <<>> /\ Refused = {}
  <2>1. ParseEnds
    <3>1. ASSUME ApplyPart PROVE FALSE
      BY <1>1, <3>1 DEF ApplyPart, ParseInv
    <3> QED
      BY <1>1, <3>1, OnlyParseEndsCalls
  <2>2. options' = options /\ (~AllDone => ~Accepted(Current))
    BY <2>1 DEF ParseEnds
  <2>3. Prefix = call.done /\ (Refused = {} <=> AllDone)
    BY <1>1, <2>2, PrefixIsDone
  <2>4. options' = InForce(call.before, call.parts, Prefix)
    BY <1>1, <2>2, <2>3 DEF ParseInv
  <2>5. Answer = "1" <=> call.parts # <<>> /\ Refused = {}
    BY <2>3 DEF Answer
  <2> QED
    BY <2>4, <2>5
<1>2. ParseInv /\ [ProcessNext]_allVars =>
        (call.on /\ ~call'.on =>
           /\ options' = InForce(call.before, call.parts, Prefix)
           /\ Answer = "1" <=> call.parts # <<>> /\ Refused = {})
  BY <1>1
<1> QED
  BY <1>2, ParseInit, ParseStep, PTL DEF ProcessSpec, OptionsAreAsTold

-----------------------------------------------------------------------------
(* Types, and whose object is whose.  The option may be switched while     *)
(* threads register and end, so the list is not what ListMatchesThreads    *)
(* says; that a call has an object, and an object one owner, is still so.  *)

ObjectInv == Steady /\ ReportInv

LEMMA ObjectInit == ProcessInit => ObjectInv
<1> SUFFICES ASSUME ProcessInit PROVE ObjectInv
  OBVIOUS
<1>1. Init
  BY DEF ProcessInit
<1>2. TypeOK
  BY <1>1, TypeInit
<1>3. CallsHaveObjects /\ NotYetListed
  BY <1>1 DEF Init, CallsHaveObjects, NotYetListed
<1> QED
  BY <1>1, <1>2, <1>3, ReportInit DEF ObjectInv, Steady

\* The list of objects and the threads stay.
LEMMA ObjectsSame ==
  ASSUME ObjectInv, UNCHANGED <<pc, synch>>, DOMAIN threads' = DOMAIN threads,
         \A i \in DOMAIN threads : /\ threads'[i].synch = threads[i].synch
                                   /\ threads'[i].id = threads[i].id
  PROVE  CallsHaveObjects' /\ NotYetListed' /\ \A t \in Thread : Watched(t) => Watched(t)'
<1>1. CallsHaveObjects'
  BY DEF ObjectInv, Steady, CallsHaveObjects
<1>2. NotYetListed'
  BY DEF ObjectInv, Steady, NotYetListed
<1> QED
  BY <1>1, <1>2 DEF Watched

\* No living thread is taken out of the list, by whatever step.
Kept == \A t \in Thread : Watched(t) /\ synch'[t] = synch[t] => Watched(t)'

LEMMA FirstCallObjects ==
  ASSUME ObjectInv, NEW t \in Thread, FirstCall(t) PROVE Steady' /\ Kept
<1>0. TypeOK /\ CallsHaveObjects /\ NotYetListed /\ Owned
  BY DEF ObjectInv, Steady, ReportInv
<1>1. (CHOOSE s \in Synch \ InUse : TRUE) \in Synch \ InUse
  BY DEF FirstCall
<1>2. PICK s \in Synch \ InUse : synch' = [synch EXCEPT ![t] = s]
  BY <1>1 DEF FirstCall
<1>3. /\ pc[t] = "run" /\ synch[t] = NoSynch
      /\ pc' = [pc EXCEPT ![t] = IF enabled THEN "add" ELSE "begin"]
      /\ UNCHANGED <<timing, threads, service, scan, other_errors_found, list_mutex, option>>
      /\ graph_mutex' \in {graph_mutex, t}
  BY DEF FirstCall
<1>4. /\ \A u \in Thread : synch[u] # s
      /\ \A i \in DOMAIN threads : threads[i].synch # s
  BY DEF InUse
<1>5. TypeOK'
  BY <1>0, <1>2, <1>3 DEF TypeOK, timing, service, scan, option
<1>6. CallsHaveObjects'
  BY <1>0, <1>2, <1>3 DEF TypeOK, CallsHaveObjects
<1>7. NotYetListed'
  BY <1>0, <1>2, <1>3, <1>4 DEF TypeOK, NotYetListed
<1>8. Kept
  BY <1>3 DEF Kept, Watched
<1> QED
  BY <1>5, <1>6, <1>7, <1>8 DEF Steady

LEMMA AddThreadObjects ==
  ASSUME ObjectInv, NEW t \in Thread, AddThread(t) PROVE Steady' /\ Kept
<1>0. TypeOK /\ CallsHaveObjects /\ NotYetListed /\ Owned
  BY DEF ObjectInv, Steady, ReportInv
<1> DEFINE e == [synch |-> synch[t], id |-> t, logged |-> FALSE]
<1>1. /\ pc[t] = "add" /\ threads' = Append(threads, e)
      /\ pc' = [pc EXCEPT ![t] = "begin"]
      /\ UNCHANGED <<synch, timing, cb, scan, other_errors_found, mutexes, option>>
  BY DEF AddThread
<1>2. synch[t] \in Synch /\ synch[t] # NoSynch
  BY <1>0, <1>1, NoSynchAssumption DEF CallsHaveObjects
<1>3. e \in Entry /\ e.id = t /\ e.synch = synch[t]
  BY <1>2 DEF Entry
<1> HIDE DEF e
<1>4. /\ threads' \in Seq(Entry) /\ Len(threads') = Len(threads) + 1 /\ Len(threads) \in Nat
      /\ threads'[Len(threads) + 1] = e
      /\ \A i \in 1 .. Len(threads) : threads'[i] = threads[i]
      /\ DOMAIN threads = 1 .. Len(threads) /\ DOMAIN threads' = 1 .. Len(threads) + 1
  BY <1>0, <1>1, <1>3 DEF TypeOK
<1>5. timers' \in 0 .. MaxTimers
  BY <1>0, StartTimerFacts, PlatformsAssumption DEF TypeOK, AddThread
<1>6. TypeOK'
  BY <1>0, <1>1, <1>4, <1>5 DEF TypeOK, timing, scan, mutexes, option
<1>7. CallsHaveObjects'
  BY <1>0, <1>1, <1>2 DEF TypeOK, CallsHaveObjects
<1>8. NotYetListed'
  <2>1. \A i \in DOMAIN threads' : threads'[i] = e \/ (i \in DOMAIN threads /\ threads'[i] = threads[i])
    BY <1>4
  <2> QED
    BY <1>0, <1>1, <1>2, <1>3, <2>1 DEF TypeOK, NotYetListed, Owned
<1>9. Kept
  <2>1. \A i \in DOMAIN threads : i \in DOMAIN threads' /\ threads'[i] = threads[i]
    BY <1>4
  <2> QED
    BY <1>1, <2>1 DEF Kept, Watched
<1> QED
  BY <1>6, <1>7, <1>8, <1>9 DEF Steady

\* A thread with its object, between registration and end.
LEMMA InCallObjects ==
  ASSUME ObjectInv, NEW t \in Thread, Begin(t) \/ End(t) \/ TryFails(t) \/ CndWait(t)
  PROVE  Steady' /\ Kept
<1>0. TypeOK /\ CallsHaveObjects /\ NotYetListed /\ Owned
  BY DEF ObjectInv, Steady, ReportInv
<1>1. synch[t] \in Synch
  BY <1>0 DEF Begin, End, TryFails, CndWait, CallsHaveObjects, TypeOK
<1>2. /\ start' \in [Synch -> {"off", "on", "never"}] /\ age' \in [Synch -> 0 .. MaxAge]
      /\ told' \in SUBSET Synch
  <2>1. CASE \E what \in {"off", "on", "never"} : SetStart(synch[t], what)
    BY <1>0, <1>1, <2>1, SetStartType
  <2>2. CASE UNCHANGED timing
    BY <1>0, <2>2 DEF TypeOK, timing
  <2> QED
    BY <2>1, <2>2 DEF Begin, End, TryFails, CndWait
<1>3. /\ UNCHANGED <<synch, threads, service, scan, other_errors_found, list_mutex, option>>
      /\ graph_mutex' \in {graph_mutex, Free}
      /\ pc' = pc \/ \E p \in {"in", "run"} : pc' = [pc EXCEPT ![t] = p]
  BY DEF Begin, End, TryFails, CndWait, mutexes
<1>4. pc' \in [Thread -> {"run", "add", "begin", "in", "exit"}] /\ CallsHaveObjects'
  BY <1>0, <1>1, <1>3 DEF TypeOK, CallsHaveObjects
<1>5. TypeOK'
  BY <1>0, <1>2, <1>3, <1>4 DEF TypeOK, service, scan, option
<1>6. NotYetListed' /\ Kept
  BY <1>0, <1>3 DEF TypeOK, NotYetListed, Kept, Watched
<1> QED
  BY <1>4, <1>5, <1>6 DEF Steady

LEMMA ThreadExitObjects ==
  ASSUME ObjectInv, NEW t \in Thread, ThreadExit(t) PROVE Steady' /\ Kept
<1>0. TypeOK /\ CallsHaveObjects /\ NotYetListed /\ Owned
  BY DEF ObjectInv, Steady, ReportInv
<1>1. /\ synch[t] # NoSynch /\ synch' = [synch EXCEPT ![t] = NoSynch]
      /\ pc' = [pc EXCEPT ![t] = IF enabled THEN "exit" ELSE "run"]
      /\ UNCHANGED <<threads, service, scan, other_errors_found, mutexes, option>>
  BY DEF ThreadExit
<1>2. synch[t] \in Synch
  BY <1>0, <1>1 DEF TypeOK
<1>3. /\ start' \in [Synch -> {"off", "on", "never"}] /\ age' \in [Synch -> 0 .. MaxAge]
      /\ told' \in SUBSET Synch
  <2>1. CASE Watched(t)
    BY <1>0, <2>1 DEF ThreadExit, TypeOK, timing
  <2>2. CASE ~Watched(t)
    BY <1>0, <1>2, <2>2, SetStartType DEF ThreadExit
  <2> QED
    BY <2>1, <2>2
<1>4. TypeOK'
  BY <1>0, <1>1, <1>3 DEF TypeOK, service, scan, mutexes, option
<1>5. CallsHaveObjects'
  BY <1>0, <1>1 DEF TypeOK, CallsHaveObjects
<1>6. /\ \A u \in Thread : synch'[u] = IF u = t THEN NoSynch ELSE synch[u]
      /\ \A i \in DOMAIN threads : threads[i].synch \in Synch
  BY <1>0, <1>1, EntryAt DEF TypeOK
<1>7. NotYetListed'
  BY <1>0, <1>1, <1>6 DEF TypeOK, NotYetListed
<1>8. Kept
  BY <1>1, <1>6 DEF Kept, Watched
<1> QED
  BY <1>4, <1>5, <1>7, <1>8 DEF Steady

\* The entry that goes is of a thread that has let go of its object, also if
\* it is an entry that an earlier thread of the same id has left behind.
LEMMA RemoveThreadObjects ==
  ASSUME ObjectInv, NEW t \in Thread, RemoveThread(t) PROVE Steady' /\ Kept
<1>0. TypeOK /\ CallsHaveObjects /\ NotYetListed /\ Owned
  BY DEF ObjectInv, Steady, ReportInv
<1>1. /\ pc[t] = "exit" /\ synch[t] = NoSynch /\ pc' = [pc EXCEPT ![t] = "run"]
      /\ UNCHANGED <<synch, service, scan, other_errors_found, mutexes, option>>
  BY <1>0 DEF RemoveThread, CallsHaveObjects
<1>2. CallsHaveObjects'
  BY <1>0, <1>1 DEF TypeOK, CallsHaveObjects
<1>3. CASE Entries(t) = {}
  <2>1. UNCHANGED <<threads, timing>>
    BY <1>3 DEF RemoveThread
  <2>2. TypeOK'
    BY <1>0, <1>1, <2>1 DEF TypeOK, timing, service, scan, mutexes, option
  <2>3. NotYetListed' /\ Kept
    BY <1>0, <1>1, <2>1 DEF TypeOK, NotYetListed, Kept, Watched
  <2> QED
    BY <1>2, <2>2, <2>3 DEF Steady
<1>4. CASE Entries(t) # {}
  <2>1. /\ DOMAIN threads = 1 .. Len(threads) /\ Len(threads) \in Nat
        /\ \A i \in DOMAIN threads : threads[i].synch \in Synch
    BY <1>0, EntryAt DEF TypeOK
  <2>3. FirstEntry(t) \in 1 .. Len(threads) /\ threads[FirstEntry(t)].id = t
    BY <1>0, <1>4, FirstEntryFacts DEF TypeOK
  <2>4. PICK i \in 1 .. Len(threads) : i = FirstEntry(t)
    BY <2>3
  <2>5. i \in 1 .. Len(threads) /\ threads[i].id = t /\ threads[i].synch \in Synch
    BY <2>1, <2>3, <2>4
  <2>6. threads' = Without(i) /\ SetStart(threads[i].synch, "off")
    BY <1>4, <2>4 DEF RemoveThread
  <2>7. threads' \in Seq(Entry)
    BY <1>0, <2>5, <2>6, WithoutFacts DEF TypeOK
  <2>8. /\ start' \in [Synch -> {"off", "on", "never"}] /\ age' \in [Synch -> 0 .. MaxAge]
        /\ told' \in SUBSET Synch
    BY <1>0, <2>5, <2>6, SetStartType
  <2>9. TypeOK'
    BY <1>0, <1>1, <2>7, <2>8 DEF TypeOK, service, scan, mutexes, option
  <2>10. PICK from \in [DOMAIN threads' -> DOMAIN threads \ {i}] :
           /\ \A j \in DOMAIN threads' : threads'[j] = threads[from[j]]
           /\ \A j, k \in DOMAIN threads' : from[j] = from[k] => j = k
           /\ \A k \in DOMAIN threads \ {i} : \E j \in DOMAIN threads' : from[j] = k
    BY <1>0, <2>5, <2>6, WithoutMoves DEF TypeOK
  <2>11. NotYetListed'
    BY <1>0, <1>1, <2>10 DEF TypeOK, NotYetListed
  <2>12. ASSUME NEW u \in Thread, Watched(u) PROVE Watched(u)'
    <3>1. PICK k \in DOMAIN threads : synch[u] = threads[k].synch
      BY <2>12 DEF Watched
    <3>2. threads[k].id = u
      BY <1>0, <3>1 DEF Owned
    <3>3. k # i
      BY <1>1, <2>1, <2>5, <3>1, <3>2, NoSynchAssumption
    <3>4. PICK j \in DOMAIN threads' : from[j] = k
      BY <2>10, <3>3
    <3> QED
      BY <1>1, <2>10, <3>1, <3>4 DEF Watched
  <2> QED
    BY <1>2, <2>9, <2>11, <2>12 DEF Steady, Kept
<1> QED
  BY <1>3, <1>4

\* A callback, and time, leave threads and objects alone.
LEMMA TickObjects == ASSUME ObjectInv, Tick PROVE Steady' /\ Kept
<1>1. TypeOK'
  BY TickType DEF ObjectInv, Steady
<1>2. UNCHANGED <<pc, synch, threads>>
  BY DEF Tick
<1> QED
  BY <1>1, <1>2, ObjectsSame DEF Steady, Kept

LEMMA ScanObjects ==
  ASSUME ObjectInv, NEW c \in Callback, ScanPass(c) \/ ScanFind(c) PROVE Steady' /\ Kept
<1>0. TypeOK /\ CallsHaveObjects /\ NotYetListed /\ Owned
  BY DEF ObjectInv, Steady, ReportInv
<1>1. /\ at \in 1 .. Len(threads)
      /\ UNCHANGED <<pc, synch, start, age, timers, graph_mutex, enabled, platform, other_errors_found>>
  <2>1. at \in 1 .. Len(threads)
    <3>1. at <= Len(threads)
      BY DEF ScanPass, ScanFind
    <3> QED
      BY <1>0, <3>1 DEF TypeOK
  <2>2. CASE ScanPass(c)
    BY <2>1, <2>2 DEF ScanPass, timing, service, mutexes, option
  <2>3. CASE ScanFind(c)
    BY <2>1, <2>3 DEF ScanFind, option
  <2> QED
    BY <2>2, <2>3
<1>10. threads' = threads \/ Mark(at, FALSE) \/ Mark(at, TRUE)
  BY DEF ScanPass, ScanFind
<1>2. /\ threads' \in Seq(Entry) /\ DOMAIN threads' = DOMAIN threads
      /\ \A i \in DOMAIN threads : /\ threads'[i].synch = threads[i].synch
                                   /\ threads'[i].id = threads[i].id
  <2>1. CASE UNCHANGED threads
    BY <1>0, <2>1 DEF TypeOK
  <2>2. ASSUME NEW value \in BOOLEAN, Mark(at, value)
        PROVE  /\ threads' \in Seq(Entry) /\ Len(threads') = Len(threads)
               /\ \A i \in 1 .. Len(threads) : /\ threads'[i].synch = threads[i].synch
                                               /\ threads'[i].id = threads[i].id
    BY <1>0, <1>1, <2>2, MarkFacts DEF TypeOK
  <2>3. DOMAIN threads = 1 .. Len(threads) /\ (threads' \in Seq(Entry) => DOMAIN threads' = 1 .. Len(threads'))
    BY <1>0 DEF TypeOK
  <2> QED
    BY <1>10, <2>1, <2>2, <2>3
<1>3. threads[at].synch \in Synch
  BY <1>0, <1>1, EntryAt DEF TypeOK
<1>4. /\ found' \in [Callback -> Synch \cup {NoSynch}] /\ told' \in SUBSET Synch
      /\ cb' \in [Callback -> {"idle", "scan", "scanning", "report", "restart"}]
      /\ list_mutex' \in Callback \cup {Free}
      /\ at' \in Nat \ {0} /\ lag' \in 0 .. MaxLag
  <2>1. CASE ScanPass(c)
    BY <1>0, <2>1 DEF TypeOK, ScanPass, timing, service, mutexes
  <2>2. CASE ScanFind(c)
    BY <1>0, <1>3, <2>2, Times DEF TypeOK, ScanFind
  <2> QED
    BY <2>1, <2>2
<1>5. TypeOK'
  BY <1>0, <1>1, <1>2, <1>4 DEF TypeOK
<1> QED
  BY <1>1, <1>2, <1>5, ObjectsSame DEF Steady, Kept

LEMMA CallbackObjects ==
  ASSUME ObjectInv, NEW c \in Callback,
         TimerExpires(c) \/ ScanStart(c) \/ ScanEnd(c) \/ Report(c) \/ Restart(c)
  PROVE  Steady' /\ Kept
<1>0. TypeOK /\ CallsHaveObjects /\ NotYetListed /\ Owned
  BY DEF ObjectInv, Steady, ReportInv
<1>1. UNCHANGED <<pc, synch, enabled, threads, timing, graph_mutex, platform>>
  BY DEF TimerExpires, ScanStart, ScanEnd, Report, Restart, option, mutexes
<1>2. /\ cb' \in [Callback -> {"idle", "scan", "scanning", "report", "restart"}]
      /\ found' \in [Callback -> Synch \cup {NoSynch}]
      /\ other_errors_found' \in BOOLEAN /\ list_mutex' \in Callback \cup {Free}
  BY <1>0 DEF TypeOK, TimerExpires, ScanStart, ScanEnd, Report, Restart, scan, mutexes
<1>3. at' \in Nat \ {0} /\ lag' \in 0 .. MaxLag
  BY <1>0, Times DEF TypeOK, TimerExpires, ScanStart, ScanEnd, Report, Restart, scan
<1>4. timers' \in 0 .. MaxTimers
  <2>1. CASE TimerExpires(c)
    BY <1>0, <2>1, Times DEF TypeOK, TimerExpires
  <2>2. CASE UNCHANGED timers
    BY <1>0, <2>2 DEF TypeOK
  <2>3. CASE StartTimer
    BY <1>0, <2>3, StartTimerFacts, PlatformsAssumption DEF TypeOK
  <2> QED
    BY <2>1, <2>2, <2>3 DEF ScanStart, ScanEnd, Report, Restart
<1>5. TypeOK'
  BY <1>0, <1>1, <1>2, <1>3, <1>4 DEF TypeOK, timing
<1> QED
  BY <1>1, <1>5, ObjectsSame DEF Steady, Kept

\* A step of the process around the watchdog: other errors are flagged, or the
\* option is switched.
LEMMA SwitchObjects ==
  ASSUME ObjectInv, enabled' \in BOOLEAN, other_errors_found' \in BOOLEAN,
         UNCHANGED <<pc, synch, timing, threads, service, scan, mutexes, platform>>
  PROVE  ObjectInv' /\ Kept
<1>1. TypeOK'
  BY DEF ObjectInv, Steady, TypeOK, timing, service, scan, mutexes
<1>2. Steady' /\ Kept
  BY <1>1, ObjectsSame DEF Steady, Kept
<1>3. ReportInv'
  BY ReportSame DEF ObjectInv, timing, scan
<1> QED
  BY <1>2, <1>3 DEF ObjectInv

\* The steps of the watchdog.
LEMMA NextObjects == ASSUME ObjectInv, Next PROVE ObjectInv' /\ Kept
<1>1. ASSUME NEW t \in Thread, ThreadStep(t) PROVE Steady' /\ Kept
  BY <1>1, FirstCallObjects, AddThreadObjects, InCallObjects, ThreadExitObjects,
     RemoveThreadObjects DEF ThreadStep
<1>2. ASSUME NEW c \in Callback, CallbackStep(c) PROVE Steady' /\ Kept
  BY <1>2, ScanObjects, CallbackObjects DEF CallbackStep
<1>3. Steady' /\ Kept
  BY <1>1, <1>2, TickObjects DEF Next
<1>4. ReportInv'
  BY ReportStep DEF ObjectInv
<1> QED
  BY <1>3, <1>4 DEF ObjectInv

-----------------------------------------------------------------------------
(* The types of the process.                                               *)

PartsOK == /\ OptionsOK
           /\ phase \in {"load", "run", "join", "last", "summary", "decide", "ended"}
           /\ call.on \in BOOLEAN /\ call.parts \in OptionString \cup {<<>>}
           /\ call.done \in 0 .. Len(call.parts)
           /\ potential_deadlocks_found \in BOOLEAN
           /\ flags \in BOOLEAN \X BOOLEAN /\ open \in 0 .. MaxSections
           /\ summary \in {"none", "ok", "error"} /\ exit \in {"none", "main", "killed"}

ProcessInv == ObjectInv /\ PartsOK /\ ParseInv

LEMMA ProcessInvInit == ProcessInit => ProcessInv
<1> SUFFICES ASSUME ProcessInit PROVE ProcessInv
  OBVIOUS
<1>1. OptionsOK
  <2>1. 30 \in 2 .. MaxDuration
    BY DEF MaxDuration
  <2>2. options = Defaults /\ DOMAIN options = DOMAIN Defaults
    BY DEF ProcessInit
  <2>3. \A key \in Flags : Defaults[key] \in BOOLEAN
    <3>1. /\ Defaults["outputdebugstring"] = TRUE /\ Defaults["halt_on_error"] = FALSE
          /\ Defaults["fail_process_in_case_of_error"] = FALSE /\ Defaults["thread_watchdog"] = TRUE
      BY DEF Defaults
    <3> QED
      BY <3>1 DEF Flags
  <2>4. Defaults.thread_watchdog_max_duration_sec = 30 /\ Defaults.exit_code = 66
    BY DEF Defaults
  <2> QED
    BY <2>1, <2>2, <2>3, <2>4 DEF OptionsOK
<1>2. PartsOK
  <2>1. call.on \in BOOLEAN /\ call.parts = <<>> /\ call.done = 0 /\ Len(<<>>) = 0
    BY DEF ProcessInit, NoCall
  <2>2. 0 \in 0 .. MaxSections
    BY SectionsAssumption
  <2>3. call.done \in 0 .. Len(call.parts) /\ call.parts \in OptionString \cup {<<>>}
    BY <2>1
  <2>4. /\ phase = "load" /\ potential_deadlocks_found = FALSE /\ flags = <<FALSE, FALSE>>
        /\ open = 0 /\ summary = "none" /\ exit = "none"
    BY DEF ProcessInit
  <2> QED
    BY <1>1, <2>1, <2>2, <2>3, <2>4 DEF PartsOK
<1> QED
  BY <1>2, ObjectInit, ParseInit DEF ProcessInv

\* Options and counters stay.
LEMMA PartsSame ==
  ASSUME PartsOK, UNCHANGED <<options, call, flags, summary, open>>,
         potential_deadlocks_found' \in BOOLEAN, exit' \in {"none", "main", "killed"},
         phase' \in {"load", "run", "join", "last", "summary", "decide", "ended"}
  PROVE  PartsOK'
BY DEF PartsOK, OptionsOK

\* An accepted part leaves every option in its range.
LEMMA ApplyType ==
  ASSUME ParseInv, OptionsOK, ApplyPart PROVE OptionsOK'
<1> DEFINE p == Current
<1>1. Accepted(p) /\ options' = Apply(options, p) /\ IsOptions(options)
  BY DEF ApplyPart, ParseInv
<1>2. options' = [key \in OptionKeys |->
                    IF key = "log_file" THEN IF NamesFile(p) THEN p.text ELSE options[key]
                    ELSE IF key = p.key THEN ValueOf(p) ELSE options[key]]
  BY <1>1, ApplyFacts
<1>3. \A key \in Flags : options'[key] \in BOOLEAN
  BY <1>2, KeyFacts DEF OptionsOK, ValueOf
<1>4. ASSUME NEW key \in Numbers PROVE options'[key] \in {options[key], p.number} /\
                                        (options'[key] # options[key] => p.number \in Range(key))
  BY <1>1, <1>2, KeyFacts DEF ValueOf, Accepted
<1>5. /\ options'.exit_code \in 0 .. 126
      /\ options'.thread_watchdog_max_duration_sec \in 2 .. MaxDuration
  BY <1>4 DEF OptionsOK, Numbers, Range
<1>6. DOMAIN options' = DOMAIN Defaults
  BY <1>2 DEF OptionKeys
<1> QED
  BY <1>3, <1>5, <1>6 DEF OptionsOK

LEMMA OptionStepInv == ASSUME ProcessInv, OptionStep PROVE ObjectInv' /\ PartsOK' /\ Kept
<1>0. ObjectInv /\ PartsOK /\ ParseInv
  BY DEF ProcessInv
<1>1. CASE NoVariable \/ (\E parts \in OptionString : Parse(parts))
  <2>1. UNCHANGED vars
    BY <1>1 DEF NoVariable, Parse
  <2>2. ObjectInv' /\ Kept
    BY <1>0, <2>1, SwitchObjects DEF vars, option, ObjectInv, Steady, TypeOK
  <2>3. CASE NoVariable
    BY <1>0, <2>2, <2>3, PartsSame DEF NoVariable, PartsOK, parsing, ending
  <2>4. ASSUME NEW parts \in OptionString, Parse(parts) PROVE PartsOK'
    <3>1. /\ call'.on = TRUE /\ call'.parts = parts /\ call'.done = 0
          /\ UNCHANGED <<phase, options, potential_deadlocks_found, flags, summary, exit, open>>
      BY <2>4 DEF Parse, ending
    <3>2. 0 \in 0 .. Len(parts)
      BY StringLength
    <3> QED
      BY <1>0, <3>1, <3>2 DEF PartsOK, OptionsOK
  <2> QED
    BY <1>1, <2>2, <2>3, <2>4
<1>2. CASE ApplyPart
  <2>1. OptionsOK'
    BY <1>0, <1>2, ApplyType DEF PartsOK
  <2>2. enabled' \in BOOLEAN
    BY <1>2, <2>1 DEF ApplyPart, OptionsOK, Flags
  <2>3. ObjectInv' /\ Kept
    BY <1>0, <1>2, <2>2, SwitchObjects DEF ApplyPart, ObjectInv, Steady, TypeOK
  <2>4. /\ call.parts \in OptionString /\ call.done \in 0 .. Len(call.parts)
        /\ call.done # Len(call.parts)
        /\ call' = [on |-> call.on, parts |-> call.parts, done |-> call.done + 1, before |-> call.before]
    BY <1>0, <1>2 DEF ApplyPart, AllDone, ParseInv
  <2>5. call.done + 1 \in 0 .. Len(call.parts)
    BY <2>4, StringLength
  <2> QED
    BY <1>0, <1>2, <2>1, <2>3, <2>4, <2>5 DEF ApplyPart, PartsOK, ending
<1>3. CASE ParseEnds
  <2>1. ObjectInv' /\ Kept
    BY <1>0, <1>3, SwitchObjects DEF ParseEnds, vars, option, ObjectInv, Steady, TypeOK
  <2>2. PartsOK'
    BY <1>0, <1>3 DEF ParseEnds, NoCall, PartsOK, OptionsOK
  <2> QED
    BY <2>1, <2>2
<1> QED
  BY <1>1, <1>2, <1>3 DEF OptionStep

LEMMA ProcessStep == ASSUME ProcessInv, [ProcessNext]_allVars PROVE ProcessInv' /\ Kept
<1>0. ObjectInv /\ PartsOK /\ ParseInv /\ ParseInv'
  BY ParseStep DEF ProcessInv
<1> SUFFICES ObjectInv' /\ Kept /\ PartsOK'
  BY <1>0 DEF ProcessInv
<1>1. CASE OptionStep
  BY <1>1, OptionStepInv
<1>2. CASE WatchdogRuns
  <2>1. ObjectInv' /\ Kept
    BY <1>0, <1>2, NextObjects DEF WatchdogRuns, Watchdog, Next, CallbackStep
  <2>2. PartsOK'
    BY <1>0, <1>2 DEF WatchdogRuns, processVars, parsing, ending, PartsOK, OptionsOK
  <2> QED
    BY <2>1, <2>2
<1>3. ASSUME NEW kind \in Errors, MonitorError(kind) PROVE ObjectInv' /\ Kept /\ PartsOK'
  <2>1. ObjectInv' /\ Kept
    BY <1>0, <1>3, SwitchObjects DEF MonitorError, option, ObjectInv, Steady, TypeOK
  <2>2. potential_deadlocks_found' \in BOOLEAN
    BY <1>3, Zenon DEF MonitorError
  <2>3. PartsOK'
    BY <1>0, <1>3, <2>2, PartsSame DEF MonitorError, ProcessError, parsing, PartsOK
  <2> QED
    BY <2>1, <2>3
<1>4. ASSUME NEW c \in Callback, TimerStep(c) PROVE ObjectInv' /\ Kept /\ PartsOK'
  <2>1. ObjectInv' /\ Kept
    BY <1>0, <1>4, NextObjects DEF TimerStep, Expires, Returns, WatchdogReport, Next, CallbackStep
  <2>2. PartsOK'
    BY <1>0, <1>4, PartsSame DEF TimerStep, Expires, Returns, WatchdogReport, ProcessError,
                                 processVars, parsing, ending, PartsOK
  <2> QED
    BY <2>1, <2>2
<1>5. CASE InitCS \/ DeleteCS \/ ReadFlags \/ Unload \/ UNCHANGED allVars
  <2>1. UNCHANGED vars
    BY <1>5 DEF InitCS, DeleteCS, ReadFlags, Unload, LoopEnds, Summary, Decide, allVars
  <2>2. ObjectInv' /\ Kept
    BY <1>0, <2>1, SwitchObjects DEF vars, option, ObjectInv, Steady, TypeOK
  <2>3. PartsOK'
    <3>1. other_errors_found \in BOOLEAN
      BY <1>0 DEF ObjectInv, Steady, TypeOK
    <3>2. CASE InitCS \/ DeleteCS
      <4>1. open' \in 0 .. MaxSections
        BY <1>0, <3>2, SectionsAssumption DEF InitCS, DeleteCS, PartsOK
      <4>2. UNCHANGED <<phase, options, call, potential_deadlocks_found, flags, summary, exit>>
        BY <3>2 DEF InitCS, DeleteCS, parsing, ending
      <4> QED
        BY <1>0, <4>1, <4>2 DEF PartsOK, OptionsOK
    <3>3. CASE ReadFlags
      <4>1. flags' \in BOOLEAN \X BOOLEAN /\ phase' = "join"
        BY <1>0, <3>1, <3>3 DEF ReadFlags, PartsOK
      <4>2. UNCHANGED <<options, call, potential_deadlocks_found, summary, exit, open>>
        BY <3>3 DEF ReadFlags, parsing
      <4> QED
        BY <1>0, <4>1, <4>2 DEF PartsOK, OptionsOK
    <3>4. CASE LoopEnds \/ Decide
      BY <1>0, <3>4, PartsSame DEF LoopEnds, Decide, parsing, ending, PartsOK
    <3>6. CASE Summary
      BY <1>0, <3>6 DEF Summary, parsing, PartsOK, OptionsOK
    <3>5. CASE UNCHANGED allVars
      BY <1>0, <3>5 DEF allVars, processVars, parsing, ending, PartsOK, OptionsOK
    <3> QED
      BY <1>5, <3>2, <3>3, <3>4, <3>5, <3>6 DEF Unload
  <2> QED
    BY <2>2, <2>3
<1> QED
  BY <1>1, <1>2, <1>3, <1>4, <1>5 DEF ProcessNext

\* Every variable of the process, its options among them, keeps its type,
\* whatever strings are applied: cppguard_set_options lets nothing out of its
\* range in (options_parser.cpp:142).
THEOREM ProcessTypeCorrect == ProcessSpec => []ProcessTypeOK
<1>1. ProcessInv => ProcessTypeOK
  BY DEF ProcessInv, ObjectInv, Steady, PartsOK, ProcessTypeOK
<1> QED
  BY <1>1, ProcessInvInit, ProcessStep, PTL DEF ProcessSpec

\* No step takes a living thread out of the watchdog's list, also if the option
\* was switched while threads ended, and entries of theirs were left behind
\* that remove_thread finds under an id used again (thread_watchdog.cpp:73).
THEOREM WatchedThreadsStay == ProcessSpec => WatchedStaysWatched
<1>1. ProcessInv /\ [ProcessNext]_allVars =>
        \A t \in Thread : Watched(t) /\ synch'[t] = synch[t] => Watched(t)'
  BY ProcessStep DEF Kept
<1> QED
  BY <1>1, ProcessInvInit, ProcessStep, PTL DEF ProcessSpec, WatchedStaysWatched

-----------------------------------------------------------------------------
(* The watchdog in the process.                                            *)

\* A step of the process is a step of the watchdog, or what it does beside
\* leaves list, timer and callbacks alone: it may switch the option.
LEMMA WatchdogStep ==
  ASSUME [ProcessNext]_allVars
  PROVE  [Next]_vars \/ UNCHANGED <<threads, service, scan>>
<1>1. CASE OptionStep
  BY <1>1 DEF OptionStep, NoVariable, Parse, ApplyPart, ParseEnds, vars
<1>2. CASE WatchdogRuns
  BY <1>2 DEF WatchdogRuns, Watchdog, Next, CallbackStep
<1>3. ASSUME NEW kind \in Errors, MonitorError(kind) PROVE UNCHANGED <<threads, service, scan>>
  BY <1>3 DEF MonitorError
<1>4. ASSUME NEW c \in Callback, TimerStep(c) PROVE Next
  BY <1>4 DEF TimerStep, Expires, Returns, WatchdogReport, Next, CallbackStep
<1>5. CASE InitCS \/ DeleteCS \/ ReadFlags \/ Unload \/ UNCHANGED allVars
  BY <1>5 DEF InitCS, DeleteCS, ReadFlags, Unload, LoopEnds, Summary, Decide, allVars, vars
<1> QED
  BY <1>1, <1>2, <1>3, <1>4, <1>5 DEF ProcessNext

\* As long as the list has threads the watchdog goes on, also if its option is
\* switched off and on while they come and go: the list then holds entries of
\* threads that ended, and lacks some that run (thread_watchdog.cpp:56, 134).
THEOREM WatchdogSurvivesSwitching == ProcessSpec => []WatchdogKeepsRunning
<1>1. ProcessInit => WatchdogKeepsRunning
  BY KeepsRunningInit DEF ProcessInit
<1>2. ASSUME ProcessInv, WatchdogKeepsRunning, [ProcessNext]_allVars PROVE WatchdogKeepsRunning'
  <2>1. CASE [Next]_vars
    BY <1>2, <2>1, KeepsRunningStep DEF ProcessInv, ObjectInv, Steady
  <2>2. CASE UNCHANGED <<threads, service>>
    BY <1>2, <2>2 DEF WatchdogKeepsRunning, service
  <2> QED
    BY <1>2, <2>1, <2>2, WatchdogStep
<1> QED
  BY <1>1, <1>2, ProcessInvInit, ProcessStep, PTL DEF ProcessSpec

\* What the callback reports has lasted the maximum in the process too, up to
\* the last callback that the end waits for (thread_watchdog.cpp:104, 112).
THEOREM ProcessReportsAreDue == ProcessSpec => ReportsAreDue
<1>1. ASSUME ProcessInv, [ProcessNext]_allVars, NEW c \in Callback, NEW s \in Synch, Finds(c, s)
      PROVE  start[s] = "on" /\ age[s] >= Limit
  <2>1. ~UNCHANGED found
    BY <1>1, NoSynchAssumption DEF Finds
  <2>2. [Next]_vars
    BY <1>1, <2>1, WatchdogStep DEF scan
  <2> QED
    BY <1>1, <2>2, FoundIsDue DEF ProcessInv, ObjectInv, Steady
<1>2. ProcessInv /\ [ProcessNext]_allVars =>
        [\A c \in Callback, s \in Synch : Finds(c, s) => start[s] = "on" /\ age[s] >= Limit]_vars
  BY <1>1
<1> QED
  BY <1>2, ProcessInvInit, ProcessStep, PTL DEF ProcessSpec, ReportsAreDue

\* ... and is reported once, also when entries are left behind and objects and
\* ids used again because the option was off (thread_watchdog.cpp:112).
THEOREM ProcessReportsOnce == ProcessSpec => OneReportPerTime
<1>1. ASSUME ProcessInv, [ProcessNext]_allVars, NEW c \in Callback, NEW s \in Synch, Finds(c, s)
      PROVE  s \notin told
  <2>1. ~UNCHANGED found
    BY <1>1, NoSynchAssumption DEF Finds
  <2>2. [Next]_vars
    BY <1>1, <2>1, WatchdogStep DEF scan
  <2> QED
    BY <1>1, <2>2, FoundOnce DEF ProcessInv, ObjectInv, Steady
<1>2. ProcessInv /\ [ProcessNext]_allVars =>
        [\A c \in Callback, s \in Synch : Finds(c, s) => s \notin told]_vars
  BY <1>1
<1> QED
  BY <1>2, ProcessInvInit, ProcessStep, PTL DEF ProcessSpec, OneReportPerTime
=============================================================================

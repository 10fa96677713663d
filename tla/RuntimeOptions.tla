--------------------------- MODULE RuntimeOptions ---------------------------
(***************************************************************************)
(* options_parser.cpp and run_time_options.hpp: the options and what one   *)
(* part of an option string does to them.  Process parses strings.         *)
(*                                                                         *)
(* The string is the sequence of its comma-separated parts.  Of a part,    *)
(* lower-cased and stripped, are kept: whether it has a colon, the key in  *)
(* front of it and the value behind it.  A value is its text, and its      *)
(* number if the text is made of digits only (NoNumber otherwise).         *)
(***************************************************************************)
EXTENDS Integers, Sequences

CONSTANTS Part,        \* the parts of option strings to look at
          IntMax       \* the largest int, what std::stoi can return

NoNumber == -1
Flags == {"outputdebugstring", "halt_on_error", "fail_process_in_case_of_error", "thread_watchdog"}
Numbers == {"thread_watchdog_max_duration_sec", "exit_code"}
Keys == Flags \cup Numbers \cup {"log"}
MaxDuration == 24 * 60 * 60

ASSUME PartAssumption ==
  Part \subseteq [colon : BOOLEAN, key : STRING, text : STRING, number : Int]
ASSUME IntMaxAssumption == IntMax \in Nat /\ IntMax >= MaxDuration

\* runtime_options_t as a program starts with it.
Defaults == [log |-> "stdout", log_file |-> "", outputdebugstring |-> TRUE,
             halt_on_error |-> FALSE, fail_process_in_case_of_error |-> FALSE,
             thread_watchdog |-> TRUE, thread_watchdog_max_duration_sec |-> 30,
             exit_code |-> 66]

-----------------------------------------------------------------------------
(* One part.                                                               *)

\* Mutant of Range: the largest duration is not looked at.
RangeOpen(key) == IF key = "exit_code" THEN 0 .. 126 ELSE 2 .. IntMax

Range(key) == IF key = "exit_code" THEN 0 .. 126 ELSE 2 .. MaxDuration

WellFormed(p) == p.colon /\ p.key \in Keys /\ p.text # ""
Accepted(p) == /\ WellFormed(p)
               /\ p.key \in Flags => p.text \in {"1", "0"}
               /\ p.key \in Numbers => p.number \in Range(p.key)

\* std::stoi throws out_of_range, everything else is an invalid_argument.
Refusal(p) == IF WellFormed(p) /\ p.key \in Numbers /\ p.number > IntMax
              THEN "out_of_range" ELSE "invalid_argument"

\* The options after an accepted part.  A log value that is no keyword is
\* the name of the log file.
Apply(options, p) ==
  CASE p.key = "log" /\ p.text \in {"disable", "stdout", "stderr"} ->
         [options EXCEPT !.log = p.text]
    [] p.key = "log" /\ p.text \notin {"disable", "stdout", "stderr"} ->
         [options EXCEPT !.log = "file", !.log_file = p.text]
    [] p.key \in Flags -> [options EXCEPT ![p.key] = (p.text = "1")]
    [] p.key \in Numbers -> [options EXCEPT ![p.key] = p.number]

-----------------------------------------------------------------------------
(* The options the first n parts of a string make of the options before:   *)
(* each has the value of the last part that names it.                      *)

Named(parts, n, key) == {i \in 1 .. n : parts[i].key = key}
Latest(S) == CHOOSE i \in S : \A j \in S : j <= i
KindOfLog(text) == IF text \in {"disable", "stdout", "stderr"} THEN text ELSE "file"
Files(parts, n) == {i \in Named(parts, n, "log") : KindOfLog(parts[i].text) = "file"}

InForce(before, parts, n) ==
  [o \in DOMAIN before |->
     IF o = "log_file"
     THEN IF Files(parts, n) = {} THEN before[o] ELSE parts[Latest(Files(parts, n))].text
     ELSE IF Named(parts, n, o) = {} THEN before[o]
     ELSE LET p == parts[Latest(Named(parts, n, o))] IN
            CASE o = "log" -> KindOfLog(p.text)
              [] o \in Flags -> p.text = "1"
              [] o \in Numbers -> p.number]
=============================================================================

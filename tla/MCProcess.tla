----------------------------- MODULE MCProcess -----------------------------
EXTENDS Process, TLC

Part_(key, text, number) == [colon |-> TRUE, key |-> key, text |-> text, number |-> number]
Off == Part_("thread_watchdog", "0", 0)
On == Part_("thread_watchdog", "1", 1)
Fail == Part_("fail_process_in_case_of_error", "1", 1)
TooLong == Part_("thread_watchdog_max_duration_sec", "86401", 86401)
MCIntMax == 100000
Huge == Part_("exit_code", "2147483648", MCIntMax + 1)
Halt == Part_("halt_on_error", "1", 1)
MCPart == {Off, On, Fail, Halt, TooLong, Huge}
MCString == {<<>>, <<Off, TooLong>>, <<On, Fail>>, <<Halt, Huge>>}

ThreadSymmetry == Permutations(Thread)
=============================================================================

-------------------------- MODULE MCDeadlockMonitor --------------------------
EXTENDS DeadlockMonitor, TLC
Symmetry == Permutations(Thread) \cup Permutations(Lock)
=============================================================================

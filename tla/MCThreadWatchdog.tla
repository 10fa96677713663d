-------------------------- MODULE MCThreadWatchdog --------------------------
EXTENDS ThreadWatchdog, TLC
=============================================================================

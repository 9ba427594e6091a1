--------------------------- MODULE MCTerminalCleanup ---------------------------
EXTENDS TerminalCleanup, TLC

\* All pids hash to one stripe, as two pids out of more than 64 always do.
OneStripe == [p \in Procs |-> CHOOSE s \in Stripes : TRUE]
===============================================================================

------------------------ MODULE MCRestorePublication ------------------------
EXTENDS RestorePublication

CONSTANT Older

\* The checkpoint of one restore has an older version of the Objects than
\* that of the other.
TwoCheckpoints == [p \in Pubs |-> IF p = Older THEN 1 ELSE 2]
=============================================================================

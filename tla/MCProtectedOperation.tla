------------------------- MODULE MCProtectedOperation -------------------------
EXTENDS ProtectedOperation

\* Every operation uses every capability.
AllCaps == [o \in Ops |-> Caps]

Probe == [touches |-> FALSE, commits |-> FALSE]
Observe == [touches |-> TRUE, commits |-> FALSE]
Mutate == [touches |-> TRUE, commits |-> TRUE]

OnePhase == {Mutate}
TouchingPhases == {Observe, Mutate}
ThreePhases == {Probe, Observe, Mutate}
===============================================================================

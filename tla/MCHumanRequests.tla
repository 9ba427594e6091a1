--------------------------- MODULE MCHumanRequests ---------------------------
EXTENDS HumanRequests, TLC

CONSTANTS p1, p2

\* The first, or the last, request belongs to the second process.
FirstIsOther == [r \in Requests |-> IF r = 1 THEN p2 ELSE p1]
LastIsOther == [r \in Requests |-> IF r = MaxRequests THEN p2 ELSE p1]

Ask(kind, blocking, gated) == [kind |-> kind, blocking |-> blocking, gated |-> gated]

\* A permission of the second process, a labelled question, and an output, whose
\* identity is left for the release of the question when it is not asked.
SomeAsks ==
    [r \in Requests |-> CASE r = 1 -> {Ask("permission", TRUE, FALSE)}
                          [] r = 2 -> {Ask("question", TRUE, TRUE)}
                          [] OTHER -> {Ask("output", FALSE, FALSE)}]

\* A permission and a labelled question, for whose release an identity is left.
LabelledSecond ==
    [r \in Requests |-> CASE r = 2 -> {Ask("question", TRUE, TRUE)}
                          [] r = 3 -> {}
                          [] OTHER -> {Ask("permission", TRUE, FALSE)}]
===============================================================================

--------------------------- MODULE MCResourceBudget ---------------------------
(***************************************************************************)
(* A root with budget RootLimit and two more process identities: enough  *)
(* for two siblings, and for a chain of three.  Model values for TLC.      *)
(***************************************************************************)
EXTENDS ResourceBudget, TLC

\* Children are interchangeable, and so are the slots of provider calls.
Interchangeable == Permutations(Pids \ {Root}) \cup Permutations(Calls)

ChildLimits == {Unlimited, 1, 2}

=============================================================================

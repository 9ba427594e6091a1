-------------------------- MODULE MCProcessLifecycle --------------------------
EXTENDS ProcessLifecycle, TLC
Sym == Permutations(Workers) \cup Permutations(Procs \ {Root})
===============================================================================

---------------------------- MODULE MCProviderWrite ----------------------------
(* Model values and instances for checking ProviderWrite.                     *)
EXTENDS ProviderWrite, TLC

CONSTANTS p1, p2

MCProcs == {p1, p2}
MCSymmetry == Permutations(MCProcs)

\* Bound: pauses are explored in behaviours without faults, faults in behaviours without pauses.
MCNext == Next /\ (faults' = 0 \/ pausing' = {})
MCSpec == Init /\ [][MCNext]_vars

\* Bound: at most one pause request waits at a time.
MCFairNext == Next /\ Cardinality(pausing') <= 1
MCFairSpec == Init /\ [][MCFairNext]_vars /\ Fairness
================================================================================

----------------------------- MODULE MCHotPool -----------------------------
(* HotPool with named tasks.                                               *)
EXTENDS HotPool, TLC

CONSTANTS a1, a2, a3, s1

MCAllocations == {a1, a2, a3}
MCPooled == {a1}
MCSweepers == {s1}
Symmetry == Permutations(MCAllocations \ MCPooled)
=============================================================================

----------------------- MODULE MCAllocationLifecycle -----------------------
(* Instances of AllocationLifecycle for TLC.                               *)
EXTENDS AllocationLifecycle, TLC

\* Every id is requested for the same run attempt: a retry races the first.
OneAttempt == [a \in Allocations |-> "attempt"]

\* The store may refuse any write.
AnySave == Procs \X UpdateSites

\* The store may refuse any write but the two that end an allocation.
AnyEarlySave == Procs \X (UpdateSites \ {"cleaning_again", "terminal"})

\* Workers and recovery meet a store that may refuse any write; callers, who
\* come later, find it working.
SavesBeforeCallers == (Procs \ Callers) \X UpdateSites

Interchangeable == Permutations(Allocations) \cup Permutations(Callers)

============================================================================

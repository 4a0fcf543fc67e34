CONSTANTS
    a1 = a1
    a2 = a2
    a3 = a3
    s1 = s1
    Allocations <- MCAllocations
    Sweepers <- MCSweepers
    Recovery = Recovery
    None = None
    Pooled <- MCPooled
    MaxHotVms = 1
    MaxFaults = 0
SPECIFICATION Spec
INVARIANT DrainIsNotForgotten
CHECK_DEADLOCK FALSE

CONSTANTS
    a1 = a1
    a2 = a2
    a3 = a3
    s1 = s1
    Allocations <- MCAllocations
    Sweepers <- MCSweepers
    Recovery = Recovery
    None = None
    Pooled <- MCPooled
    MaxHotVms = 1
    MaxFaults = 1
SPECIFICATION Spec
SYMMETRY Symmetry
CHECK_DEADLOCK FALSE
INVARIANTS
    MachineServesOne
    MachinesAreAccounted
    HeldIsRecorded
PROPERTY OrderedReuseIsClean

\* The writes that may fail are those of MCLifecycleProgress; no client hangs up.
CONSTANTS
    a1 = a1
    c1 = c1
    c2 = c2
    Allocations = {a1}
    Callers = {c1, c2}
    Recovery = recovery
    Attempt <- OneAttempt
    CleanupAttempts = 2
    HistoryLimit = 1
    FailingSaves <- AnyEarlySave
    Disconnects = FALSE
    MaxBoots = 3
SPECIFICATION EndsSpec
PROPERTIES
    EndIsReached
    RecoveryCompletes
    CancelIsAnswered

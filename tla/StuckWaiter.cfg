\* The driving cancel ends in a store error, or its client hangs up.
CONSTANTS
    a1 = a1
    c1 = c1
    c2 = c2
    Allocations = {a1}
    Callers = {c1, c2}
    Recovery = recovery
    Attempt <- OneAttempt
    CleanupAttempts = 2
    HistoryLimit = 1
    FailingSaves <- AnySave
    Disconnects = TRUE
    MaxBoots = 2
SPECIFICATION FairSpec
PROPERTY CancelAnswered

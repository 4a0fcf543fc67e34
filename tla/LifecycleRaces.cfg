\* One allocation with three cancellers and two crashes, and two requests for
\* one attempt with one canceller and one crash; any save may fail.
CONSTANTS
    a1 = a1
    a2 = a2
    c1 = c1
    c2 = c2
    c3 = c3
    Allocations = {a1, a2}
    Callers = {c1, c2, c3}
    Recovery = recovery
    Attempt <- OneAttempt
    CleanupAttempts = 2
    HistoryLimit = 1
    FailingSaves <- AnySave
    Disconnects = TRUE
    MaxBoots = 3
SPECIFICATION RacesSpec
SYMMETRY Symmetric
INVARIANTS
    OneDriver
    LeftoversAreAccountable
    BoundedTeardownIsReported
    OneWorkerPerAttempt
PROPERTIES
    DurablePath
    IntentIsDurable
CHECK_DEADLOCK FALSE

CONSTANTS
    Captures = {1, 2, 3}
    WarmGuests = {1}
    MaxRetained = 1
    MaxWarmFaults = 1
    Helpers = {1, 2, 3, 4}
    GuestAttempts = 2
    MaxGuestFaults = 3
    TartCaptures = {1, 2, 3}
    TartBases = {1, 2}
    MaxTartFaults = 2
    MaxTartReloads = 1
    p1 = p1
    p2 = p2
    i1 = i1
    i2 = i2
    i3 = i3
    n1 = n1
    Importers = {p1, p2}
    Ids = {i1, i2, i3}
    Names = {n1}
    None = None
    Taken = {i3}
    MaxFaults = 2
SPECIFICATION StorageSpec
CHECK_DEADLOCK FALSE
INVARIANTS
    WarmContract
    TeardownContract
    TartContract
    PublishedIsWhole
    RepliesAreDurable
    NothingStranded
PROPERTIES
    CapturesAreOwned
    GuestIsOwned

CONSTANTS
    u1 = u1
    u2 = u2
    Captures = {1, 2}
    WarmGuests = {}
    MaxRetained = 1
    MaxWarmFaults = 1
    Helpers = {1, 2}
    GuestAttempts = 1
    MaxGuestFaults = 1
    TartCaptures = {1, 2}
    TartBases = {1}
    MaxTartFaults = 1
    MaxTartReloads = 0
    p1 = p1
    p2 = p2
    i1 = i1
    i2 = i2
    i3 = i3
    n1 = n1
    Importers = {p1}
    Ids = {i1, i2}
    Names = {n1}
    None = None
    Taken = {}
    MaxFaults = 1
    JobRows <- OneJobRow
    IdleTimeout = 1
    JobTimeout = 1
    CleanupTimeout = 1
    GraceTicks = 1
    CallTicks = 1
    MaxObservationFailures = 1
    MaxProbeInterval = 1
    ClockBound = 20
    BootTimeout = 60
    Poll = 2
    MinPoll = 1
    MaxPoll = 15
    SshPoll = 2
    MaxWait = 120
    ReplySlack = 10
    AddressCall = 6
    AddressSlack = 1
    CallTimes = {5}
    JoinTime = 5
    LaneHolds = {10}
    BaseImages <- MCBaseImages
    UpTimes = {0}
    DoneTimes = {0, 25}
    MaxReadyFaults = 1
    MaxScript = 65536
    MaxSecret = 1024
    MaxShell = 65792
    MaxInput = 65536
    MaxRuntime = 86400
    MaxReadyWait = 1
    MaxQga = 65536
    MaxClass = 64
    MaxDesc = 256
    MaxReason = 320
    MaxStatusFailures = 3
    GuestAccounts <- MCGuestAccounts
    ScriptSizes = {1}
    SecretSizes = {0}
    Lifetimes = {1}
    OutputSizes = {0}
    Refusals <- MCRefusals
    MaxCallFaults = 3
    Loggers = {u1}
    Streams = {x1}
    BacklogLines = 1
    ChannelLines = 1
    AskedLines = {0}
    MaxLines = 1
    MaxFiles = 1
    Verifications = {u1, u2}
    KeyIds = {"k1", "k2"}
    KeySets <- TwoKeySets
    KeyLifetime = 3
    MinimumRefresh = 2
    FetchTime = 1
    TokenClasses = {"sound"}
    Clients = {u1, u2}
    BaseNames = {"n"}
    CreatedNames <- MCCreatedNames
    Subjects = {"s1"}
    Passwords = {"p1"}
    MaxPending = 1
    MaxAttempts = 1
    MaxAccounts = 1
    MaxTokens = 1
    MaxTickets = 1
    MaxStarts = 1
    MaxMishaps = 1
    MaxEdits = 0
    Operators = {u1}
    ExitCodes = {0}
    MaxCommands = 1
    CheckTimeout = 5
    PromptTimeout = 45
    AttemptTimeout = 2
    RetryInterval = 3
    ChildSlack = 15
    ConsentTimes = {0}
SPECIFICATION ProgressSpec
CHECK_DEADLOCK FALSE
PROPERTIES
    StorageSettles
    TasksEnd

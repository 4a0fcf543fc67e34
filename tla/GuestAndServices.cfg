CONSTANTS
    JobRows <- AllJobRows
    IdleTimeout = 2
    JobTimeout = 3
    CleanupTimeout = 1
    GraceTicks = 1
    CallTicks = 1
    MaxObservationFailures = 2
    MaxProbeInterval = 2
    ClockBound = 20
    BootTimeout = 60
    Poll = 2
    MinPoll = 1
    MaxPoll = 15
    SshPoll = 2
    MaxWait = 120
    ReplySlack = 10
    AddressCall = 6
    AddressSlack = 1
    CallTimes = {0, 5}
    JoinTime = 5
    LaneHolds = {3, 10}
    BaseImages <- MCBaseImages
    UpTimes = {0, 12, 25}
    DoneTimes = {0, 14, 25, 47, 200}
    MaxReadyFaults = 1
    MaxScript = 65536
    MaxSecret = 1024
    MaxShell = 65792
    MaxInput = 65536
    MaxRuntime = 86400
    MaxReadyWait = 120
    MaxQga = 65536
    MaxClass = 64
    MaxDesc = 256
    MaxReason = 320
    MaxStatusFailures = 3
    GuestAccounts <- MCGuestAccounts
    ScriptSizes = {0, 1, 65536, 65537}
    SecretSizes = {0, 1, 1024}
    Lifetimes = {0, 1, 86400, 86401}
    OutputSizes = {0, 16384, 49200}
    Refusals <- MCRefusals
    MaxCallFaults = 3
    u1 = u1
    u2 = u2
    Loggers = {u1, u2}
    Streams = {x1}
    BacklogLines = 2
    ChannelLines = 2
    AskedLines = {0, 1, 5}
    MaxLines = 3
    MaxFiles = 2
    Verifications = {u1, u2}
    KeyIds = {"k1", "k2"}
    KeySets <- MCKeySets
    KeyLifetime = 4
    MinimumRefresh = 3
    FetchTime = 2
    TokenClasses = {"sound", "signature", "algorithm"}
    Clients = {u1, u2}
    BaseNames = {"n", "m"}
    CreatedNames <- MCCreatedNames
    Subjects = {"s1"}
    Passwords = {"p1"}
    MaxPending = 1
    MaxAttempts = 2
    MaxAccounts = 2
    MaxTokens = 2
    MaxTickets = 2
    MaxStarts = 3
    MaxMishaps = 2
    MaxEdits = 2
    Operators = {u1, u2}
    ExitCodes = {0, 1, 2}
    MaxCommands = 5
    CheckTimeout = 5
    PromptTimeout = 45
    AttemptTimeout = 2
    RetryInterval = 3
    ChildSlack = 15
    ConsentTimes = {0, 20, 60}
SYMMETRY Interchangeable
SPECIFICATION GuestAndServicesSpec
CHECK_DEADLOCK FALSE
PROPERTIES
    SupervisionContract
    TrailContract
    KeyContract
    SessionContract
    HostContract
INVARIANTS
    ReadinessContract
    CommandContract

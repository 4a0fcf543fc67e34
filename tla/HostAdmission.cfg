CONSTANTS
    r1 = r1
    r2 = r2
    r3 = r3
    n1 = n1
    n3 = n3
    m1 = m1
    Requests = {r1, r2, r3}
    VmNameOf <- MCVmNameOf
    SizeOf <- MCSizeOf
    HotRequests = {r3}
    Retained = {r1}
    Manual = {m1}
    HostBackends = {"tart", "libvirt"}
    MaxRunningVms = 2
    HostSizes = {0, 2, 4}
    HostHotVms = 1
    HistoryLimit = 2
    MaxHostFaults = 1
    NoName = NoName
    NoRecord = NoRecord
SPECIFICATION SharedHostSpec
CHECK_DEADLOCK FALSE
PROPERTIES
    ListedMachinesFit
    RefusalMeansFull
    ReaperSparesTheClaimed
    OrphansAreReaped

\* The sweep is disabled by one reload and enabled by the next.
CONSTANTS
    Prefixed <- MCPrefixed
    Documents <- MCDocuments
    Settings <- MCSettings
    FirstDocument <- MCFirst
    StarterDocument <- MCStarterText
    Edits = {"no_reap", "reap"}
    Edited <- MCEdited
    IsUiEditable <- MCIsUiEditable
    EditOf <- MCEditOf
    Target <- MCTarget
    Shape <- MCShape
    WebClients = {w1}
    DaemonVars = {"A", "HOME"}
    CliVars = {"HOME"}
    CliLayer <- MCCliLayer
    DaemonCli <- MCNoLayer
    MaxWrites = 2
    Bases = {"libvirt", "tart"}
    BaseDocument <- MCBase
    SettingChanges <- MCSettingChanges
    Changed <- MCChanged
    MaxChanges = 1
SPECIFICATION MCSpec
CHECK_DEADLOCK FALSE
INVARIANT
    SweepIsApplied

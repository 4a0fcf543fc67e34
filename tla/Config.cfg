CONSTANTS
    Prefixed <- MCPrefixed
    Documents <- MCDocuments
    Settings <- MCSettings
    FirstDocument <- MCFirst
    StarterDocument <- MCStarterText
    Edits = {"no_reap", "reap", "add_q", "drop_p", "unset"}
    Edited <- MCEdited
    IsUiEditable <- MCIsUiEditable
    EditOf <- MCEditOf
    Target <- MCTarget
    Shape <- MCShape
    WebClients = {w1}
    DaemonVars = {"A", "HOME"}
    CliVars = {"HOME"}
    CliLayer <- MCCliLayer
    DaemonCli <- MCNoLayer
    MaxWrites = 2
    Bases = {"libvirt", "tart"}
    BaseDocument <- MCBase
    SettingChanges <- MCSettingChanges
    Changed <- MCChanged
    MaxChanges = 3
SPECIFICATION MCSpec
CHECK_DEADLOCK FALSE
INVARIANTS
    AcceptedIsUsable
    ReloadContract
PROPERTIES
    LockedEditsSerialize
    LastWriteSettles

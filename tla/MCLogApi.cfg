CONSTANTS
    Thread <- MCThread
    Logs <- MCLogs
    Calls <- MCCalls
    CallbackOps = {}
    Folders = {"logs/"}
    Configured = TRUE
    Format = "String"
    Openable = {TRUE, FALSE}
    MaxNumber = 1
    Fresh = 0
    CounterMod = 65536
    MaxLogs = 2
    MaxCalls = 1
SPECIFICATION Spec
INVARIANTS
    TypeOK
    GuardsFollowScopes
    MutexFollowsScopes
    NoResidualSuspension
    NoOwnEntries
    TallyStands
    ResetEmpties
PROPERTIES
    SuspensionSpec
    StoreSpec

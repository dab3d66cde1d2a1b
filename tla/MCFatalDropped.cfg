CONSTANTS
    Thread <- MCThread
    Logs <- MCLogs
    Calls <- MCCalls
    CallbackOps = {}
    Folders = {"logs/"}
    Configured = TRUE
    Format = "String"
    Openable = {TRUE, FALSE}
    MaxNumber = 1
    Fresh = 1
    CounterMod = 65536
    MaxLogs = 5
    MaxCalls = 1
    Signalled = {1}
    Throwing = {1}
    Descriptors = 1
    FolderOpens = {TRUE}
    UserLogs = 1
SPECIFICATION ProcessSpec
INVARIANT FatalReachesFile

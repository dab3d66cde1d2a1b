CONSTANTS
    Thread <- MCThread
    Logs <- MCLogs
    Calls <- MCCalls
    CallbackOps = {"reset"}
    Folders = {"logs/", "other/"}
    Configured = FALSE
    Format = "String"
    Openable = {TRUE}
    MaxNumber = 1
    Fresh = 1
    CounterMod = 65536
    MaxLogs = 1
    MaxCalls = 3
SPECIFICATION FairSpec
PROPERTIES
    OnlyRemovalTerminates
    CallsReturn

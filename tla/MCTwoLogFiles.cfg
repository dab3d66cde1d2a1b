CONSTANTS
    Thread <- PairThread
    Logs <- PairIncidents
    Calls <- PairNoCalls
    CallbackOps = {}
    Folders = {"logs/"}
    Configured = TRUE
    Format = "String"
    Openable = {TRUE}
    MaxNumber = 1
    Fresh = 1
    CounterMod = 65536
    MaxLogs = 2
    MaxCalls = 0
SPECIFICATION Spec
PROPERTY SameLogFile

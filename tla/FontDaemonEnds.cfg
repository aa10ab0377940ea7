SPECIFICATION FairSpec
CONSTANTS
    f1 = f1
    f2 = f2
    c1 = c1
    c2 = c2
    Names = {f1}
    StyleOf <- TwoStyles
    Clients = {c1}
    Watcher = c1
    Methods = {"install", "uninstall", "uninstallByName", "enable", "disable", "move", "removeFile", "statFont", "list", "reconfigure", "saveDisabled"}
    CallDirs = {"sys", "user"}
    Initial <- OneFont
    FcReliable = TRUE
    MaxCalls = 2
    MaxDepth = 2
    MaxOutside = 0
    MaxKills = 0
PROPERTIES EveryMethodEnds QuitsWithoutClients
CHECK_DEADLOCK FALSE

SPECIFICATION Spec
CONSTANTS
    f1 = f1
    f2 = f2
    c1 = c1
    c2 = c2
    Names = {f1}
    StyleOf <- TwoStyles
    Clients = {c1, c2}
    Watcher = c1
    Methods = {"install", "move", "reconfigure"}
    CallDirs = {"sys", "user"}
    Initial <- OneFont
    FcReliable = TRUE
    MaxCalls = 3
    MaxDepth = 2
    MaxOutside = 0
    MaxKills = 0
PROPERTY NoExitUnderClient
PROPERTY UserHeardFollows
CHECK_DEADLOCK FALSE

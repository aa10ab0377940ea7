SPECIFICATION FairSpec
CONSTANTS
    f1 = f1
    f2 = f2
    c1 = c1
    c2 = c2
    Names = {f1, f2}
    StyleOf <- OneStyle
    Clients = {c1}
    Watcher = c1
    Methods = {"enable", "disable", "reconfigure"}
    CallDirs = {"sys", "user"}
    Initial <- PairOfFonts
    FcReliable = FALSE
    MaxCalls = 2
    MaxDepth = 2
    MaxOutside = 0
    MaxKills = 0
CHECK_DEADLOCK FALSE
PROPERTY HelperStoresDisabled

SPECIFICATION Spec
CONSTANTS
    f1 = f1
    f2 = f2
    c1 = c1
    c2 = c2
    Names = {f1, f2}
    StyleOf <- OneStyle
    Clients = {c1}
    Watcher = c1
    Methods = {"install", "uninstall", "uninstallByName", "enable", "disable", "move", "removeFile", "statFont", "list", "reconfigure", "saveDisabled"}
    CallDirs = {"sys", "user"}
    Initial <- AnyFonts
    FcReliable = FALSE
    MaxCalls = 3
    MaxDepth = 1
    MaxOutside = 1
    MaxKills = 1
INVARIANT TypeOK
INVARIANT UserChangesPending
INVARIANT SysChangesPending
PROPERTY HeardFollows
PROPERTY DisabledStaysKnown
CONSTRAINT OneOrTwo
CHECK_DEADLOCK FALSE

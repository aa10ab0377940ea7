SPECIFICATION GroupsSpec
CONSTANTS
  Files <- TwoStyles
  Names = {"g", "h"}
  Failures = {"open", "finalize"}
  MaxSlowed = 0
  MaxWire = 2
  MaxCrashes = 1
  MaxChanges = 2
CONSTRAINT Small
INVARIANTS SavedUnlessModified
PROPERTIES GroupsKeepInstalled
CHECK_DEADLOCK FALSE

SPECIFICATION GroupsSpec
CONSTANTS
  Files <- OneFile
  Names = {"g"}
  Failures = {}
  MaxSlowed = 0
  MaxWire = 1
  MaxCrashes = 0
  MaxChanges = 1
PROPERTIES CheckedGroupKeepsInstalled

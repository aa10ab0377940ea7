SPECIFICATION FairSpec
CONSTANTS
  Files <- AllFiles
  MaxSlowed = 1
  MaxWire = 2
  MaxCrashes = 1
  MaxChanges = 2
CONSTRAINT Small
INVARIANTS ShowsWhatIsKnown HeldOnlyWhileSlow EnabledHasFile StatsCurrent
PROPERTIES EventuallyListed
CHECK_DEADLOCK FALSE

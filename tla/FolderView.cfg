SPECIFICATION FairSpec
CONSTANTS
  Items <- TwoItems
  Stripes <- Sizes
  Changes = {"sort", "url", "direction", "filter"}
  MaxDrag = 2
  MaxBatch = 2
  MaxCell = 1
  MaxDrift = 1
CONSTRAINT Small
INVARIANTS TypeOK EveryRowPlaced SavedIsCurrent MapsInverse ViewsMissNothing
PROPERTIES KeepsPlace SavedIsRestored EventuallySaved
CHECK_DEADLOCK FALSE

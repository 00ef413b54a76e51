SPECIFICATION Spec
CONSTANTS
  MaxVersion = 2
  MaxReleases = 6
  MaxTrouble = 5
  AssetCount = 3
  MaxAttempts = 5
INVARIANT CompletedRunsAreListed

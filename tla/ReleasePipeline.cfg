SPECIFICATION FairSpec
CONSTANTS
  MaxVersion = 2
  MaxReleases = 6
  MaxTrouble = 3
  AssetCount = 2
  MaxAttempts = 2
INVARIANTS
  ReleaseInv
  NewestIsLatest
PROPERTIES
  ReleasesAreImmutable
  MergedVersionsAreReleased

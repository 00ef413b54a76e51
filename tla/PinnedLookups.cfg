CONSTANTS
  None = None
  Error = Error
  d1 = d1
  d2 = d2
  d3 = d3
  Scenarios <- CveScenarios
  Rules <- MCRules
  Metadata <- MCMetadata
SPECIFICATION Spec
CHECK_DEADLOCK FALSE
INVARIANTS PinnedImagesAreLookedUpByDigest

CONSTANTS
  None = None
  Id <- MCId
  Capability = {"CHOWN", "KILL", "NET"}
  SELinuxLabel = {"trusted", "other"}
  SELinuxLevelText = {"s0", "s1", "s0:c1,c7"}
  PlainLevel = {"s0", "s1"}
  ClassName = {"runc", "kata", "low", "high"}
  Ndots <- MCNdots
  AppContainers = {"app"}
  InitContainers = {"init"}
  EphemeralContainers = {}
  WorkloadKind = "Deployment"
  Orders <- SelinuxOrder
  Configs <- BaseConfigs
  Submitted <- PodsOnly
  Resubmitted <- NoPods
  EphemeralContexts <- NoPods
  RegistryAnswers <- NoAnswers
SPECIFICATION Spec
CHECK_DEADLOCK FALSE
INVARIANTS AdmittedLevelsAreExpected

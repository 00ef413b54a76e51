CONSTANTS
  None = None
  Id <- MCId
  Capability = {"CHOWN", "KILL", "NET"}
  SELinuxLabel = {"trusted", "other"}
  SELinuxLevelText = {"s0", "s1", "s0:c1,c7"}
  PlainLevel = {"s0", "s1"}
  ClassName = {"runc", "kata", "low", "high"}
  Ndots <- MCNdots
  AppContainers = {"app"}
  InitContainers = {}
  EphemeralContainers = {"debug"}
  WorkloadKind = "Deployment"
  Orders <- AllPolicyOrders
  Configs <- MCConfigs
  Submitted <- WithClasses
  Resubmitted <- NoPods
  EphemeralContexts <- EphemeralSCs
  RegistryAnswers <- NoAnswers
SPECIFICATION Spec
CHECK_DEADLOCK FALSE
INVARIANTS ChainInv ExplicitFieldsKept
PROPERTIES NoOpUpdatesAreStored

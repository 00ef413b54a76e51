CONSTANTS
  None = None
  Id <- MCId
  Capability = {"CHOWN", "KILL", "NET"}
  SELinuxLabel = {"trusted", "other"}
  SELinuxLevelText = {"s0", "s1", "s0:c1,c7"}
  PlainLevel = {"s0", "s1"}
  ClassName = {"runc", "kata", "low", "high"}
  Ndots <- MCNdots
  AppContainers = {"app"}
  InitContainers = {"init"}
  EphemeralContainers = {}
  WorkloadKind = "Deployment"
  Orders <- WorkloadOrders
  Configs <- BaseAndLenient
  Submitted <- Workloads
  Resubmitted <- UpdatedPods
  EphemeralContexts <- NoPods
  RegistryAnswers <- NoAnswers
SPECIFICATION FairSpec
CHECK_DEADLOCK FALSE
INVARIANTS ChainInv
PROPERTIES NoOpUpdatesAreStored TemplatePodsAreAdmitted AdmittedWorkloadsRun

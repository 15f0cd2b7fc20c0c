SPECIFICATION KeepingSpec
CONSTANTS
  Mix = "both"
  Tags <- MCTags
  LifecycleTags <- MCLifecycleTags
  Images <- MCImages
  Floating <- MCFloating
  TagOf <- MCTagOf
  Configs <- MCConfigs
  ImageOf <- MCImageOf
  Pods <- MCPods
  Broken <- MCBroken
  PodOf <- MCPodOf
  ControlPlane = TRUE
  TalosLag = 0
  KubeletLag = 4
  SettleWindow = 3
  RecordTTL = 5
  CallTimeout = 2
  Calls = {h1}
  Seqs = {s1}
  MaxUpdates = 1
  MaxRestarts = 0
  MaxFaults = 1
  None = None
CHECK_DEADLOCK FALSE
INVARIANTS
  TypeOK
PROPERTIES
  DoneMeansAbsorbed
  ImplementsContract
  UpdateCompletes

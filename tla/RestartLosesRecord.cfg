SPECIFICATION Spec
CONSTANTS
  Mix = "apiserver"
  Tags <- MCTags
  LifecycleTags <- MCLifecycleTags
  Images <- MCImages
  Floating <- MCFloating
  TagOf <- MCTagOf
  Configs <- MCConfigs
  ImageOf <- MCImageOf
  Pods <- MCPods
  Broken <- MCBroken
  PodOf <- MCPodOf
  ControlPlane = TRUE
  TalosLag = 0
  KubeletLag = 4
  SettleWindow = 3
  RecordTTL = 5
  CallTimeout = 2
  Calls = {h1}
  Seqs = {s1}
  MaxUpdates = 1
  MaxRestarts = 1
  MaxFaults = 0
  None = None
CHECK_DEADLOCK FALSE
PROPERTIES
  DoneMeansAbsorbed

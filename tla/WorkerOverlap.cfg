SPECIFICATION HangingSpec
CONSTANTS
  Mix = "upgrade"
  Tags <- MCTags
  LifecycleTags <- MCLifecycleTags
  Images <- MCImages
  Floating <- MCFloating
  TagOf <- MCTagOf
  Configs <- MCConfigs
  ImageOf <- MCImageOf
  Pods <- MCPods
  Broken <- MCBroken
  PodOf <- MCPodOf
  ControlPlane = FALSE
  TalosLag = 0
  KubeletLag = 0
  SettleWindow = 0
  RecordTTL = 0
  CallTimeout = 0
  Calls = {h1, h2}
  Seqs = {s1, s2}
  MaxUpdates = 2
  MaxRestarts = 1
  MaxFaults = 1
  None = None
CHECK_DEADLOCK FALSE
INVARIANTS
  LiveSequenceIsTracked
PROPERTIES
  OnlyDesiredApplied
  DeletionStopsUpgrades
  ImplementsContract

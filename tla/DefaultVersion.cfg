SPECIFICATION FairSpec
CONSTANTS
  Specs <- MCSpecs
  InputsOf <- MCInputsOf
  BareMinors <- MCBareMinors
  Versions = {"unset", "v1", "v2"}
  FirstVersions = {"unset", "v1", "v2"}
  Unset = "unset"
  Default = "v1"
  None = None
  MaxReleases = 0
  MaxUpdates = 1
  MaxUpsets = 0
CHECK_DEADLOCK FALSE
PROPERTIES
  UpdateCompletes

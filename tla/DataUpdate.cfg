SPECIFICATION FairSpec
CONSTANTS
  Specs <- MCSpecs
  InputsOf <- MCInputsOf
  BareMinors <- MCBareMinors
  Versions = {"v1", "v2"}
  FirstVersions = {"v1"}
  Unset = "unset"
  Default = "v1"
  None = None
  MaxReleases = 1
  MaxUpdates = 1
  MaxUpsets = 1
CHECK_DEADLOCK FALSE
INVARIANTS
  TypeOK
  StatusImageIsRendered
PROPERTIES
  CompletionMatchesRequest
  ImageIsPinned
  DataIsFrozen
  DataIsCreated
  UpdateCompletes

SPECIFICATION FairSpec
CONSTANTS
  c1 = c1
  c2 = c2
  Configs = {c1, c2}
  Versions <- MCVersions
  Prereleases <- MCPrereleases
  Extensions = {"e"}
  Established <- MCEstablished
  Bare = Bare
  Malformed = Malformed
  Requests <- MCRequests
  None = None
  Created <- MCCreated
  TTL = 1
  MaxPublished = 1
  MaxUpsets = 1
CHECK_DEADLOCK FALSE
INVARIANTS
  TypeOK
  ImageIsAvailable
  ExtensionsMatchVersion
PROPERTIES
  AnswersAreRecent
  KnownSurvivesOutage
  GetsItsImage

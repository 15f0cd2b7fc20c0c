SPECIFICATION FairSpec
CONSTANTS
  a = a
  b = b
  c = c
  Members = {1, 2}
  First = {1}
  Configs = {a, b}
  Initial = a
  Edits <- Back
  Bad = {}
  None = None
  MaxFaults = 1
PROPERTIES
  UpToDateIsTrue

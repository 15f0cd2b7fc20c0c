SPECIFICATION FairSpec
CONSTANTS
  a = a
  b = b
  c = c
  Members = {1, 2}
  First = {1}
  Configs = {a, b, c}
  Initial = a
  Edits <- Onward
  Bad = {b}
  None = None
  MaxFaults = 2
INVARIANTS
  TypeOK
  RecordedIsRunning
  QuietVerdict
PROPERTIES
  UpToDateIsTrue
  OneAfterAnother
  PoolConverges

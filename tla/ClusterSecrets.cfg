SPECIFICATION FairSpec
CONSTANTS
  m1 = m1
  m2 = m2
  w1 = w1
  Machines <- MCMachines
  ControlPlanes <- MCControlPlanes
  Bundles = {b1, b2, b3}
  None = None
  MaxFaults = 1
INVARIANTS
  TypeOK
  OneBundle
  DataImpliesCA
  QuietIsProvided
PROPERTIES
  EndpointsConverge

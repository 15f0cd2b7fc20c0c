SPECIFICATION Spec
CONSTANTS
  Names <- MCNames
  Values <- MCValues
  Fixed <- MCFixed
  Machines <- MCMachines
  Object = Object
  Null = Null
  MaxEdits = 2
INVARIANTS
  OnlyListedInPlace
  SetOrClearedInPlace
  TemplatesAgree
PROPERTIES
  FixedIsKept

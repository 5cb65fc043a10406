SPECIFICATION EditsSpec
CONSTANTS
  MaxInt = 4096
  EnumerationLimit = 32
  EnumerationBudget = 64
  MaxLanes = 2
  MaxEdits = 2
  Maps <- MCMaps
  Partners <- MCPartners
  Imports <- MCImports
INVARIANTS
  VerdictsAreTrue
  FitsIsOwnership
  ProjectionIsLocal
  TreesSumOnce
  ImportsAreFaithful
PROPERTY MeaningKept
CHECK_DEADLOCK FALSE

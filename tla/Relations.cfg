SPECIFICATION RelationsSpec
CONSTANTS
  MaxInt = 33554432
  EnumerationLimit = 65536
  EnumerationBudget = 65536
  MaxPath = 4
  MaxQuestions = 2
  MaxAssigned = 4
  MaxCost = 40
  GlobalAccesses <- MCGlobals
  GraphVars <- MCVars
  Offers <- MCOffers
  Related <- MCRelated
  Required <- MCRequired
  MaxLanes = 32
  Subjects <- MCSubjects
INVARIANTS
  AnswersAreFresh
  ConflictsAreFound
  VectorsMoveTheTile
  ProjectionsAreCompatible
  TargetDelivers
PROPERTY CostsOnlyGrow
CHECK_DEADLOCK FALSE

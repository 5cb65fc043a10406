SPECIFICATION Spec
CONSTANTS
  Vars <- MCVars
  Encodings <- MCEncodings
  NumConstraints = 6
  Kind <- MCKind
  Strength <- MCStrength
  Endpoints <- MCEndpoints
  Admitted <- MCAdmitted
  Tuples <- MCTuples
  Compatible <- MCCompatible
  InitialDomains <- MCInitial
  Verified <- MCVerified
  Priced <- MCPriced
  StaticCost <- MCStaticCost
  ConversionCost <- MCConversionCost
  EncodingsEqual <- MCEncodingsEqual
  ExistingConversions = {6}
  ExactCombinationLimit = 8
  BeamWidth = 1
  MaxExpandedStates = 16
  MaxUInt = 8
INVARIANTS
  ExhaustiveIsOptimal
  VerifierAgrees
PROPERTIES
  KeepsPromise
CHECK_DEADLOCK FALSE

SPECIFICATION FairSpec
CONSTANTS
  v1 = v1
  v2 = v2
  v3 = v3
  v4 = v4
  e1 = e1
  e2 = e2
  e3 = e3
  Vars <- MCVars
  Encodings <- MCEncodings
  NumConstraints = 7
  Kind <- FrozenKind
  Strength <- FrozenStrength
  Endpoints <- FrozenEndpoints
  Admitted <- FrozenAdmitted
  Tuples <- FrozenTuples
  Compatible <- FrozenCompatible
INVARIANTS
  ValidBounds
  UnqueuedSettled
PROPERTIES
  Termination
  KeepsPromise
CHECK_DEADLOCK FALSE

SPECIFICATION PartsSpec
CONSTANTS
  Encodings <- MCEncodings
  Kinds = {"same", "transform", "reduction"}
  Image <- MCImage
  Problems <- MCProblems
  Programs <- MCPrograms
  Plan <- MCPlan
  Proven <- MCProven
INVARIANTS
  SharedProducersAgree
CHECK_DEADLOCK FALSE

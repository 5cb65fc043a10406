SPECIFICATION ComposedSpec
CONSTANTS
  Buffers <- MCBuffers
  Layouts <- MCLayouts
  Unbound = "unbound"
  ProvenLayouts <- MCProven
  Agree <- MCAgree
  Programs <- MCPrograms
  Encodings <- MCEncodings
  Roots <- MCBuffers
  Image <- MCImage
  RootImage <- MCRootImage
  Problems <- MCProblems
INVARIANTS
  OriginCovers
  EffectiveAgree
  BindingsSurvive
CHECK_DEADLOCK FALSE

SPECIFICATION ComposedSpec
CONSTANTS
  NumThreads = 4
  LaneExtent = 2
  Conversions <- MCConversions
  Kernels <- MCKernels
  Programs <- MCPrograms
  Storages <- MCStorages
  ScratchBudget = 14
  MaxUInt = 15
INVARIANTS
  RightValues
  RaceFree
  NothingOnRefusal
  AccountIsExact
PROPERTIES
  LoweredDelivers
CHECK_DEADLOCK FALSE

SPECIFICATION Spec
CONSTANTS
  Fragments = {"f", "g"}
  Storages = {"s", "t"}
  Programs <- MCPrograms
  Oracles <- MCOracles
INVARIANTS
  Preserved
  NoUninitializedRead
CHECK_DEADLOCK FALSE

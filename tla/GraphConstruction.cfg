SPECIFICATION Spec
CONSTANTS
  Programs <- MCPrograms
  Encodings <- Layouts
  NoLayout = "none"
  Transposed <- Flip
  NameOrders <- Orders
INVARIANTS
  SolutionsTypecheck
  NothingExcluded
PROPERTIES
CHECK_DEADLOCK FALSE

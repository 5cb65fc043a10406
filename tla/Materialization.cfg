SPECIFICATION RebuildSpec
CONSTANTS
  Programs <- MCPrograms
  Top = "module"
INVARIANTS
  OnlyDeadCodeIsStuck
  SolutionSuffices
  CommitIsFaithful
CHECK_DEADLOCK FALSE

SPECIFICATION Spec
CONSTANTS
  Inputs <- MCInputs
  Layouts <- MCLayouts
  Operators <- MCOperators
INVARIANTS
  ArenaIsTree
  ParsesAsWritten
  NothingIgnored
CHECK_DEADLOCK FALSE

SPECIFICATION Spec
CONSTANTS
  Cell = {c1, c2, c3, c4, c5, c6}
  Obj = {A, B}
  Blank = Blank
  Word = {scalar}
  Fn = {"fn"}
  ClosureArgc <- MCClosureArgc
  Native = {"const", "each", "each_effect", "error"}
  NativeMeta <- MCNativeMeta
  Pick <- Fixed
  MaxFields = 2
PROPERTIES
  ImmutableButNatives
SYMMETRY Symmetry
CHECK_DEADLOCK FALSE

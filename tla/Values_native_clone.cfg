SPECIFICATION Spec
CONSTANTS
  Cell = {c1, c2, c3, c4, c5, c6}
  Obj = {A, B}
  Blank = Blank
  Word = {scalar}
  Fn = {}
  ClosureArgc <- MCClosureArgc
  Native = {"const"}
  NativeMeta <- MCNativeMeta
  Pick <- Fixed
  MaxFields = 2
PROPERTIES
  ImmutableTerms
SYMMETRY Symmetry
CHECK_DEADLOCK FALSE

SPECIFICATION Spec
CONSTANTS
  Cell = {c1, c2, c3, c4, c5}
  Obj = {A, B, C}
  Blank = Blank
  Word = {scalar}
  Fn = {"fn"}
  ClosureArgc <- MCClosureArgc
  Native = {"const", "each", "each_effect", "eq"}
  NativeMeta <- MCNativeMeta
  Pick <- Fixed
  MaxFields = 2
INVARIANTS
  TypeOK
  RcExact
  FieldsInOrder
  NoDangling
  AllReclaimed
  Acyclic
PROPERTIES
  SharedFrozen
SYMMETRY Symmetry

SPECIFICATION Spec
CONSTANTS
  Compiled <- CompiledPrograms
  Extern <- PureMembers
  NativeOutcome <- native_call
  Obj = {o1, o2, o3, o4, o5, o6, o7, o8, o9, o10, o11, o12, o13, o14, o15, o16, o17, o18, o19, o20, o21, o22, o23, o24, o25, o26, o27, o28, o29, o30}
  Cell = {c1, c2, c3, c4, c5, c6, c7, c8, c9, c10, c11, c12, c13, c14, c15, c16, c17, c18, c19, c20, c21, c22, c23, c24, c25, c26, c27, c28, c29, c30, c31, c32, c33, c34, c35, c36, c37, c38, c39, c40, c41, c42, c43, c44, c45, c46, c47, c48, c49, c50, c51, c52, c53, c54, c55, c56, c57, c58, c59, c60, c61, c62, c63, c64, c65, c66, c67, c68, c69, c70, c71, c72, c73, c74, c75, c76, c77, c78, c79, c80}
  Blank = Blank
  Word <- Words
  Fn = {"closure"}
  ClosureArgc = Unused
  Native <- PureNatives
  NativeMeta <- Meta
  Pick <- FirstFree
INVARIANTS
  Executable
  CountsExact
  HoldsEachOnce
  MemoryReturned
PROPERTIES
  RefinesMachine
  ChangedAlone

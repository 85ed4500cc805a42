SPECIFICATION FairSpec
CONSTANTS
  Programs <- PatternExample
  Compiled <- CompiledPattern
  Extern <- Members
  NativeOutcome <- native_call
  Time <- SomeTime
INVARIANTS
  StackBalanced
CHECK_DEADLOCK FALSE

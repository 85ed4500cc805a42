SPECIFICATION FairSpec
CONSTANTS
  Programs <- NestedExample
  Compiled <- CompiledNested
  Extern <- Members
  NativeOutcome <- native_call
  Time <- SomeTime
PROPERTIES
  CallsReturn
CHECK_DEADLOCK FALSE

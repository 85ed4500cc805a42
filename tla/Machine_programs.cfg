SPECIFICATION FairSpec
CONSTANTS
  Programs <- AllPrograms
  Compiled <- CompiledPrograms
  Extern <- Members
  NativeOutcome <- native_call
  Time <- SomeTime
INVARIANTS
  TypeOK
  StackBalanced
  LoadsAreStored
  MeansTheSame
PROPERTIES
  CallsBalanced
  Terminates
CHECK_DEADLOCK FALSE

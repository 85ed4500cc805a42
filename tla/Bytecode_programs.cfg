SPECIFICATION Spec
CONSTANTS
  Objects <- SomeObjects
  Bytes <- Codes
INVARIANTS
  BytesReadBack
  FetchesInstructions
CHECK_DEADLOCK FALSE

SPECIFICATION ClientSpec
CONSTANTS
  Key = {"k1", "k2", "k3", "k4"}
  Length <- MCLength
  Hash <- MCHash
  Buckets = 2
  Capacity = 16
  Value = {1, 2}
  None = None
  MaxEntries = 4
  Item = {"a", "b"}
  items_per_block = 2
  MaxItems = 5
  Operand = {"a", "b"}
  StackCapacity = 1
  MaxLen = 5
  Opcodes = {"push", "pop", "dup", "tupleget", "check", "join", "swap"}
  Part <- MCPart
  Passing = {"b"}
  Verdict <- MCVerdict
  Joined <- MCJoined
INVARIANTS
  VisitsEachOnce
  SymbolsIdentify
  MembersDroppedOnce
  ItemsPinned
  IteratesInOrder
  HasRoom
PROPERTIES
  ImplementsDictionary
  ImplementsStack
CHECK_DEADLOCK FALSE

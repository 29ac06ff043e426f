SPECIFICATION Spec
CONSTANTS
  MaxNodes = 8
  max_variables = 2
  TableSize = 16
  StackRoom = 16
  MaxCalls = 4
  Ops = {"XOR"}
  OpCode <- MCOpCode
  UniqueBucket <- MCUniqueBucket
  ComputedBucket <- MCComputedBucket
INVARIANTS TypeOK ApplyComputes QuantifiersCompute RecursionShrinks NothingDangles
CHECK_DEADLOCK FALSE

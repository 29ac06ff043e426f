SPECIFICATION Spec
CONSTANTS
  MaxPins = 3
  MaxGates = 2
  Wirings <- MCWirings
  TruthBytes <- MCTruthBytes
  MAX_LOOP_CYCLES = 2
INVARIANTS
  TypeOK
  DerivationsSound
  ContradictionSound
  StartKept
  FixpointReached
  OrderIndependent

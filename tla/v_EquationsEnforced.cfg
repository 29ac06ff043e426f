SPECIFICATION Spec
CONSTANTS
  MAX_VARIABLES_PER_MODEL = 2
  MAX_EQUATIONS_PER_MODEL = 1
  MAXIMUM_BIT_WIDTH = 1
  MaxNodes = 3
  Numbers = {1}
  Operations = {"EQ"}
  MaxPins = 4
  MaxGates = 1
  Wirings = {}
  TruthBytes = {}
INVARIANT
  EquationsEnforced
